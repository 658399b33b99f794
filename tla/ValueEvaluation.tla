-------------------------- MODULE ValueEvaluation --------------------------
(***************************************************************************)
(* Evaluation of a metric with operation value, of type gauge, counter or  *)
(* histogram.  The rows are split between workers as for count metrics.  A *)
(* worker keeps sum and count by olv, and for a histogram the buckets; the *)
(* list of bucket bounds is the one of the configuration, shared by all    *)
(* workers, and every new histogram value sorts it in place.  Values that  *)
(* are no finite numbers are left out.  Sums are over integers.            *)
(*                                                                         *)
(* A metric is a record of                                                 *)
(*   threads    its threads                                                *)
(*   histogram  its type is histogram                                      *)
(*   buckets    its buckets as configured                                  *)
(*   answers    answers of its query: sequences of rows, records of the    *)
(*              outcome of the condition, the olv, whether the value is a  *)
(*              finite number, and the value                               *)
(***************************************************************************)
EXTENDS Partition, SequencesExt

CONSTANTS
  Olvs,     \* ordered label values
  Metrics   \* metrics that are considered

VARIABLES
  metric,      \* the metric that is evaluated
  pc,          \* evaluating goroutine: "idle" or "work"
  data,        \* rows of the answer in work
  bucketList,  \* bounds of the configuration, sorted in place
  workers,     \* position, end, map, and the state of the sort
  arrived,     \* workers whose map was received
  series       \* result by olv

vars == <<metric, pc, data, bucketList, workers, arrived, series>>

Bounds == Range(metric.buckets)

NoBuckets == [b \in Bounds |-> 0]
NewSeries == [sum |-> 0, cnt |-> 0, buckets |-> NoBuckets]
NoMap == [olv \in Olvs |-> NewSeries]

(* A sort is at element i, moving it down to j; "load" is the comparison   *)
(* of two neighbours, "low" and "high" are the two stores of their swap.   *)
NotSorting == [at |-> "no", i |-> 0, j |-> 0, tmp |-> <<>>]

Init ==
  /\ metric \in Metrics
  /\ pc = "idle"
  /\ data = <<>>
  /\ bucketList = metric.buckets
  /\ workers = <<>>
  /\ arrived = <<>>
  /\ series = NoMap

NewWorker(i, n, t) ==
  [pos |-> Start(i, n, t), stop |-> Stop(i, n, t), map |-> NoMap, sort |-> NotSorting]

(* An answer without rows: no series.                                      *)
EvaluateNothing ==
  /\ pc = "idle"
  /\ data' = <<>>
  /\ series' = NoMap
  /\ UNCHANGED <<metric, pc, bucketList, workers, arrived>>

StartWorkers(rows) ==
  /\ pc = "idle"
  /\ rows # <<>>
  /\ data' = rows
  /\ LET n == Len(rows)
         t == ThreadsNumber(metric.threads, n)
     IN  workers' = [w \in 1..t |-> NewWorker(w - 1, n, t)]
  /\ arrived' = <<>>
  /\ series' = NoMap
  /\ pc' = "work"
  /\ UNCHANGED <<metric, bucketList>>

Usable(row) == row.ok /\ row.finite

(* Mutant: a value on a bound is not in its bucket.                        *)
ObserveBelow(ms, value, list) ==
  [sum |-> ms.sum + value,
   cnt |-> ms.cnt + 1,
   buckets |-> [b \in Bounds |-> ms.buckets[b] + Cardinality({k \in DOMAIN list : list[k] = b /\ value < b})]]

(* Every bucket whose bound is not below the value gets it.                *)
Observe(ms, value, list) ==
  [sum |-> ms.sum + value,
   cnt |-> ms.cnt + 1,
   buckets |-> [b \in Bounds |->
                  ms.buckets[b] + IF metric.histogram
                                    THEN Cardinality({k \in DOMAIN list : list[k] = b /\ value <= b})
                                    ELSE 0]]

AtRow(w) ==
  /\ pc = "work"
  /\ w \in DOMAIN workers
  /\ workers[w].pos < workers[w].stop

CurrentRow(w) == data[workers[w].pos]

(* The row is counted into the worker's map.                               *)
Counted(w) ==
  [workers EXCEPT ![w].pos = @ + 1,
                  ![w].map[CurrentRow(w).olv] = Observe(@, CurrentRow(w).value, bucketList),
                  ![w].sort = NotSorting]

SkipRow(w) ==
  /\ AtRow(w)
  /\ ~Usable(CurrentRow(w))
  /\ workers' = [workers EXCEPT ![w].pos = @ + 1]
  /\ UNCHANGED <<metric, pc, data, bucketList, arrived, series>>

(* A row of an olv the worker has, or of a metric that is no histogram.    *)
CountRow(w) ==
  /\ AtRow(w)
  /\ Usable(CurrentRow(w))
  /\ workers[w].sort = NotSorting
  /\ ~metric.histogram \/ workers[w].map[CurrentRow(w).olv].cnt > 0
  /\ workers' = Counted(w)
  /\ UNCHANGED <<metric, pc, data, bucketList, arrived, series>>

(* A new histogram value: the bounds are sorted.                           *)
CreateHistogramMetricValue(w) ==
  /\ AtRow(w)
  /\ Usable(CurrentRow(w))
  /\ workers[w].sort = NotSorting
  /\ metric.histogram /\ workers[w].map[CurrentRow(w).olv].cnt = 0
  /\ workers' = [workers EXCEPT ![w].sort = [at |-> "load", i |-> 2, j |-> 2, tmp |-> <<>>]]
  /\ UNCHANGED <<metric, pc, data, bucketList, arrived, series>>

(* One element of the list of bounds is compared with the one before it.   *)
Compare(w) ==
  /\ AtRow(w)
  /\ workers[w].sort.at = "load"
  /\ LET s == workers[w].sort
     IN  workers' =
           IF s.i > Len(bucketList) THEN Counted(w)
           ELSE IF s.j > 1 /\ bucketList[s.j] < bucketList[s.j - 1]
             THEN [workers EXCEPT ![w].sort = [s EXCEPT !.at = "low", !.tmp = <<bucketList[s.j], bucketList[s.j - 1]>>]]
             ELSE [workers EXCEPT ![w].sort = [s EXCEPT !.i = s.i + 1, !.j = s.i + 1]]
  /\ UNCHANGED <<metric, pc, data, bucketList, arrived, series>>

(* The two stores of a swap are steps of their own: no lock is held.       *)
Swap(w) ==
  /\ AtRow(w)
  /\ LET s == workers[w].sort
     IN  \/ /\ s.at = "low"
            /\ bucketList' = [bucketList EXCEPT ![s.j] = s.tmp[2]]
            /\ workers' = [workers EXCEPT ![w].sort.at = "high"]
         \/ /\ s.at = "high"
            /\ bucketList' = [bucketList EXCEPT ![s.j - 1] = s.tmp[1]]
            /\ workers' = [workers EXCEPT ![w].sort = [s EXCEPT !.at = "load", !.j = s.j - 1]]
  /\ UNCHANGED <<metric, pc, data, arrived, series>>

Receive(w) ==
  /\ pc = "work"
  /\ w \in DOMAIN workers
  /\ workers[w].pos = workers[w].stop
  /\ w \notin ToSet(arrived)
  /\ arrived' = Append(arrived, w)
  /\ UNCHANGED <<metric, pc, data, bucketList, workers, series>>

(* Sum, count and every bucket of a worker's series are added.             *)
AddSeries(x, y) ==
  [sum |-> x.sum + y.sum, cnt |-> x.cnt + y.cnt, buckets |-> [b \in Bounds |-> x.buckets[b] + y.buckets[b]]]

(* The maps are added to the one that arrived first, one after the other.  *)
Merged(maps) ==
  LET result[i \in 1..Len(maps)] ==
        IF i = 1 THEN maps[1] ELSE [olv \in Olvs |-> AddSeries(result[i - 1][olv], maps[i][olv])]
  IN  result[Len(maps)]

Merge ==
  /\ pc = "work"
  /\ Len(arrived) = Len(workers)
  /\ series' = Merged([i \in 1..Len(arrived) |-> workers[arrived[i]].map])
  /\ workers' = <<>>
  /\ arrived' = <<>>
  /\ pc' = "idle"
  /\ UNCHANGED <<metric, data, bucketList>>

Next ==
  \/ EvaluateNothing
  \/ \E rows \in metric.answers : StartWorkers(rows)
  \/ \E w \in DOMAIN workers :
       SkipRow(w) \/ CountRow(w) \/ CreateHistogramMetricValue(w) \/ Compare(w) \/ Swap(w) \/ Receive(w)
  \/ Merge

Spec == Init /\ [][Next]_vars

-----------------------------------------------------------------------------
(* The sum of the values of some rows of an answer.                        *)
SumOf(answer, rows) ==
  LET sum[n \in 0..Len(answer)] ==
        IF n = 0 THEN 0 ELSE sum[n - 1] + (IF n \in rows THEN answer[n].value ELSE 0)
  IN  sum[Len(answer)]

Values(olv) == {i \in DOMAIN data : Usable(data[i]) /\ data[i].olv = olv}

(* However many workers there are and in whatever order their maps arrive, *)
(* sum, count and buckets are those of all finite values of the records    *)
(* that meet the condition; the buckets are cumulative.                    *)
MergedIsSequential ==
  pc = "idle" =>
    \A olv \in Olvs :
      /\ series[olv].cnt = Cardinality(Values(olv))
      /\ series[olv].sum = SumOf(data, Values(olv))
      /\ metric.histogram => \A b \in Bounds :
           series[olv].buckets[b] = Cardinality({i \in Values(olv) : data[i].value <= b})

(* No bucket of the configuration gets lost: all values are distributed    *)
(* between the configured buckets.                                         *)
BucketsKept == pc = "idle" => Range(bucketList) = Bounds
=============================================================================
