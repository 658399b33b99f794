-------------------------- MODULE CountEvaluation --------------------------
(***************************************************************************)
(* Evaluation of a metric with operation count.  For every answer of the   *)
(* query the rows are split between worker goroutines; each counts its     *)
(* rows by ordered label values (olv) into a map of its own and sends the  *)
(* map over an unbuffered channel; the evaluating goroutine adds the maps  *)
(* up in the order they arrive.  If the metric has an id field, the        *)
(* workers share its id-field cache: a record counts if its id was not     *)
(* seen before, for the metric or for the olv, depending on the strategy.  *)
(*                                                                         *)
(* A metric is a record of                                                 *)
(*   threads       its threads                                             *)
(*   idFieldIndex  the column of its id field, -1 if it has none           *)
(*   strategy      "metric" or "label"                                     *)
(*   rows          rows its query may answer with, records of the outcome  *)
(*                 of the conditions, the id, and the olvs                 *)
(*   maxRows       bound: rows of an answer                                *)
(***************************************************************************)
EXTENDS Partition, SequencesExt

CONSTANTS
  Ids,              \* values of the id field
  Olvs,             \* ordered label values
  IdFieldTTL,       \* id-field-ttl
  Metrics           \* metrics that are considered

MaxTTL == IF IdFieldTTL <= 0 THEN 60 ELSE IdFieldTTL

(* What the cache stores: an id (metric) or an id with an olv (label).     *)
Keys == (Ids \X Olvs) \cup {<<id>> : id \in Ids}

NoSeries == [olv \in Olvs |-> 0]

(* Bound of the ghosts: later than that no cache remembers a key.          *)
Forgotten == 2 * MaxTTL + 1

VARIABLES
  metric,        \* the metric that is evaluated
  pc,            \* evaluating goroutine: "idle" or "work"
  data,          \* rows of the answer in work
  age,           \* id-field cache: answers since the last shift
  cache,         \* id-field cache: keys seen since the last shift
  cacheOld,      \* id-field cache: keys seen in the period before
  workers,       \* worker goroutines: position, olv in work, end, counts
  arrived,       \* workers whose map was received
  series,        \* result: count by olv
  known,         \* ghost: keys in the cache when the answer came
  sinceSeen,     \* ghost: answers since a key was last seen
  sinceCounted   \* ghost: answers since a key was last counted

cacheVars == <<age, cache, cacheOld>>
ghostVars == <<known, sinceSeen, sinceCounted>>
vars == <<metric, pc, data, cacheVars, workers, arrived, series, ghostVars>>

(* An id field in the first column ages the cache (StartWorkers) but is    *)
(* not asked for: its metric counts every occurrence.                      *)
Strategy ==
  IF metric.idFieldIndex > 0
    THEN IF metric.strategy = "metric" THEN "metric" ELSE "label"
    ELSE "none"

EmptyCache ==
  /\ age = 0
  /\ cache = {}
  /\ cacheOld = {}
  /\ known = {}
  /\ sinceSeen = [k \in Keys |-> Forgotten]
  /\ sinceCounted = [k \in Keys |-> Forgotten]

Init ==
  /\ metric \in Metrics
  /\ pc = "idle"
  /\ data = <<>>
  /\ workers = <<>>
  /\ arrived = <<>>
  /\ series = NoSeries
  /\ EmptyCache

(* Mutant: the younger half is forgotten too.                              *)
IncAgeForgets ==
  IF age + 1 >= MaxTTL
    THEN age' = 0 /\ cacheOld' = {} /\ cache' = {}
    ELSE age' = age + 1 /\ UNCHANGED <<cache, cacheOld>>

(* Mutant: nothing is ever forgotten.                                      *)
IncAgeKeepsAll ==
  IF age + 1 >= MaxTTL
    THEN age' = 0 /\ cacheOld' = cacheOld \cup cache /\ cache' = {}
    ELSE age' = age + 1 /\ UNCHANGED <<cache, cacheOld>>

(* The cache forgets in two steps: what was seen since the last shift is   *)
(* kept for one more period.                                               *)
IncAge ==
  IF age + 1 >= MaxTTL
    THEN age' = 0 /\ cacheOld' = cache /\ cache' = {}
    ELSE age' = age + 1 /\ UNCHANGED <<cache, cacheOld>>

(* A key is put into the cache by the test whether it is used.             *)
IsUsed(key) == key \in cache \cup cacheOld

NewWorker(i, n, t) ==
  [pos |-> Start(i, n, t), stop |-> Stop(i, n, t), k |-> 0, counts |-> NoSeries]

Later(since) == [k \in Keys |-> IF since[k] < Forgotten THEN since[k] + 1 ELSE Forgotten]

(* An answer without rows: no series, and the cache does not age.          *)
EvaluateNothing ==
  /\ pc = "idle"
  /\ data' = <<>>
  /\ series' = NoSeries
  /\ UNCHANGED <<metric, pc, cacheVars, workers, arrived, ghostVars>>

StartWorkers(rows) ==
  /\ pc = "idle"
  /\ rows # <<>>
  /\ data' = rows
  /\ IF metric.idFieldIndex >= 0
       THEN IncAge /\ sinceSeen' = Later(sinceSeen) /\ sinceCounted' = Later(sinceCounted)
       ELSE UNCHANGED <<cacheVars, sinceSeen, sinceCounted>>
  /\ known' = cache' \cup cacheOld'
  /\ LET n == Len(rows)
         t == ThreadsNumber(metric.threads, n)
     IN  workers' = [w \in 1..t |-> NewWorker(w - 1, n, t)]
  /\ arrived' = <<>>
  /\ series' = NoSeries
  /\ pc' = "work"
  /\ UNCHANGED metric

Working(w) == pc = "work" /\ w \in DOMAIN workers /\ workers[w].pos < workers[w].stop

NextRow(w) == [workers EXCEPT ![w].pos = @ + 1, ![w].k = 0]

NextOlv(w, counts) ==
  LET worker == workers[w]
      more == worker.k < Len(data[worker.pos].olvs)
  IN  [workers EXCEPT ![w].counts = counts,
                      ![w].k = IF more THEN @ + 1 ELSE 0,
                      ![w].pos = IF more THEN @ ELSE @ + 1]

(* The id-field cache is asked for a key: one step under its lock.         *)
Ask(key) ==
  /\ cache' = cache \cup {key}
  /\ sinceSeen' = [sinceSeen EXCEPT ![key] = 0]
  /\ sinceCounted' = IF IsUsed(key) THEN sinceCounted ELSE [sinceCounted EXCEPT ![key] = 0]

(* No condition of the metric is true for the row.                         *)
SkipRow(w) ==
  /\ Working(w)
  /\ workers[w].k = 0
  /\ ~data[workers[w].pos].ok
  /\ workers' = NextRow(w)
  /\ UNCHANGED <<metric, pc, data, cacheVars, arrived, series, ghostVars>>

TakeRow(w) ==
  /\ Working(w)
  /\ workers[w].k = 0
  /\ data[workers[w].pos].ok
  /\ LET key == <<data[workers[w].pos].id>>
     IN  IF Strategy = "metric"
           THEN /\ Ask(key)
                /\ workers' = IF IsUsed(key) THEN NextRow(w) ELSE [workers EXCEPT ![w].k = 1]
           ELSE /\ workers' = [workers EXCEPT ![w].k = 1]
                /\ UNCHANGED <<cache, sinceSeen, sinceCounted>>
  /\ UNCHANGED <<metric, pc, data, age, cacheOld, arrived, series, known>>

(* One olv of a row; a row has several if it has multi-value fields.       *)
CountOlv(w) ==
  /\ Working(w)
  /\ workers[w].k # 0
  /\ LET row == data[workers[w].pos]
         olv == row.olvs[workers[w].k]
         key == <<row.id, olv>>
         counts == workers[w].counts
         plusOne == [counts EXCEPT ![olv] = @ + 1]
     IN  IF Strategy = "label"
           THEN /\ Ask(key)
                /\ workers' = NextOlv(w, IF IsUsed(key) THEN counts ELSE plusOne)
           ELSE /\ workers' = NextOlv(w, plusOne)
                /\ UNCHANGED <<cache, sinceSeen, sinceCounted>>
  /\ UNCHANGED <<metric, pc, data, age, cacheOld, arrived, series, known>>

(* The evaluating goroutine receives the map of a worker that is done.     *)
Receive(w) ==
  /\ pc = "work"
  /\ w \in DOMAIN workers
  /\ workers[w].pos = workers[w].stop
  /\ w \notin ToSet(arrived)
  /\ arrived' = Append(arrived, w)
  /\ UNCHANGED <<metric, pc, data, cacheVars, workers, series, ghostVars>>

AddCounts(a, b) == [olv \in Olvs |-> a[olv] + b[olv]]

(* The maps are added to the one that arrived first, one after the other.  *)
Merged(maps) ==
  LET sum[i \in 1..Len(maps)] == IF i = 1 THEN maps[1] ELSE AddCounts(sum[i - 1], maps[i])
  IN  sum[Len(maps)]

(* All maps are there.                                                     *)
Merge ==
  /\ pc = "work"
  /\ Len(arrived) = Len(workers)
  /\ series' = Merged([i \in 1..Len(arrived) |-> workers[arrived[i]].counts])
  /\ workers' = <<>>
  /\ arrived' = <<>>
  /\ pc' = "idle"
  /\ UNCHANGED <<metric, data, cacheVars, ghostVars>>

Next ==
  \/ EvaluateNothing
  \/ \E rows \in BoundedSeq(metric.rows, metric.maxRows) : StartWorkers(rows)
  \/ \E w \in DOMAIN workers : SkipRow(w) \/ TakeRow(w) \/ CountOlv(w) \/ Receive(w)
  \/ Merge

Spec == Init /\ [][Next]_vars

-----------------------------------------------------------------------------
Matching == {i \in DOMAIN data : data[i].ok}

(* The places of the olvs of some rows, and how often an olv occurs there. *)
Places(rows) == UNION {{i} \X DOMAIN data[i].olvs : i \in rows}
OlvAt(place) == data[place[1]].olvs[place[2]]
Occurrences(rows, olv) == Cardinality({place \in Places(rows) : OlvAt(place) = olv})

(* What one goroutine that works through all rows alone may find.          *)
Reference(result) ==
  LET fresh == {id \in {data[i].id : i \in Matching} : <<id>> \notin known}
  IN  CASE Strategy = "none" ->
             \A olv \in Olvs : result[olv] = Occurrences(Matching, olv)
        [] Strategy = "label" ->
             \A olv \in Olvs : result[olv] =
               Cardinality({id \in Ids : /\ <<id, olv>> \notin known
                                         /\ \E i \in Matching : data[i].id = id /\ olv \in ToSet(data[i].olvs)})
        [] Strategy = "metric" ->
             \E pick \in [fresh -> Matching] :
               /\ \A id \in fresh : data[pick[id]].id = id
               /\ \A olv \in Olvs : result[olv] = Occurrences({pick[id] : id \in fresh}, olv)

(* However the workers interleave and in whatever order their maps arrive, *)
(* the metric gets what a single goroutine would find: without an id field *)
(* every occurrence, with one every fresh key once (evaluatecount.go).     *)
(* Nothing is claimed of an id field in the first column of an answer,     *)
(* whose ids the code does not make unique.                                *)
MergedIsSequential == pc = "idle" /\ metric.idFieldIndex # 0 => Reference(series)

(* Two counts of one key are more than id-field-ttl evaluated answers      *)
(* apart, and so never in one answer, whichever workers meet it: the TTL   *)
(* is the minimum number of requests for which an id is kept.              *)
OnceWithinTTL ==
  [][\A key \in Keys :
       sinceCounted'[key] = 0 /\ sinceCounted[key] # 0 => sinceCounted[key] > MaxTTL]_vars

(* A key that was not seen for twice the TTL counts as new: the cache does *)
(* not grow without bound, and an id that is used again is counted again.  *)
FreshIsCounted ==
  [][\A key \in Keys :
       sinceSeen'[key] = 0 /\ sinceSeen[key] >= 2 * MaxTTL => sinceCounted'[key] = 0]_vars
=============================================================================
