---------------------------- MODULE MCEvaluation ----------------------------
(* A small instance of the evaluation of one query, for TLC: of a metric   *)
(* with operation count or value, whose goroutines are of the same shape,  *)
(* or of the duration metrics of a query (DurationEvaluation).             *)
EXTENDS Evaluations

CONSTANTS
  Operations,       \* operations of the metrics that are considered
  Racing,           \* the buckets of the value metric are configured out of order
  i1, i2, a, b      \* ids and ordered label values

MCIds == {i1, i2}
MCOlvs == {a, b}

Row(id, olvs) == [ok |-> TRUE, id |-> id, olvs |-> olvs]
Skipped(id, olvs) == [ok |-> FALSE, id |-> id, olvs |-> olvs]

(* Records of two ids, and one that meets no condition.                    *)
PlainRows == {Row(i1, <<a>>), Row(i1, <<b>>), Row(i2, <<a>>), Skipped(i2, <<a>>)}

(* Records whose multi-value field holds several values, also one twice.   *)
MultiRows == {Row(i1, <<a, b>>), Row(i1, <<b>>), Row(i2, <<a, a>>), Skipped(i2, <<a>>)}

CountMetric(threads, idFieldIndex, strategy, rows, maxRows) ==
  [threads |-> threads, idFieldIndex |-> idFieldIndex, strategy |-> strategy, rows |-> rows, maxRows |-> maxRows]

(* A unique counter of each strategy, and a counter of every record.       *)
MCCountMetrics ==
  {CountMetric(2, 1, "label", PlainRows, 2), CountMetric(2, 1, "metric", MultiRows, 3),
   CountMetric(3, -1, "label", MultiRows, 4)}

Number(olv, value) == [ok |-> TRUE, olv |-> olv, finite |-> TRUE, value |-> value]
Text(olv) == [ok |-> TRUE, olv |-> olv, finite |-> FALSE, value |-> 0]
Refused(olv) == [ok |-> FALSE, olv |-> olv, finite |-> TRUE, value |-> 1]

(* Values on, below and above the bounds; one row that is no number, one   *)
(* that meets no condition.                                                *)
ValueRows == {Number(a, 1), Number(a, 2), Number(b, 3), Text(b), Refused(a)}
ShortAnswers == UNION {[1..n -> ValueRows] : n \in 1..3}
LongAnswers ==
  {<<Number(a, 1), Number(a, 2), Number(b, 3), Number(a, 1)>>, <<Number(b, 3), Text(b), Number(a, 2), Number(a, 2)>>}

ValueMetric(threads, histogram, buckets, answers) ==
  [threads |-> threads, histogram |-> histogram, buckets |-> buckets, answers |-> answers]

(* Buckets out of order are sorted by one worker, or by two at a time.     *)
MCValueMetrics ==
  IF Racing
    THEN {ValueMetric(2, TRUE, <<3, 1, 2>>, LongAnswers)}
    ELSE {ValueMetric(1, TRUE, <<3, 1, 2>>, ShortAnswers), ValueMetric(3, TRUE, <<1, 2>>, LongAnswers),
          ValueMetric(2, FALSE, <<>>, LongAnswers)}

evaluationVars == <<metric, pc, data, workers, arrived, series>>
idCacheVars == <<age, cache, cacheOld, known, sinceSeen, sinceCounted>>
callVars == vars
MCvars == <<operation, evaluationVars, idCacheVars, bucketList, callVars>>

NoEvaluation ==
  /\ metric = <<>>
  /\ pc = "idle"
  /\ data = <<>>
  /\ workers = <<>>
  /\ arrived = <<>>
  /\ series = <<>>

MCInit ==
  /\ operation \in Operations
  /\ Init
  /\ CASE operation = "count" -> Count!Init /\ bucketList = <<>>
       [] operation = "value" -> Value!Init /\ Count!EmptyCache
       [] operation = "duration" -> NoEvaluation /\ Count!EmptyCache /\ bucketList = <<>>

MCNext ==
  \/ operation = "count" /\ Count!Next /\ UNCHANGED <<operation, bucketList, callVars>>
  \/ operation = "value" /\ Value!Next /\ UNCHANGED <<operation, idCacheVars, callVars>>
  \/ operation = "duration" /\ Next /\ UNCHANGED <<operation, evaluationVars, idCacheVars, bucketList>>

MCSpec == MCInit /\ [][MCNext]_MCvars

(* No bucket of the configuration gets lost: all values are distributed    *)
(* between the configured buckets (user-guide.md, operation value).        *)
BucketsKept == operation = "value" => Value!BucketsKept
=============================================================================
