---------------------------- MODULE Evaluations ----------------------------
(***************************************************************************)
(* The evaluations that a query's goroutine makes.  Those with a memory of *)
(* earlier answers: of duration metrics (DurationEvaluation), whose caches *)
(* hold calls, and of count metrics (CountEvaluation, here Count), whose   *)
(* cache holds ids; and those of value metrics (ValueEvaluation, here      *)
(* Value).  Count and value metrics split an answer between goroutines of  *)
(* the same shape and share the variables of these.                        *)
(***************************************************************************)
EXTENDS DurationEvaluation

CONSTANTS
  Ids, Olvs, IdFieldTTL, CountMetrics,   \* of CountEvaluation
  ValueMetrics                           \* of ValueEvaluation

(* A record has a place in at least one series: a multi-value field has at *)
(* least one value (strings.Split, evaluatecount.go:277).                  *)
ASSUME CountMetricsAssumption ==
  \A m \in CountMetrics :
    /\ m.threads \in Int /\ m.maxRows \in Nat
    /\ m.rows \subseteq [ok : BOOLEAN, id : Ids, olvs : Seq(Olvs) \ {<<>>}]

ASSUME ValueMetricsAssumption ==
  \A m \in ValueMetrics :
    /\ m.threads \in Int
    /\ m.buckets \in Seq(Int)
    /\ \A rows \in m.answers :
         rows \in Seq([ok : BOOLEAN, olv : Olvs, finite : BOOLEAN, value : Int])

VARIABLES
  operation,                                           \* of the metric in evaluation
  metric, pc, data, workers, arrived, series,          \* the evaluation
  age, cache, cacheOld, known, sinceSeen, sinceCounted,  \* the id-field cache
  bucketList                                           \* the buckets of a value metric

Count == INSTANCE CountEvaluation WITH Metrics <- CountMetrics
Value == INSTANCE ValueEvaluation WITH Metrics <- ValueMetrics

(* An id counts once per label values (or per metric) and id-field-ttl,    *)
(* whichever worker asks the shared cache first (idfieldcache.go).         *)
OnceWithinTTL == Count!OnceWithinTTL

(* An id that was not met for twice the TTL counts again: the cache        *)
(* forgets in its two shifts (idfieldcache.go).                            *)
FreshIsCounted == Count!FreshIsCounted

(* The workers of a count metric find together what one goroutine would    *)
(* find, in every interleaving and order of their maps (evaluatecount.go); *)
(* a metric whose id field is in the first column is left out.             *)
CountMerged == operation = "count" => Count!MergedIsSequential

(* Sum, count and buckets of the workers' maps are those of all finite     *)
(* values of the answer (evaluatevalue.go).                                *)
ValueMerged == operation = "value" => Value!MergedIsSequential
=============================================================================
