------------------------------ MODULE MCLabels ------------------------------
(* Small instances of the labels of a metric for TLC: the labels that a    *)
(* configuration gives and the values of a series, or the combinations of  *)
(* the values of expected labels and multi-value fields.  The labels a, b  *)
(* and c have a field of their own, m and n come from multi-value fields.  *)
EXTENDS Labelling, FiniteSets, Functions

VARIABLE part     \* "combinations" or "metric"

(* Sequences of different elements of S.                                   *)
Lists(S) == {s \in UNION {[1..k -> S] : k \in 0..Cardinality(S)} : IsInjective(s)}

Items(S) == UNION {[T -> BOOLEAN] : T \in SUBSET S}

Configured(labels, mapped, multi, expected, operation) ==
  [labels |-> labels, mapped |-> mapped, multi |-> multi,
   expected |-> expected, operation |-> operation]

Complete(labels, mapped, multi) ==
  [l \in Range(labels) \cup mapped \cup Range(multi) |-> TRUE]

(* Multi-value labels of their own, next to at least one other label.      *)
MCMetrics ==
  {x \in {Configured(l, p, u, <<Complete(l, p, u), e>>, "count") :
            l \in Lists({"a", "b"}), p \in SUBSET {"b", "c"}, u \in Lists({"m", "n"}),
            e \in Items({"a", "b", "c", "m"}) \cup {[k \in {"a", "b", "c", "m", "n"} |-> TRUE]}} :
     x.multi # <<>> => x.labels # <<>> \/ x.mapped # {}}
  \cup {Configured(l, p, <<>>, <<>>, "other") : l \in Lists({"a", "b"}), p \in SUBSET {"b", "c"}}

combinationVars == <<sizes, indexes, wheel, pc, result>>
seriesVars == <<metric, state, metricLabels, toMap, toAdd, kept, values>>

NoLoop ==
  /\ sizes = [i \in Wheels |-> 1]
  /\ indexes = [i \in Wheels |-> 0]
  /\ wheel = 1
  /\ pc = "take"
  /\ result = <<>>

NoMetric ==
  /\ metric = <<>>
  /\ state = "mapped"
  /\ metricLabels = <<>>
  /\ toMap = {}
  /\ toAdd = <<>>
  /\ kept = TRUE
  /\ values = <<>>

MCInit ==
  \/ part = "combinations" /\ Init /\ NoMetric
  \/ part = "metric" /\ Series!Init /\ NoLoop

MCNext ==
  \/ part = "combinations" /\ Next /\ UNCHANGED <<part, seriesVars>>
  \/ part = "metric" /\ Series!Next /\ UNCHANGED <<part, combinationVars>>

MCSpec == MCInit /\ [][MCNext]_<<part, combinationVars, seriesVars>>
=============================================================================
