---------------------------- MODULE MetricLabels ----------------------------
(***************************************************************************)
(* The labels of a metric, from the configuration to a series.  A start    *)
(* puts them together from three parts of the metric: its labels, the keys *)
(* of its label-field-map in any order, and the labels of its multi-value  *)
(* fields.  It drops the expected labels that do not fit them.  When a     *)
(* record is evaluated, one value for every label is joined to a string,   *)
(* which is split again and given to the labels in their order.            *)
(*                                                                         *)
(* A metric is a record of                                                 *)
(*   labels     the labels of the configuration, a sequence                *)
(*   mapped     the labels of its label-field-map, a set                   *)
(*   multi      the labels of its multi-value fields, a sequence           *)
(*   expected   its expected labels: a sequence of functions that say of a *)
(*              label whether it has values                                *)
(*   operation  "count", or another one                                    *)
(***************************************************************************)
EXTENDS Integers, Sequences, FiniteSets, Functions

CONSTANT Metrics     \* metrics that are configured

VARIABLES
  metric,
  pc,
  Labels,     \* metric.Labels
  toMap,      \* keys of the label-field-map not seen yet
  toAdd,      \* multi-value fields not seen yet
  kept,       \* the expected labels are kept
  values      \* the value each label of a series gets

vars == <<metric, pc, Labels, toMap, toAdd, kept, values>>

NoValues == [l \in {} |-> <<>>]

Init ==
  /\ metric \in Metrics
  /\ pc = "mapped"
  /\ Labels = metric.labels
  /\ toMap = metric.mapped
  /\ toAdd = metric.multi
  /\ kept = TRUE
  /\ values = NoValues

AppendedOnce(l) == IF l \in Range(Labels) THEN Labels ELSE Append(Labels, l)

(* The keys of the label-field-map come in the order of a Go map.          *)
AddMapped ==
  /\ pc = "mapped"
  /\ toMap # {}
  /\ \E l \in toMap :
       /\ Labels' = AppendedOnce(l)
       /\ toMap' = toMap \ {l}
  /\ UNCHANGED <<metric, pc, toAdd, kept, values>>

(* Mutant: multi-value labels do not wait for the mapped ones.             *)
MultiAnytime == TRUE

AllMapped == toMap = {}

AddMulti ==
  /\ pc = "mapped"
  /\ AllMapped
  /\ toAdd # <<>>
  /\ Labels' = AppendedOnce(Head(toAdd))
  /\ toAdd' = Tail(toAdd)
  /\ UNCHANGED <<metric, pc, toMap, kept, values>>

(* Mutant: labels the metric has not are let through.                      *)
FitsWithoutCount(item) ==
  \A l \in Range(Labels) : l \in DOMAIN item /\ item[l]

(* checkExpectedLabelsFields                                               *)
Fits(item) ==
  /\ Cardinality(DOMAIN item) = Len(Labels)
  /\ \A l \in Range(Labels) : l \in DOMAIN item /\ item[l]

CheckExpected ==
  /\ pc = "mapped"
  /\ toMap = {} /\ toAdd = <<>>
  /\ kept' = \A item \in Range(metric.expected) : Fits(item)
  /\ pc' = IF Labels = <<>> THEN "done" ELSE "evaluate"
  /\ UNCHANGED <<metric, Labels, toMap, toAdd, values>>

-----------------------------------------------------------------------------
FieldValue(l) == <<"field", l>>

MultiValue(l) == <<"multi value", l>>

Blank == <<"blank", "">>

(* The labels that are read from a field of their own: the code takes the  *)
(* labels of the multi-value fields to be the last ones.                   *)
FieldLabels == Len(Labels) - Len(metric.multi)

(* Nothing joined is the empty string, which splits into one empty value.  *)
FieldPart ==
  IF FieldLabels = 0 THEN <<Blank>>
  ELSE [i \in 1..FieldLabels |-> FieldValue(Labels[i])]

MultiPart ==
  IF metric.operation # "count" THEN <<>>
  ELSE [i \in 1..Len(metric.multi) |-> MultiValue(metric.multi[i])]

(* The values of one record (generateOrderedLabelValuesString and -List).  *)
Joined == FieldPart \o MultiPart

Evaluate ==
  /\ pc = "evaluate"
  /\ IF FieldLabels < 0 \/ Len(Joined) < Len(Labels)
     THEN pc' = "panic" /\ UNCHANGED values
     ELSE /\ pc' = "done"
          /\ values' = [l \in Range(Labels) |->
               Joined[CHOOSE i \in DOMAIN Labels :
                        Labels[i] = l /\ \A j \in DOMAIN Labels : Labels[j] = l => j <= i]]
  /\ UNCHANGED <<metric, Labels, toMap, toAdd, kept>>

Next == AddMapped \/ AddMulti \/ CheckExpected \/ Evaluate

Spec == Init /\ [][Next]_vars

-----------------------------------------------------------------------------
Source(l) == IF l \in Range(metric.multi) THEN MultiValue(l) ELSE FieldValue(l)

(* Every label of a series has the value of its own field, whatever order  *)
(* the map of labels was read in: the positions that the configuration     *)
(* gives the labels and those that the evaluator fills are two             *)
(* computations that never meet (processHiddenFields,                      *)
(* generateLabelValueMapFromOLV).                                          *)
ValueAtItsLabel ==
  /\ pc # "panic"
  /\ pc = "done" => \A l \in Range(Labels) : values[l] = Source(l)

(* The series that are made for the expected labels are series that        *)
(* records can have: they bear the same labels, and each of them has a     *)
(* value.  A collector and the state of a metric know a series by all its  *)
(* labels, so that one with other labels would stand beside that of the    *)
(* records for good, and never be updated (checkExpectedLabelsFields when  *)
(* the configuration is read, generateLabelValueMapFromOLV for a record).  *)
ExpectedIsRecorded ==
  pc = "done" /\ kept =>
    \A item \in Range(metric.expected) :
      DOMAIN item = DOMAIN values /\ \A l \in DOMAIN values : item[l]
=============================================================================
