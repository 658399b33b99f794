----------------------------- MODULE Labelling ------------------------------
(***************************************************************************)
(* The labels of a metric from both sides: the combinations of label       *)
(* values that a start goes through (Combinations), and the labels that    *)
(* the values of a series are given to (MetricLabels).                     *)
(***************************************************************************)
EXTENDS Combinations

CONSTANT Metrics     \* of MetricLabels

VARIABLES metric, state, metricLabels, toMap, toAdd, kept, values

Series == INSTANCE MetricLabels WITH pc <- state, Labels <- metricLabels

(* Every label of a series has the value of its own field, whatever order  *)
(* the label-field-map was read in (generateLabelValueMapFromOLV).         *)
ValueAtItsLabel == Series!ValueAtItsLabel

(* The series made for the expected labels bear the labels of the series   *)
(* of records (checkExpectedLabelsFields, generateLabelValueMapFromOLV).   *)
ExpectedIsRecorded == Series!ExpectedIsRecorded
=============================================================================
