---------------------------- MODULE Combinations ----------------------------
(***************************************************************************)
(* All combinations of values of several labels.  One loop makes them for  *)
(* the expected labels of a metric and one for the multi-value fields of a *)
(* record: it takes one value of every label by the current indexes, then  *)
(* increments the indexes like an odometer whose first wheel turns         *)
(* fastest.  A combination is the sequence of its indexes.                 *)
(***************************************************************************)
EXTENDS Integers, Sequences

CONSTANTS
  Labels,   \* number of labels, or of multi-value fields
  MaxSize   \* bound: values of a label

ASSUME LabelsAssumption == Labels \in Nat \ {0}
ASSUME MaxSizeAssumption == MaxSize \in Nat \ {0}

Wheels == 1..Labels

VARIABLES
  sizes,    \* number of values of each label
  indexes,  \* current indexes, counted from 0
  wheel,    \* wheel that is turned
  pc,       \* "take", "turn" or "done"
  result    \* combinations so far

vars == <<sizes, indexes, wheel, pc, result>>

Init ==
  /\ sizes \in [Wheels -> 1..MaxSize]
  /\ indexes = [i \in Wheels |-> 0]
  /\ wheel = 1
  /\ pc = "take"
  /\ result = <<>>

FirstWheel == 1

(* A value of every label: an index out of its range would panic here.     *)
TakeCombination ==
  /\ pc = "take"
  /\ result' = Append(result, indexes)
  /\ wheel' = FirstWheel
  /\ pc' = "turn"
  /\ UNCHANGED <<sizes, indexes>>

Turned == [indexes EXCEPT ![wheel] = @ + 1]

(* The wheel has a next value.                                             *)
TurnWheel ==
  /\ pc = "turn"
  /\ indexes[wheel] + 1 < sizes[wheel]
  /\ indexes' = Turned
  /\ pc' = "take"
  /\ UNCHANGED <<sizes, wheel, result>>

(* Mutant: the loop stops one wheel too early.                             *)
LastWheelEarly == wheel >= Labels - 1

LastWheel == wheel = Labels

(* Mutant: the wheel that turned over is not reset.                        *)
NotReset == Turned

Reset == [indexes EXCEPT ![wheel] = 0]

NextWheel == wheel + 1

(* The wheel is through and starts again: the next one turns.              *)
Carry ==
  /\ pc = "turn"
  /\ indexes[wheel] + 1 >= sizes[wheel]
  /\ ~LastWheel
  /\ indexes' = Reset
  /\ wheel' = NextWheel
  /\ UNCHANGED <<sizes, pc, result>>

(* The last wheel is through.                                              *)
Stop ==
  /\ pc = "turn"
  /\ indexes[wheel] + 1 >= sizes[wheel]
  /\ LastWheel
  /\ indexes' = Turned
  /\ pc' = "done"
  /\ UNCHANGED <<sizes, wheel, result>>

Next == TakeCombination \/ TurnWheel \/ Carry \/ Stop

Spec == Init /\ [][Next]_vars /\ WF_vars(Next)

-----------------------------------------------------------------------------
(* Every combination that is made takes values the labels have: the loop   *)
(* never reads behind the end of a list (LabelsCartesian and               *)
(* generateOrderedLabelValuesStringList index without a test).             *)
IndexesInRange == pc # "done" => \A i \in Wheels : indexes[i] < sizes[i]

Combinations == {c \in [Wheels -> 0..(MaxSize - 1)] : \A i \in Wheels : c[i] < sizes[i]}

(* In the end every combination was made, and none was made twice: a label *)
(* set left out would never be initialized, one made twice would count     *)
(* twice.                                                                  *)
EveryCombinationOnce ==
  pc = "done" =>
    /\ {result[k] : k \in 1..Len(result)} = Combinations
    /\ \A k, l \in 1..Len(result) : result[k] = result[l] => k = l
=============================================================================
