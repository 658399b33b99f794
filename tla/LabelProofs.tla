---------------------------- MODULE LabelProofs -----------------------------
(***************************************************************************)
(* The loop of module Combinations makes every combination exactly once,   *)
(* for any number of labels with any number of values.                     *)
(*                                                                         *)
(* The combinations are ordered by the last index in which two differ; the *)
(* indexes grow in this order.  While the wheel is turned, everything      *)
(* that is not behind the indexes from this wheel on has been made.        *)
(*                                                                         *)
(* And the labels of module MetricLabels get their own values, for any     *)
(* metric, in whatever order its label-field-map is gone through.          *)
(***************************************************************************)
EXTENDS Labelling, Functions, SequenceTheorems, FiniteSetTheorems, TLAPS

(* c comes before d.                                                       *)
Less(c, d) ==
  \E i \in Wheels : c[i] < d[i] /\ \A j \in Wheels : j > i => c[j] = d[j]

(* The same from wheel w on, or the two agree from there on.               *)
NotBehind(w, c, d) ==
  \/ \E i \in Wheels : i >= w /\ c[i] < d[i] /\ \A j \in Wheels : j > i => c[j] = d[j]
  \/ \A j \in Wheels : j >= w => c[j] = d[j]

Made == {result[k] : k \in 1..Len(result)}

Types ==
  /\ sizes \in [Wheels -> 1..MaxSize]
  /\ indexes \in [Wheels -> Nat]
  /\ wheel \in Wheels
  /\ pc \in {"take", "turn", "done"}
  /\ result \in Seq([Wheels -> Nat])

(* Wheels before the one that is turned have started again.                *)
Zeros == pc = "turn" => \A i \in Wheels : i < wheel => indexes[i] = 0

(* What was made is what comes before the indexes, or is not behind them.  *)
Progress ==
  /\ Made \subseteq Combinations
  /\ pc = "take" => \A c \in Combinations : c \in Made <=> Less(c, indexes)
  /\ pc = "turn" => \A c \in Combinations : c \in Made <=> NotBehind(wheel, c, indexes)
  /\ pc = "done" => \A c \in Combinations : c \in Made

NoneTwice == \A k, l \in 1..Len(result) : result[k] = result[l] => k = l

Inv == Types /\ IndexesInRange /\ Zeros /\ Progress /\ NoneTwice

-----------------------------------------------------------------------------
LEMMA WheelsFact ==
  /\ Wheels \subseteq Nat
  /\ 1 \in Wheels
  /\ Labels \in Wheels
  /\ \A i \in Wheels : 1 <= i /\ i <= Labels
  /\ \A i \in Wheels : i # Labels => i + 1 \in Wheels
BY LabelsAssumption DEF Wheels

(* A combination is a function of natural numbers within the sizes.        *)
LEMMA CombinationFact ==
  ASSUME Types, NEW c \in Combinations
  PROVE  /\ c \in [Wheels -> Nat]
         /\ \A i \in Wheels : c[i] \in Nat /\ c[i] < sizes[i] /\ sizes[i] \in Nat
<1>1. c \in [Wheels -> 0..(MaxSize - 1)] /\ \A i \in Wheels : c[i] < sizes[i]
  BY DEF Combinations
<1>2. c \in [Wheels -> Nat]
  BY <1>1, MaxSizeAssumption
<1> QED
  BY <1>1, <1>2, MaxSizeAssumption DEF Types

(* The indexes are a combination as long as they are in their range.       *)
LEMMA IndexesAreCombination ==
  ASSUME Types, \A i \in Wheels : indexes[i] < sizes[i]
  PROVE  indexes \in Combinations
<1>1. \A i \in Wheels : indexes[i] \in 0..(MaxSize - 1)
  BY MaxSizeAssumption DEF Types
<1>2. indexes \in [Wheels -> 0..(MaxSize - 1)]
  BY <1>1 DEF Types
<1> QED
  BY <1>2 DEF Combinations

(* Nothing comes before itself.                                            *)
LEMMA LessIrreflexive ==
  ASSUME NEW c \in [Wheels -> Nat]
  PROVE  ~Less(c, c)
BY DEF Less

(* Before the first wheel there is nothing: not behind from wheel 1 on is  *)
(* before, or the same.                                                    *)
LEMMA NotBehindFirst ==
  ASSUME NEW c \in [Wheels -> Nat], NEW d \in [Wheels -> Nat]
  PROVE  NotBehind(1, c, d) <=> Less(c, d) \/ c = d
<1>1. (\A j \in Wheels : j >= 1 => c[j] = d[j]) <=> c = d
  <2>1. \A j \in Wheels : j >= 1
    BY WheelsFact
  <2>2. ASSUME \A j \in Wheels : c[j] = d[j] PROVE c = d
    BY <2>2
  <2> QED
    BY <2>1, <2>2
<1>2. (\E i \in Wheels : i >= 1 /\ c[i] < d[i] /\ \A j \in Wheels : j > i => c[j] = d[j]) <=> Less(c, d)
  BY WheelsFact DEF Less
<1> QED
  BY <1>1, <1>2 DEF NotBehind

-----------------------------------------------------------------------------
LEMMA InitInv == Init => Inv
<1> SUFFICES ASSUME Init PROVE Inv
  OBVIOUS
<1>1. Types
  BY WheelsFact DEF Init, Types
<1>2. IndexesInRange
  BY MaxSizeAssumption DEF Init, IndexesInRange
<1>3. Zeros
  BY DEF Init, Zeros
<1>4. Made = {} /\ NoneTwice
  BY DEF Init, Made, NoneTwice
<1>5. \A c \in Combinations : ~Less(c, indexes)
  <2> TAKE c \in Combinations
  <2>1. \A i \in Wheels : c[i] \in Nat /\ indexes[i] = 0
    BY <1>1, CombinationFact DEF Init
  <2> QED
    BY <2>1 DEF Less
<1>6. Progress
  BY <1>4, <1>5 DEF Progress, Init
<1> QED
  BY <1>1, <1>2, <1>3, <1>4, <1>6 DEF Inv

LEMMA TakeInv == Inv /\ TakeCombination => Inv'
<1> SUFFICES ASSUME Inv, TakeCombination PROVE Inv'
  OBVIOUS
<1>0. Types /\ \A i \in Wheels : indexes[i] < sizes[i]
  BY DEF Inv, IndexesInRange, TakeCombination
<1>1. Types'
  BY <1>0, WheelsFact DEF Types, TakeCombination, FirstWheel
<1>2. IndexesInRange'
  BY <1>0 DEF IndexesInRange, TakeCombination
<1>3. Zeros'
  BY WheelsFact DEF Zeros, TakeCombination, FirstWheel
<1>4. indexes \in Combinations /\ Combinations' = Combinations
  BY <1>0, IndexesAreCombination DEF TakeCombination, Combinations
<1>5. indexes \notin Made
  <2>1. ~Less(indexes, indexes)
    BY <1>0, LessIrreflexive DEF Types
  <2> QED
    BY <2>1, <1>4 DEF Inv, Progress, TakeCombination
<1>6. /\ Len(result') = Len(result) + 1
      /\ result'[Len(result) + 1] = indexes
      /\ \A k \in 1..Len(result) : result'[k] = result[k]
      /\ Len(result) \in Nat
  BY <1>0 DEF TakeCombination, Types
<1>7. Made' = Made \cup {indexes}
  BY <1>6 DEF Made
<1>8. NoneTwice'
  BY <1>5, <1>6 DEF Inv, NoneTwice, Made
<1>9. Progress'
  <2>1. wheel' = 1 /\ indexes' = indexes /\ pc' = "turn" /\ pc = "take"
    BY DEF TakeCombination, FirstWheel
  <2>2. ASSUME NEW c \in Combinations
        PROVE  c \in Made' <=> NotBehind(1, c, indexes)
    BY <1>0, <1>7, <2>1, CombinationFact, NotBehindFirst DEF Inv, Progress, Types
  <2> QED
    BY <1>4, <1>7, <2>1, <2>2 DEF Progress, Inv
<1> QED
  BY <1>1, <1>2, <1>3, <1>8, <1>9 DEF Inv

LEMMA TurnInv == Inv /\ TurnWheel => Inv'
<1> SUFFICES ASSUME Inv, TurnWheel PROVE Inv'
  OBVIOUS
<1>0. Types /\ \A i \in Wheels : indexes[i] < sizes[i]
  BY DEF Inv, IndexesInRange, TurnWheel
<1>a. /\ indexes' \in [Wheels -> Nat]
      /\ indexes'[wheel] = indexes[wheel] + 1
      /\ \A i \in Wheels : i # wheel => indexes'[i] = indexes[i]
  BY <1>0 DEF Types, TurnWheel, Turned
<1>1. Types'
  BY <1>0, <1>a DEF Types, TurnWheel
<1>2. IndexesInRange'
  BY <1>0, <1>a DEF IndexesInRange, TurnWheel, Types
<1>3. Zeros' /\ NoneTwice' /\ Made' = Made /\ Combinations' = Combinations
  BY DEF Zeros, TurnWheel, Inv, NoneTwice, Made, Combinations
<1>4. ASSUME NEW c \in Combinations
      PROVE  NotBehind(wheel, c, indexes) <=> Less(c, indexes')
  <2>1. /\ c \in [Wheels -> Nat]
        /\ \A i \in Wheels : indexes[i] \in Nat
        /\ wheel \in Wheels
        /\ \A i \in Wheels : i < wheel => indexes[i] = 0
    BY <1>0, CombinationFact DEF Types, Inv, Zeros, TurnWheel
  <2>2. ASSUME NotBehind(wheel, c, indexes) PROVE Less(c, indexes')
    <3>1. CASE \E i \in Wheels : i >= wheel /\ c[i] < indexes[i] /\ \A j \in Wheels : j > i => c[j] = indexes[j]
      <4>1. PICK i \in Wheels : i >= wheel /\ c[i] < indexes[i] /\ \A j \in Wheels : j > i => c[j] = indexes[j]
        BY <3>1
      <4>2. c[i] < indexes'[i] /\ \A j \in Wheels : j > i => c[j] = indexes'[j]
        BY <4>1, <2>1, <1>a, WheelsFact
      <4> QED
        BY <4>2 DEF Less
    <3>2. CASE \A j \in Wheels : j >= wheel => c[j] = indexes[j]
      <4>1. c[wheel] < indexes'[wheel] /\ \A j \in Wheels : j > wheel => c[j] = indexes'[j]
        BY <3>2, <2>1, <1>a, WheelsFact
      <4> QED
        BY <4>1, <2>1 DEF Less
    <3> QED
      BY <2>2, <3>1, <3>2 DEF NotBehind
  <2>3. ASSUME Less(c, indexes') PROVE NotBehind(wheel, c, indexes)
    <3>1. PICK i \in Wheels : c[i] < indexes'[i] /\ \A j \in Wheels : j > i => c[j] = indexes'[j]
      BY <2>3 DEF Less
    <3>2. i >= wheel
      BY <3>1, <2>1, <1>a, WheelsFact
    <3>3. \A j \in Wheels : j > i => c[j] = indexes[j]
      BY <3>1, <3>2, <1>a, <2>1, WheelsFact
    <3>4. CASE i = wheel
      <4>1. c[wheel] < indexes[wheel] \/ c[wheel] = indexes[wheel]
        BY <3>1, <3>4, <2>1, <1>a
      <4> QED
        BY <4>1, <3>3, <3>4, <2>1, WheelsFact DEF NotBehind
    <3>5. CASE i # wheel
      BY <3>1, <3>2, <3>3, <3>5, <1>a DEF NotBehind
    <3> QED
      BY <3>4, <3>5
  <2> QED
    BY <2>2, <2>3
<1>5. Progress'
  BY <1>3, <1>4 DEF Progress, Inv, TurnWheel
<1> QED
  BY <1>1, <1>2, <1>3, <1>5 DEF Inv

LEMMA CarryInv == Inv /\ Carry => Inv'
<1> SUFFICES ASSUME Inv, Carry PROVE Inv'
  OBVIOUS
<1>0. Types /\ \A i \in Wheels : indexes[i] < sizes[i]
  BY DEF Inv, IndexesInRange, Carry
<1>a. /\ indexes' \in [Wheels -> Nat]
      /\ indexes'[wheel] = 0
      /\ \A i \in Wheels : i # wheel => indexes'[i] = indexes[i]
      /\ wheel' = wheel + 1
      /\ wheel' \in Wheels
  BY <1>0, WheelsFact DEF Types, Carry, Reset, NextWheel, LastWheel
<1>1. Types'
  BY <1>0, <1>a DEF Types, Carry
<1>2. IndexesInRange'
  BY <1>0, <1>a, MaxSizeAssumption DEF IndexesInRange, Carry, Types
<1>3. NoneTwice' /\ Made' = Made /\ Combinations' = Combinations
  BY DEF Carry, Inv, NoneTwice, Made, Combinations
<1>4. Zeros'
  <2>1. pc = "turn" /\ \A i \in Wheels : i < wheel => indexes[i] = 0
    BY DEF Zeros, Inv, Carry
  <2>2. ASSUME NEW i \in Wheels, i < wheel + 1 PROVE indexes'[i] = 0
    <3>1. i = wheel \/ i < wheel
      BY <1>0, <2>2, WheelsFact DEF Types
    <3> QED
      BY <3>1, <2>1, <1>a
  <2> QED
    BY <2>2, <1>a DEF Zeros
<1>5. ASSUME NEW c \in Combinations
      PROVE  NotBehind(wheel, c, indexes) <=> NotBehind(wheel', c, indexes')
  <2>1. /\ c \in [Wheels -> Nat]
        /\ \A i \in Wheels : indexes[i] \in Nat
        /\ wheel \in Wheels
        /\ c[wheel] <= indexes[wheel]
    BY <1>0, CombinationFact DEF Types, Carry
  <2>2. ASSUME NotBehind(wheel, c, indexes) PROVE NotBehind(wheel', c, indexes')
    <3>1. CASE \E i \in Wheels : i >= wheel /\ c[i] < indexes[i] /\ \A j \in Wheels : j > i => c[j] = indexes[j]
      <4>1. PICK i \in Wheels : i >= wheel /\ c[i] < indexes[i] /\ \A j \in Wheels : j > i => c[j] = indexes[j]
        BY <3>1
      <4>2. CASE i = wheel
        <5>1. \A j \in Wheels : j >= wheel' => c[j] = indexes'[j]
          BY <4>1, <4>2, <1>a, <2>1, WheelsFact
        <5> QED
          BY <5>1 DEF NotBehind
      <4>3. CASE i # wheel
        <5>1. i >= wheel' /\ c[i] < indexes'[i] /\ \A j \in Wheels : j > i => c[j] = indexes'[j]
          BY <4>1, <4>3, <1>a, <2>1, WheelsFact
        <5> QED
          BY <5>1 DEF NotBehind
      <4> QED
        BY <4>2, <4>3
    <3>2. CASE \A j \in Wheels : j >= wheel => c[j] = indexes[j]
      <4>1. \A j \in Wheels : j >= wheel' => c[j] = indexes'[j]
        BY <3>2, <1>a, <2>1, WheelsFact
      <4> QED
        BY <4>1 DEF NotBehind
    <3> QED
      BY <2>2, <3>1, <3>2 DEF NotBehind
  <2>3. ASSUME NotBehind(wheel', c, indexes') PROVE NotBehind(wheel, c, indexes)
    <3>1. CASE \E i \in Wheels : i >= wheel' /\ c[i] < indexes'[i] /\ \A j \in Wheels : j > i => c[j] = indexes'[j]
      <4>1. PICK i \in Wheels : i >= wheel' /\ c[i] < indexes'[i] /\ \A j \in Wheels : j > i => c[j] = indexes'[j]
        BY <3>1
      <4>2. i >= wheel /\ c[i] < indexes[i] /\ \A j \in Wheels : j > i => c[j] = indexes[j]
        BY <4>1, <1>a, <2>1, WheelsFact
      <4> QED
        BY <4>2 DEF NotBehind
    <3>2. CASE \A j \in Wheels : j >= wheel' => c[j] = indexes'[j]
      <4>1. \A j \in Wheels : j > wheel => c[j] = indexes[j]
        BY <3>2, <1>a, <2>1, WheelsFact
      <4>2. CASE c[wheel] < indexes[wheel]
        BY <4>1, <4>2, <2>1, WheelsFact DEF NotBehind
      <4>3. CASE c[wheel] = indexes[wheel]
        <5>1. \A j \in Wheels : j >= wheel => c[j] = indexes[j]
          BY <4>1, <4>3, <2>1, WheelsFact
        <5> QED
          BY <5>1 DEF NotBehind
      <4> QED
        BY <4>2, <4>3, <2>1
    <3> QED
      BY <2>3, <3>1, <3>2 DEF NotBehind
  <2> QED
    BY <2>2, <2>3
<1>6. Progress'
  BY <1>3, <1>5 DEF Progress, Inv, Carry
<1> QED
  BY <1>1, <1>2, <1>3, <1>4, <1>6 DEF Inv

LEMMA StopInv == Inv /\ Stop => Inv'
<1> SUFFICES ASSUME Inv, Stop PROVE Inv'
  OBVIOUS
<1>0. Types /\ \A i \in Wheels : indexes[i] < sizes[i]
  BY DEF Inv, IndexesInRange, Stop
<1>1. Types'
  BY <1>0 DEF Types, Stop, Turned
<1>2. IndexesInRange' /\ Zeros'
  BY DEF IndexesInRange, Zeros, Stop
<1>3. NoneTwice' /\ Made' = Made /\ Combinations' = Combinations
  BY DEF Stop, Inv, NoneTwice, Made, Combinations
<1>4. ASSUME NEW c \in Combinations
      PROVE  NotBehind(wheel, c, indexes)
  <2>1. /\ c[wheel] \in Nat
        /\ indexes[wheel] \in Nat
        /\ wheel \in Wheels
        /\ c[wheel] <= indexes[wheel]
        /\ wheel = Labels
    BY <1>0, CombinationFact DEF Types, Stop, LastWheel
  <2>2. \A j \in Wheels : ~(j > wheel) /\ (j >= wheel => j = wheel)
    BY <2>1, WheelsFact
  <2>3. wheel >= wheel
    BY <2>1, WheelsFact
  <2>4. c[wheel] < indexes[wheel] \/ c[wheel] = indexes[wheel]
    BY <2>1
  <2> QED
    BY <2>1, <2>2, <2>3, <2>4 DEF NotBehind
<1>5. Progress'
  BY <1>3, <1>4 DEF Progress, Inv, Stop
<1> QED
  BY <1>1, <1>2, <1>3, <1>5 DEF Inv

LEMMA NextInv == Inv /\ [Next]_vars => Inv'
<1> SUFFICES ASSUME Inv, [Next]_vars PROVE Inv'
  OBVIOUS
<1>1. CASE TakeCombination
  BY <1>1, TakeInv
<1>2. CASE TurnWheel
  BY <1>2, TurnInv
<1>3. CASE Carry
  BY <1>3, CarryInv
<1>4. CASE Stop
  BY <1>4, StopInv
<1>5. CASE UNCHANGED vars
  <2>1. /\ sizes' = sizes /\ indexes' = indexes /\ wheel' = wheel
        /\ pc' = pc /\ result' = result
    BY <1>5 DEF vars
  <2>2. Types' /\ IndexesInRange' /\ Zeros' /\ NoneTwice'
    BY <2>1 DEF Inv, Types, IndexesInRange, Zeros, NoneTwice
  <2>3. Made' = Made /\ Combinations' = Combinations
    BY <2>1 DEF Made, Combinations
  <2>4. Progress'
    BY <2>1, <2>3 DEF Inv, Progress, Less, NotBehind
  <2> QED
    BY <2>2, <2>4 DEF Inv
<1> QED
  BY <1>1, <1>2, <1>3, <1>4, <1>5 DEF Next

LEMMA SpecInv == Spec => []Inv
<1> QED
  BY InitInv, NextInv, PTL DEF Spec

(* The loop indexes the lists of values only where they have a value, for  *)
(* any labels (utils.LabelsCartesian, generateOrderedLabelValuesStringList)*)
THEOREM NeverOutOfRange == Spec => []IndexesInRange
<1>1. Inv => IndexesInRange
  BY DEF Inv
<1> QED
  BY <1>1, SpecInv, PTL

(* When the loop ends, every combination of values was made exactly once,  *)
(* whatever the number of labels and of their values.                      *)
THEOREM AllCombinationsOnce == Spec => []EveryCombinationOnce
<1>1. Inv => EveryCombinationOnce
  BY DEF Inv, EveryCombinationOnce, Progress, NoneTwice, Made
<1> QED
  BY <1>1, SpecInv, PTL

-----------------------------------------------------------------------------
(* The labels of a metric.  A value finds its label by its place: the      *)
(* labels with a field of their own come first and those of the multi-     *)
(* value fields last, in the order of the fields, because they are only    *)
(* added when every key of the label-field-map was seen (Places).          *)

(* The operators on functions and finite sets that the instance brings along. *)
LEMMA SeriesRange == \A f : Series!Range(f) = Range(f)
BY DEF Series!Range, Range

LEMMA SeriesCardinality == \A S : Series!Cardinality(S) = Cardinality(S)
BY DEF Series!Cardinality, Cardinality

SeriesNames(m) == Range(m.labels) \cup m.mapped \cup Range(m.multi)

(* No label is configured twice, multi-value fields have labels of their   *)
(* own, next to another label, and are met in count metrics only.          *)
ConfiguredMetric(m) ==
  /\ m.labels \in Seq(SeriesNames(m)) /\ m.multi \in Seq(SeriesNames(m))
  /\ IsInjective(m.labels) /\ IsInjective(m.multi)
  /\ Range(m.multi) \cap (Range(m.labels) \cup m.mapped) = {}
  /\ m.multi # <<>> =>
       /\ m.operation = "count"
       /\ Range(m.labels) \cup m.mapped # {}
  /\ \A item \in Range(m.expected) :
       IsFiniteSet(DOMAIN item) /\ \A l \in DOMAIN item : item[l] \in BOOLEAN

WellFormed == \A m \in Metrics : ConfiguredMetric(m)

(* How many multi-value labels were added, and how many others.            *)
Added == Len(metric.multi) - Len(toAdd)
Own == Len(metricLabels) - Added

SeriesTypes ==
  /\ metric \in Metrics /\ state \in {"mapped", "evaluate", "done"}
  /\ metricLabels \in Seq(SeriesNames(metric)) /\ toAdd \in Seq(SeriesNames(metric))
  /\ toMap \subseteq metric.mapped

(* No label stands twice; those of the multi-value fields come last, in    *)
(* the order of the fields.                                                *)
Places ==
  /\ IsInjective(metricLabels)
  /\ Added \in Nat /\ Own \in Nat
  /\ Added > 0 => toMap = {}
  /\ \A i \in 1..Own : metricLabels[i] \notin Range(metric.multi)
  /\ \A i \in 1..Added : metricLabels[Own + i] = metric.multi[i]
  /\ \A i \in 1..Len(toAdd) : toAdd[i] = metric.multi[Added + i]
  /\ Range(metric.labels) \cup (metric.mapped \ toMap) \subseteq Range(metricLabels)
  /\ Range(metricLabels) \subseteq SeriesNames(metric)

Complete ==
  /\ state # "mapped" => toMap = {} /\ toAdd = <<>>
  /\ state = "evaluate" => metricLabels # <<>>

(* Expected labels that are kept name the labels of the metric, all of     *)
(* them and no other.                                                      *)
KeptFit ==
  state # "mapped" /\ kept =>
    \A item \in Range(metric.expected) :
      DOMAIN item = Range(metricLabels) /\ \A l \in Range(metricLabels) : item[l]

(* The labels that have a value.                                           *)
Valued == DOMAIN values = IF state = "done" THEN Range(metricLabels) ELSE {}

SeriesInv == SeriesTypes /\ Places /\ Complete /\ KeptFit /\ Valued /\ Series!ValueAtItsLabel

LEMMA InjectiveFact ==
  ASSUME NEW S, NEW s \in Seq(S)
  PROVE  /\ IsInjective(s) <=> \A i, j \in 1..Len(s) : s[i] = s[j] => i = j
         /\ Range(s) = {s[i] : i \in 1..Len(s)}
         /\ Range(s) \subseteq S
BY DEF IsInjective, Range

LEMMA SeriesInitInv ==
  ASSUME WellFormed, Series!Init
  PROVE  SeriesInv
<1>1. /\ metric \in Metrics /\ state = "mapped" /\ metricLabels = metric.labels
      /\ toMap = metric.mapped /\ toAdd = metric.multi
  BY DEF Series!Init
<1>2. ConfiguredMetric(metric)
  BY <1>1 DEF WellFormed
<1>3. SeriesTypes
  BY <1>1, <1>2 DEF SeriesTypes, ConfiguredMetric
<1>4. Added = 0 /\ Own = Len(metricLabels) /\ Len(metricLabels) \in Nat /\ Len(toAdd) \in Nat
  BY <1>1, <1>2 DEF Added, Own, ConfiguredMetric
<1>5. Places
  <2>1. \A i \in 1..Own : metricLabels[i] \in Range(metricLabels)
    BY <1>3, <1>4, InjectiveFact DEF SeriesTypes
  <2>2. \A i \in 1..Len(toAdd) : Added + i = i
    BY <1>4
  <2> QED
    BY <1>1, <1>2, <1>4, <2>1, <2>2 DEF Places, ConfiguredMetric, SeriesNames
<1>6. Complete /\ KeptFit /\ Series!ValueAtItsLabel
  BY <1>1, SeriesRange DEF Complete, KeptFit, Series!ValueAtItsLabel
<1>7. Valued
  BY <1>1 DEF Valued, Series!Init, Series!NoValues
<1> QED
  BY <1>3, <1>5, <1>6, <1>7 DEF SeriesInv

(* A new label at the end.                                                 *)
LEMMA AppendFact ==
  ASSUME NEW S, NEW s \in Seq(S), NEW l \in S, IsInjective(s), l \notin Range(s)
  PROVE  /\ Append(s, l) \in Seq(S) /\ Len(Append(s, l)) = Len(s) + 1
         /\ \A i \in 1..Len(s) : Append(s, l)[i] = s[i]
         /\ Append(s, l)[Len(s) + 1] = l
         /\ IsInjective(Append(s, l))
         /\ Range(Append(s, l)) = Range(s) \cup {l}
<1> DEFINE a == Append(s, l)
           n == Len(s)
<1>1. /\ a \in Seq(S) /\ Len(a) = n + 1 /\ a[n + 1] = l /\ n \in Nat
      /\ \A i \in 1..n : a[i] = s[i]
  BY AppendProperties
<1>2. \A i \in 1..n + 1 : i \in 1..n \/ i = n + 1
  BY <1>1
<1>3. n + 1 \in 1..n + 1 /\ \A i \in 1..n : i \in 1..n + 1
  BY <1>1
<1>4. /\ \A i, j \in 1..n : s[i] = s[j] => i = j
      /\ \A i \in 1..n : s[i] # l
      /\ Range(s) = {s[i] : i \in 1..n}
  BY InjectiveFact
<1> HIDE DEF a, n
<1>5. \A i, j \in 1..n + 1 : a[i] = a[j] => i = j
  BY <1>1, <1>2, <1>4
<1>6. {a[i] : i \in 1..n + 1} = {s[i] : i \in 1..n} \cup {l}
  BY <1>1, <1>2, <1>3
<1>7. IsInjective(a) /\ Range(a) = Range(s) \cup {l}
  BY <1>1, <1>4, <1>5, <1>6, InjectiveFact
<1> QED
  BY <1>1, <1>7 DEF a, n

LEMMA AddMappedStep ==
  ASSUME WellFormed, SeriesInv, Series!AddMapped
  PROVE  SeriesInv'
<1>1. PICK l \in toMap : metricLabels' = Series!AppendedOnce(l) /\ toMap' = toMap \ {l}
  BY DEF Series!AddMapped
<1>2. /\ state = "mapped" /\ UNCHANGED <<metric, state, toAdd, kept, values>>
      /\ ConfiguredMetric(metric)
  BY DEF Series!AddMapped, SeriesInv, SeriesTypes, WellFormed
<1>3. /\ l \in metric.mapped /\ l \in SeriesNames(metric) /\ l \notin Range(metric.multi)
      /\ Added = 0 /\ Own = Len(metricLabels) /\ Len(metricLabels) \in Nat
  BY <1>1, <1>2 DEF SeriesInv, SeriesTypes, Places, SeriesNames, ConfiguredMetric, Own
<1>4. Added' = 0 /\ Own' = Len(metricLabels')
  <2>1. Added' = Added
    BY <1>2 DEF Added
  <2>2. Len(metricLabels') \in Nat
    BY <1>1, <1>3, AppendProperties, SeriesRange DEF Series!AppendedOnce, SeriesInv, SeriesTypes
  <2> QED
    BY <1>3, <2>1, <2>2 DEF Own
<1>5. /\ metricLabels' \in Seq(SeriesNames(metric)) /\ IsInjective(metricLabels')
      /\ Range(metricLabels') = Range(metricLabels) \cup {l}
      /\ \A i \in 1..Len(metricLabels') : metricLabels'[i] \notin Range(metric.multi)
      /\ Len(metricLabels') \in Nat
  <2>1. CASE l \in Range(metricLabels)
    BY <1>1, <1>3, <2>1, SeriesRange DEF Series!AppendedOnce, SeriesInv, SeriesTypes, Places
  <2>2. CASE l \notin Range(metricLabels)
    <3>1. metricLabels' = Append(metricLabels, l)
      BY <1>1, <2>2, SeriesRange DEF Series!AppendedOnce
    <3>2. \A i \in 1..Len(metricLabels) + 1 : i \in 1..Len(metricLabels) \/ i = Len(metricLabels) + 1
      BY <1>3
    <3>3. \A i \in 1..Len(metricLabels) : metricLabels[i] \notin Range(metric.multi)
      BY <1>3 DEF SeriesInv, Places
    <3> QED
      BY <1>3, <2>2, <3>1, <3>2, <3>3, AppendFact DEF SeriesInv, SeriesTypes, Places
  <2> QED
    BY <2>1, <2>2
<1>6. SeriesTypes'
  BY <1>1, <1>2, <1>5 DEF SeriesInv, SeriesTypes
<1>7. Places'
  BY <1>1, <1>2, <1>3, <1>4, <1>5 DEF SeriesInv, Places, SeriesNames
<1>8. Complete' /\ KeptFit' /\ Valued' /\ Series!ValueAtItsLabel'
  BY <1>2, SeriesRange DEF SeriesInv, Complete, KeptFit, Valued, Series!ValueAtItsLabel
<1> QED
  BY <1>6, <1>7, <1>8 DEF SeriesInv

LEMMA BeyondFirst ==
  ASSUME NEW a \in Nat, NEW b \in Nat
  PROVE  \A i \in 1..a + b : i \in 1..a \/ (i - a \in 1..b /\ a + (i - a) = i)
OBVIOUS

LEMMA AddMultiStep ==
  ASSUME WellFormed, SeriesInv, Series!AddMulti
  PROVE  SeriesInv'
<1> DEFINE l == Head(toAdd)
           k == Added
           n == Len(metricLabels)
           m == Len(Tail(toAdd))
<1>1. /\ state = "mapped" /\ toMap = {} /\ toAdd # <<>>
      /\ metricLabels' = Series!AppendedOnce(l) /\ toAdd' = Tail(toAdd)
      /\ UNCHANGED <<metric, state, toMap, kept, values>>
      /\ ConfiguredMetric(metric)
  BY DEF Series!AddMulti, Series!AllMapped, SeriesInv, SeriesTypes, WellFormed
<1>2. /\ toAdd \in Seq(SeriesNames(metric)) /\ metric.multi \in Seq(SeriesNames(metric))
      /\ metricLabels \in Seq(SeriesNames(metric))
  BY <1>1 DEF SeriesInv, SeriesTypes, ConfiguredMetric
<1>3. /\ Len(toAdd) \in Nat /\ m \in Nat /\ Len(toAdd) = m + 1 /\ l = toAdd[1]
      /\ toAdd' \in Seq(SeriesNames(metric)) /\ Len(toAdd') = m
      /\ \A i \in 1..m : toAdd'[i] = toAdd[i + 1]
  BY <1>1, <1>2, HeadTailProperties
<1>4. /\ Len(metric.multi) \in Nat /\ n \in Nat /\ k \in Nat /\ Own \in Nat
      /\ k = Len(metric.multi) - (m + 1) /\ Own = n - k
  <2>1. k \in Nat /\ Own \in Nat
    BY DEF SeriesInv, Places
  <2>2. Len(metric.multi) \in Nat /\ n \in Nat
    BY <1>2
  <2>3. k = Len(metric.multi) - (m + 1)
    BY <1>3 DEF Added
  <2> QED
    BY <2>1, <2>2, <2>3 DEF Own
<1>5. /\ \A i, j \in 1..Len(metric.multi) : metric.multi[i] = metric.multi[j] => i = j
      /\ Range(metric.multi) = {metric.multi[i] : i \in 1..Len(metric.multi)}
      /\ Range(metric.multi) \subseteq SeriesNames(metric)
  BY <1>1, <1>2, InjectiveFact DEF ConfiguredMetric
<1>6. Range(metricLabels) = {metricLabels[i] : i \in 1..n}
  BY <1>2, InjectiveFact
<1> HIDE DEF k, m, n
<1>7. /\ k + 1 \in 1..Len(metric.multi) /\ 1 \in 1..Len(toAdd)
      /\ \A i \in 1..k : i \in 1..Len(metric.multi) /\ i # k + 1
      /\ \A i \in 1..m : i + 1 \in 1..Len(toAdd)
      /\ \A i \in 1..n : i \in 1..Own \/ (i - Own \in 1..k /\ Own + (i - Own) = i)
  <2>1. Len(metric.multi) = k + m + 1 /\ n = Own + k /\ m \in Nat
    BY <1>3, <1>4
  <2>2. k + 1 \in 1..Len(metric.multi) /\ 1 \in 1..Len(toAdd)
    BY <1>3, <1>4, <2>1
  <2>3. \A i \in 1..k : i \in 1..Len(metric.multi) /\ i # k + 1
    BY <1>4, <2>1
  <2>4. \A i \in 1..m : i + 1 \in 1..Len(toAdd)
    BY <1>3
  <2>5. \A i \in 1..n : i \in 1..Own \/ (i - Own \in 1..k /\ Own + (i - Own) = i)
    <3>1. \A i \in 1..Own + k : i \in 1..Own \/ (i - Own \in 1..k /\ Own + (i - Own) = i)
      <4>1. Own \in Nat /\ k \in Nat
        BY <1>4
      <4> HIDE DEF Own
      <4> QED
        BY <4>1, BeyondFirst
    <3> QED
      BY <2>1, <3>1
  <2> QED
    BY <2>2, <2>3, <2>4, <2>5
<1>8. l = metric.multi[k + 1]
  BY <1>3, <1>7 DEF SeriesInv, Places, k
<1>9. l \in Range(metric.multi) /\ l \in SeriesNames(metric)
  BY <1>7, <1>8, <1>5
<1>10. l \notin Range(metricLabels)
  <2> SUFFICES ASSUME NEW i \in 1..n, metricLabels[i] = l PROVE FALSE
    BY <1>6
  <2>1. CASE i \in 1..Own
    BY <1>9, <2>1 DEF SeriesInv, Places
  <2>2. CASE i - Own \in 1..k /\ Own + (i - Own) = i
    <3>1. metricLabels[i] = metric.multi[i - Own]
      BY <2>2 DEF SeriesInv, Places, k
    <3> QED
      BY <1>7, <1>8, <1>5, <2>2, <3>1
  <2> QED
    BY <1>7, <2>1, <2>2
<1>11. metricLabels' = Append(metricLabels, l)
  BY <1>1, <1>10, SeriesRange DEF Series!AppendedOnce
<1>12. /\ metricLabels' \in Seq(SeriesNames(metric)) /\ Len(metricLabels') = n + 1
       /\ \A i \in 1..n : metricLabels'[i] = metricLabels[i]
       /\ metricLabels'[n + 1] = l /\ IsInjective(metricLabels') /\ Range(metricLabels') = Range(metricLabels) \cup {l}
  BY <1>2, <1>9, <1>10, <1>11, AppendFact DEF SeriesInv, Places, n
<1>13. Added' = k + 1 /\ Own' = Own
  <2>1. Added' = Len(metric.multi) - m
    BY <1>1, <1>3 DEF Added
  <2>2. Own' = (n + 1) - Added'
    BY <1>12 DEF Own
  <2> QED
    BY <1>3, <1>4, <2>1, <2>2 DEF m
<1>14. \A i \in 1..k + 1 : metricLabels'[Own + i] = metric.multi[i]
  <2> SUFFICES ASSUME NEW i \in 1..k + 1 PROVE metricLabels'[Own + i] = metric.multi[i]
    OBVIOUS
  <2>1. CASE i = k + 1
    <3>1. Own + i = n + 1
      BY <1>4, <2>1
    <3> QED
      BY <1>8, <1>12, <2>1, <3>1
  <2>2. CASE i # k + 1
    <3>1. i \in 1..k /\ Own + i \in 1..n
      BY <1>4, <2>2
    <3>2. metricLabels[Own + i] = metric.multi[i]
      BY <3>1 DEF SeriesInv, Places, k
    <3> QED
      BY <1>12, <3>1, <3>2
  <2> QED
    BY <2>1, <2>2
<1>15. \A i \in 1..Own : metricLabels'[i] \notin Range(metric.multi)
  <2>1. \A i \in 1..Own : i \in 1..n
    BY <1>4
  <2> QED
    BY <1>12, <2>1 DEF SeriesInv, Places
<1>16. \A i \in 1..m : toAdd'[i] = metric.multi[k + 1 + i]
  <2> SUFFICES ASSUME NEW i \in 1..m PROVE toAdd'[i] = metric.multi[k + 1 + i]
    OBVIOUS
  <2>1. toAdd[i + 1] = metric.multi[k + (i + 1)]
    BY <1>7 DEF SeriesInv, Places, k
  <2>2. k + (i + 1) = k + 1 + i
    BY <1>4
  <2> QED
    BY <1>3, <2>1, <2>2
<1>17. SeriesTypes'
  BY <1>1, <1>3, <1>12 DEF SeriesInv, SeriesTypes
<1>18. Places'
  <2>1. Added' \in Nat /\ Own' \in Nat /\ Len(toAdd') = m
    BY <1>3, <1>4, <1>13
  <2>2. Range(metric.labels) \cup (metric.mapped \ toMap) \subseteq Range(metricLabels')
    BY <1>12 DEF SeriesInv, Places
  <2>3. Range(metricLabels') \subseteq SeriesNames(metric)
    BY <1>9, <1>12 DEF SeriesInv, Places
  <2>4. SeriesNames(metric)' = SeriesNames(metric)
    BY <1>1 DEF SeriesNames
  <2> QED
    BY <1>1, <1>12, <1>13, <1>14, <1>15, <1>16, <2>1, <2>2, <2>3, <2>4 DEF Places
<1>19. Complete' /\ KeptFit' /\ Valued' /\ Series!ValueAtItsLabel'
  BY <1>1, SeriesRange DEF SeriesInv, Complete, KeptFit, Valued, Series!ValueAtItsLabel
<1> QED
  BY <1>17, <1>18, <1>19 DEF SeriesInv

(* A sequence without repetitions has as many elements as its range.       *)
LEMMA RangeSize ==
  ASSUME NEW S, NEW s \in Seq(S), IsInjective(s)
  PROVE  IsFiniteSet(Range(s)) /\ Cardinality(Range(s)) = Len(s)
<1>1. Len(s) \in Nat /\ s \in [1..Len(s) -> Range(s)]
  BY InjectiveFact
<1>2. s \in Bijection(1..Len(s), Range(s))
  BY <1>1, InjectiveFact DEF Bijection, Injection, Surjection, IsInjective
<1>3. ExistsBijection(1..Len(s), Range(s))
  BY <1>2 DEF ExistsBijection
<1> QED
  BY <1>1, <1>3, FS_CountingElements, FS_NatBijection

LEMMA CheckExpectedStep ==
  ASSUME WellFormed, SeriesInv, Series!CheckExpected
  PROVE  SeriesInv'
<1>1. /\ state = "mapped" /\ toMap = {} /\ toAdd = <<>>
      /\ kept' = (\A item \in Range(metric.expected) : Series!Fits(item))
      /\ state' = IF metricLabels = <<>> THEN "done" ELSE "evaluate"
      /\ UNCHANGED <<metric, metricLabels, toMap, toAdd, values>>
      /\ ConfiguredMetric(metric)
  BY SeriesRange DEF Series!CheckExpected, SeriesInv, SeriesTypes, WellFormed
<1>2. SeriesTypes' /\ Places' /\ Complete'
  BY <1>1 DEF SeriesInv, SeriesTypes, Places, Complete, Added, Own
<1>3. Series!ValueAtItsLabel'
  <2>1. metricLabels = <<>> => Range(metricLabels) = {}
    BY DEF Range
  <2> QED
    BY <1>1, <2>1, SeriesRange DEF Series!ValueAtItsLabel
<1>4. ASSUME NEW item \in Range(metric.expected)
      PROVE  Series!Fits(item) <=> DOMAIN item = Range(metricLabels) /\ \A l \in Range(metricLabels) : item[l]
  <2>1. IsFiniteSet(DOMAIN item)
    BY <1>1 DEF ConfiguredMetric
  <2>2. IsFiniteSet(Range(metricLabels)) /\ Cardinality(Range(metricLabels)) = Len(metricLabels)
    BY RangeSize DEF SeriesInv, SeriesTypes, Places
  <2>3. Range(metricLabels) \subseteq DOMAIN item /\ Cardinality(DOMAIN item) = Len(metricLabels)
          => DOMAIN item = Range(metricLabels)
    BY <2>1, <2>2, FS_Subset
  <2> QED
    BY <2>2, <2>3, SeriesRange, SeriesCardinality DEF Series!Fits
<1>5. KeptFit'
  BY <1>1, <1>4 DEF KeptFit
<1>6. Valued'
  <2>1. metricLabels = <<>> => Range(metricLabels) = {}
    BY DEF Range
  <2> QED
    BY <1>1, <2>1 DEF SeriesInv, Valued
<1> QED
  BY <1>2, <1>3, <1>5, <1>6 DEF SeriesInv

LEMMA EvaluateStep ==
  ASSUME WellFormed, SeriesInv, Series!Evaluate
  PROVE  SeriesInv'
<1> DEFINE n == Len(metricLabels)
           k == Len(metric.multi)
<1>1. /\ state = "evaluate" /\ UNCHANGED <<metric, metricLabels, toMap, toAdd, kept>>
      /\ ConfiguredMetric(metric) /\ toMap = {} /\ toAdd = <<>> /\ metricLabels # <<>>
  BY SeriesRange DEF Series!Evaluate, SeriesInv, SeriesTypes, WellFormed, Complete
<1>2. metricLabels \in Seq(SeriesNames(metric)) /\ metric.multi \in Seq(SeriesNames(metric))
  BY <1>1 DEF SeriesInv, SeriesTypes, ConfiguredMetric
<1>3. /\ n \in Nat /\ k \in Nat /\ n > 0 /\ Added = k /\ Series!FieldLabels = Own /\ Own \in Nat
      /\ Own = n - k
  <2>1. n \in Nat /\ k \in Nat /\ n > 0
    BY <1>1, <1>2, EmptySeq
  <2>2. Added = k
    BY <1>1, <2>1 DEF Added
  <2> QED
    BY <2>1, <2>2 DEF Series!FieldLabels, Own, SeriesInv, Places
<1>4. /\ Range(metric.multi) = {metric.multi[i] : i \in 1..k}
      /\ \A i \in 1..Own : metricLabels[i] \notin Range(metric.multi)
      /\ \A i \in 1..k : metricLabels[Own + i] = metric.multi[i]
      /\ \A i, j \in 1..n : metricLabels[i] = metricLabels[j] => i = j
      /\ Range(metricLabels) = {metricLabels[i] : i \in 1..n} /\ DOMAIN metricLabels = 1..n
  <2>1. Range(metric.multi) = {metric.multi[i] : i \in 1..k}
    BY <1>2, InjectiveFact
  <2>2. /\ IsInjective(metricLabels)
        /\ \A i \in 1..Own : metricLabels[i] \notin Range(metric.multi)
        /\ \A i \in 1..k : metricLabels[Own + i] = metric.multi[i]
    BY <1>3 DEF SeriesInv, Places
  <2>3. /\ \A i, j \in 1..n : metricLabels[i] = metricLabels[j] => i = j
        /\ Range(metricLabels) = {metricLabels[i] : i \in 1..n} /\ DOMAIN metricLabels = 1..n
    BY <1>2, <2>2, InjectiveFact
  <2> QED
    BY <2>1, <2>2, <2>3
<1> HIDE DEF n, k
(* A label that is not of a multi-value field comes first.                 *)
<1>5. Own > 0
  <2>1. CASE metric.multi = <<>>
    BY <1>2, <1>3, <2>1, EmptySeq DEF k
  <2>2. CASE metric.multi # <<>>
    <3>1. PICK l : l \in Range(metric.labels) \cup metric.mapped
      BY <1>1, <2>2 DEF ConfiguredMetric
    <3>2. l \in Range(metricLabels) /\ l \notin Range(metric.multi)
      BY <1>1, <3>1 DEF ConfiguredMetric, SeriesInv, Places
    <3>3. PICK i \in 1..n : metricLabels[i] = l
      BY <1>4, <3>2
    <3>4. Own = 0 => FALSE
      <4> SUFFICES ASSUME Own = 0 PROVE FALSE
        OBVIOUS
      <4>1. i \in 1..k /\ Own + i = i
        BY <1>3
      <4> QED
        BY <1>4, <3>2, <3>3, <4>1
    <3> QED
      BY <1>3, <3>4
  <2> QED
    BY <2>1, <2>2
<1>6. Series!FieldPart = [i \in 1..Own |-> Series!FieldValue(metricLabels[i])]
  BY <1>3, <1>5 DEF Series!FieldPart
<1>7. Series!MultiPart = [i \in 1..k |-> Series!MultiValue(metric.multi[i])]
  <2>1. CASE metric.multi = <<>>
    <3>1. k = 0
      BY <2>1 DEF k
    <3>2. [i \in 1..0 |-> Series!MultiValue(metric.multi[i])] = <<>>
      OBVIOUS
    <3> QED
      BY <2>1, <3>1, <3>2 DEF Series!MultiPart, k
  <2>2. CASE metric.multi # <<>>
    BY <1>1, <2>2 DEF ConfiguredMetric, Series!MultiPart, k
  <2> QED
    BY <2>1, <2>2
<1>8. PICK V : /\ Series!FieldPart \in Seq(V) /\ Series!MultiPart \in Seq(V)
               /\ Len(Series!FieldPart) = Own /\ Len(Series!MultiPart) = k
  <2> DEFINE V == {Series!FieldValue(metricLabels[i]) : i \in 1..Own} \cup {Series!MultiValue(metric.multi[i]) : i \in 1..k}
  <2>1. Series!FieldPart \in [1..Own -> V] /\ Series!MultiPart \in [1..k -> V]
    BY <1>6, <1>7
  <2> HIDE DEF V
  <2>2. Series!FieldPart \in Seq(V) /\ Len(Series!FieldPart) = Own
    BY <1>3, <2>1
  <2>3. Series!MultiPart \in Seq(V) /\ Len(Series!MultiPart) = k
    BY <1>3, <2>1
  <2> QED
    BY <2>2, <2>3
<1>9. /\ Len(Series!Joined) = n
      /\ \A i \in 1..Own : Series!Joined[i] = Series!FieldValue(metricLabels[i])
      /\ \A i \in 1..k : Series!Joined[Own + i] = Series!MultiValue(metric.multi[i])
  <2>1. /\ Len(Series!Joined) = Own + k
        /\ \A i \in 1..Own + k : Series!Joined[i] = IF i <= Own THEN Series!FieldPart[i] ELSE Series!MultiPart[i - Own]
    BY <1>8, ConcatProperties DEF Series!Joined
  <2>2. ASSUME NEW i \in 1..k
        PROVE  Series!Joined[Own + i] = Series!MultiPart[i]
    <3>1. Own + i \in 1..Own + k /\ ~(Own + i <= Own) /\ (Own + i) - Own = i
      BY <1>3
    <3> QED
      BY <2>1, <3>1
  <2>3. \A i \in 1..Own : Series!Joined[i] = Series!FieldPart[i]
    <3>1. \A i \in 1..Own : i \in 1..Own + k /\ i <= Own
      BY <1>3
    <3> QED
      BY <2>1, <3>1
  <2> QED
    BY <1>3, <1>6, <1>7, <2>1, <2>2, <2>3
<1>10. ASSUME NEW i \in 1..n
       PROVE  Series!Joined[i] = Series!Source(metricLabels[i])
  <2>1. CASE i \in 1..Own
    BY <1>4, <1>9, <2>1, SeriesRange DEF Series!Source
  <2>2. CASE i \notin 1..Own
    <3>1. i - Own \in 1..k /\ Own + (i - Own) = i
      BY <1>3, <2>2
    <3>2. metricLabels[i] = metric.multi[i - Own] /\ metricLabels[i] \in Range(metric.multi)
      BY <1>4, <3>1
    <3> QED
      BY <1>9, <3>1, <3>2, SeriesRange DEF Series!Source
  <2> QED
    BY <2>1, <2>2
<1>11. /\ state' = "done"
       /\ values' = [l \in Range(metricLabels) |->
            Series!Joined[CHOOSE i \in DOMAIN metricLabels :
                     metricLabels[i] = l /\ \A j \in DOMAIN metricLabels : metricLabels[j] = l => j <= i]]
  <2>1. ~(Series!FieldLabels < 0) /\ ~(Len(Series!Joined) < Len(metricLabels))
    BY <1>3, <1>9 DEF n
  <2> QED
    BY <2>1, SeriesRange DEF Series!Evaluate
<1>12. ASSUME NEW l \in Range(metricLabels)
       PROVE  values'[l] = Series!Source(l)
  <2> DEFINE Last(i) == metricLabels[i] = l /\ \A j \in DOMAIN metricLabels : metricLabels[j] = l => j <= i
  <2>1. PICK i \in 1..n : metricLabels[i] = l
    BY <1>4
  <2>2. i \in DOMAIN metricLabels /\ Last(i)
    BY <1>3, <1>4, <2>1
  <2>3. \A j \in DOMAIN metricLabels : Last(j) => j = i
    BY <1>4, <2>1
  <2>4. (CHOOSE j \in DOMAIN metricLabels : Last(j)) = i
    BY <2>2, <2>3
  <2>5. values'[l] = Series!Joined[CHOOSE j \in DOMAIN metricLabels : Last(j)]
    BY <1>11
  <2> HIDE DEF Last
  <2> QED
    BY <1>10, <2>1, <2>4, <2>5
<1>13. SeriesTypes' /\ Places' /\ Complete'
  BY <1>1, <1>11 DEF SeriesInv, SeriesTypes, Places, Complete, Added, Own
<1>14. Series!ValueAtItsLabel'
  BY <1>1, <1>11, <1>12, SeriesRange DEF SeriesInv, Series!ValueAtItsLabel, Series!Source
<1>15. KeptFit' /\ Valued'
  BY <1>1, <1>11 DEF SeriesInv, KeptFit, Valued
<1> QED
  BY <1>13, <1>14, <1>15 DEF SeriesInv

LEMMA SeriesStepInv == WellFormed /\ SeriesInv /\ [Series!Next]_Series!vars => SeriesInv'
<1> SUFFICES ASSUME WellFormed, SeriesInv, [Series!Next]_Series!vars PROVE SeriesInv'
  OBVIOUS
<1>1. CASE UNCHANGED Series!vars
  BY <1>1, SeriesRange
     DEF Series!vars, SeriesInv, SeriesTypes, Places, Complete, KeptFit, Valued,
         Added, Own, Series!ValueAtItsLabel, Series!Source
<1> QED
  BY <1>1, AddMappedStep, AddMultiStep, CheckExpectedStep, EvaluateStep DEF Series!Next

LEMMA SeriesInvHolds == WellFormed => (Series!Spec => []SeriesInv)
<1> SUFFICES ASSUME WellFormed PROVE Series!Spec => []SeriesInv
  OBVIOUS
<1>1. Series!Init => SeriesInv
  BY SeriesInitInv
<1>2. SeriesInv /\ [Series!Next]_Series!vars => SeriesInv'
  BY SeriesStepInv
<1> QED
  BY <1>1, <1>2, PTL DEF Series!Spec

(* For any metric: every label of a series has the value of its own field, *)
(* in whatever order the label-field-map was gone through                  *)
(* (processHiddenFields, generateLabelValueMapFromOLV).                    *)
THEOREM ValuesAtTheirLabels == WellFormed => (Series!Spec => []ValueAtItsLabel)
<1>1. SeriesInv => ValueAtItsLabel
  BY DEF SeriesInv, ValueAtItsLabel
<1> QED
  BY <1>1, SeriesInvHolds, PTL

(* For any metric: the series that are made for its expected labels bear   *)
(* the labels of the series of its records, each with a value, in whatever *)
(* order its label-field-map was gone through (checkExpectedLabelsFields,  *)
(* generateLabelValueMapFromOLV).                                          *)
THEOREM ExpectedAreRecorded == WellFormed => (Series!Spec => []ExpectedIsRecorded)
<1>1. SeriesInv => ExpectedIsRecorded
  BY SeriesRange DEF SeriesInv, KeptFit, Valued, ExpectedIsRecorded, Series!ExpectedIsRecorded
<1> QED
  BY <1>1, SeriesInvHolds, PTL
=============================================================================
