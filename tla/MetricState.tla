---------------------------- MODULE MetricState ----------------------------
(***************************************************************************)
(* The series of one metric: what the evaluator remembers of them (the     *)
(* metric state), what it hands to the collectors for the answer of a      *)
(* window, and what the collectors export.                                 *)
(*                                                                         *)
(* The metric state maps a key to the labels of a series.  The evaluator   *)
(* enters the expected label values when it is created, under a key made   *)
(* of names and values; a series met in an answer is entered under a key   *)
(* made of the values alone.  After the series of the answer come those    *)
(* the state knows and the answer has not: a gauge gets its default value, *)
(* a counter or histogram zero, which keeps its timestamp moving.          *)
(***************************************************************************)
EXTENDS Integers, FiniteSets, Functions

CONSTANTS
  None,          \* a parameter that is not set
  Definitions,   \* the metrics to look at: metrics as records, see `metric`
  MaxCount,      \* bound: records of a series in an answer
  MaxWindows     \* bound: windows

Value == [nan : BOOLEAN, n : Int]
Number(n) == [nan |-> FALSE, n |-> n]
NaN == [nan |-> TRUE, n |-> 0]

VARIABLES
  metric,    \* its parameters, see Type and what follows it
  state,     \* keys of the metric state
  exported,  \* collector: value and timestamp of the series it exports
  answer,    \* series of the last window's answer, with their records
  windows,   \* windows evaluated
  upset,     \* the update of the last window panicked
  total      \* ghost: records of each series so far

vars == <<metric, state, exported, answer, windows, upset, total>>

(* Its type, "gauge", "counter" or "histogram"; init-value and             *)
(* default-value, numbers or None; whether disable-timestamp is not set    *)
(* and whether it has labels; its series (tuples of label values), those   *)
(* of expected-labels, and those the client library does not take.         *)
Type == metric.type
InitValue == metric.initValue
DefaultValue == metric.defaultValue
Timestamps == metric.timestamps
Labelled == metric.labelled
Series == metric.series
Expected == metric.expected
Refused == metric.refused

(* Keys of the metric state.  Without labels both are the empty string.    *)
ExpectedKey(s) == IF Labelled THEN <<"map", s>> ELSE <<"", s>>
SeenKey(s) == IF Labelled THEN <<"olv", s>> ELSE <<"", s>>

Plus(v, w) == IF v.nan \/ w.nan THEN NaN ELSE Number(v.n + w.n)

Default == IF DefaultValue = None THEN NaN ELSE DefaultValue

(* Series that exist before the first window: all that are expected, or    *)
(* the only one of a metric without labels.                                *)
Early == IF Labelled THEN Expected ELSE Series

InitExported ==
  LET first == IF Type = "histogram" THEN Number(0) ELSE InitValue
      initialized == IF Type = "gauge" \/ InitValue = None THEN {} ELSE Early
  IN  [s \in initialized |-> [value |-> first, stamp |-> 0]]

Init ==
  /\ metric \in Definitions
  /\ state = {ExpectedKey(s) : s \in Early}
  /\ exported = InitExported
  /\ answer = [s \in {} |-> 0]
  /\ windows = 0
  /\ upset = FALSE
  /\ total = [s \in Series |-> 0]

(* A series of the answer that the state does not know is entered.         *)
Remember(records) == state \cup {SeenKey(s) : s \in DOMAIN records}

(* Mutant: only gauges get series appended.                                *)
MissingGauges(records) ==
  IF Type = "gauge"
    THEN {k[2] : k \in state \ {SeenKey(s) : s \in DOMAIN records}}
    ELSE {}

(* Series that are appended: the keys of the state the answer has not.     *)
Missing(records) ==
  IF Type = "gauge" \/ Timestamps
    THEN {k[2] : k \in state \ {SeenKey(s) : s \in DOMAIN records}}
    ELSE {}

Old(s) == IF s \in DOMAIN exported THEN exported[s].value ELSE Number(0)

(* Mutant: a counter forgets what it had.                                  *)
AddReplaces(s, value) == value

Add(s, value) == Plus(Old(s), value)

(* What a collector exports for a series after the updates of a window:    *)
(* the series of the answer first, then the appended ones.                 *)
Exported(s, records, counted, appended) ==
  IF Type = "gauge"
    THEN CASE s \in appended -> Default
           [] s \in counted \ appended -> Number(records[s])
           [] OTHER -> exported[s].value
    ELSE IF s \in counted THEN Add(s, Number(records[s])) ELSE Add(s, Number(0))

Update(records, counted, appended) ==
  exported' =
    [s \in DOMAIN exported \cup counted \cup appended |->
      [value |-> Exported(s, records, counted, appended),
       stamp |-> IF s \notin counted \cup appended THEN exported[s].stamp
                 ELSE IF Timestamps THEN windows + 1 ELSE 0]]

(* The answer of a window is evaluated and the collectors are updated.  A  *)
(* series whose label values the client library refuses makes the update   *)
(* panic: what comes after it is not updated.                              *)
Window(records) ==
  /\ windows < MaxWindows
  /\ state' = Remember(records)
  /\ LET seen == DOMAIN records
         missing == Missing(records)
     IN  \E counted \in SUBSET (seen \ Refused), appended \in SUBSET (missing \ Refused) :
           /\ seen \cap Refused = {} => counted = seen
           /\ seen \cap Refused # {} => appended = {}
           /\ (seen \cup missing) \cap Refused = {} => appended = missing
           /\ Update(records, counted, appended)
           /\ upset' = ((seen \cup missing) \cap Refused # {})
  /\ answer' = records
  /\ windows' = windows + 1
  /\ total' = [s \in Series |-> total[s] + (IF s \in DOMAIN records THEN records[s] ELSE 0)]
  /\ UNCHANGED metric

(* Records of an answer by series.  Without labels an answer with nothing  *)
(* but its heading still has the series, with no records.                  *)
Answers ==
  UNION {[seen -> (IF Labelled THEN 1 ELSE 0)..MaxCount] : seen \in SUBSET Series}

Next == \E records \in Answers : Window(records)

Spec == Init /\ [][Next]_vars

-----------------------------------------------------------------------------
Start(s) == IF s \in Early /\ Type = "counter" /\ InitValue # None THEN InitValue ELSE Number(0)

(* A counter or the count of a histogram is what it was initialized with   *)
(* plus every record of every window, however windows with and without     *)
(* records of a series alternate, and a series with records is exported.   *)
CountsAll ==
  Type # "gauge" =>
    \A s \in Series :
      /\ s \in DOMAIN exported => exported[s].value = Plus(Start(s), Number(total[s]))
      /\ total[s] > 0 => s \in DOMAIN exported

(* No record counts twice and no counter goes back, also if updates panic. *)
NeverAheadNorBack ==
  [][Type # "gauge" =>
       /\ \A s \in DOMAIN exported : s \in DOMAIN exported' /\ exported'[s].value.n >= exported[s].value.n
       /\ \A s \in DOMAIN exported' : exported'[s].value.n <= Start(s).n + total'[s]]_vars

(* All series of a metric carry the end of the last window, those without  *)
(* records too: none of them turns stale between two scrapes.              *)
SameTimestamp ==
  Timestamps /\ windows > 0 => \A s \in DOMAIN exported : exported[s].stamp = windows

(* A gauge shows the answer of the last window for the series it has.      *)
GaugeShowsAnswer ==
  Type = "gauge" => \A s \in DOMAIN answer : exported[s].value = Number(answer[s])

(* A gauge shows its default for the series that are expected or were in   *)
(* an earlier answer and are not in the last one.                          *)
GaugeShowsDefault ==
  Type = "gauge" /\ windows > 0 =>
    \A s \in Early \cup {s \in Series : total[s] > 0} :
      s \notin DOMAIN answer => s \in DOMAIN exported /\ exported[s].value = Default

(* The four of them, while no series is refused: a metric with a refused   *)
(* series is updated as far as the panic lets it (NeverAheadNorBack).      *)
ExportedAsCounted ==
  Refused = {} => CountsAll /\ SameTimestamp /\ GaugeShowsAnswer /\ GaugeShowsDefault
=============================================================================
