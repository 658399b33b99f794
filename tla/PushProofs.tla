----------------------------- MODULE PushProofs -----------------------------
(***************************************************************************)
(* However many goroutines convert at the same time, in whatever order     *)
(* they read and store their clocks, no sample gets a stale time.          *)
(*                                                                         *)
(* And what they convert is complete: the collectors of module MetricState *)
(* export every record that any number of windows counted.                 *)
(***************************************************************************)
EXTENDS PushContents, Functions, TLAPS

(* The samples a pusher can make: those of its series, at any time.        *)
SamplesOf(p) ==
  [metric : {Series(p)[k].metric : k \in Nat}, name : {Series(p)[k].name : k \in Nat},
   stamped : {Series(p)[k].stamped : k \in Nat}, time : Nat]

Push(p) ==
  [pc : {"begin", "store", "convert", "send"}, clock : Nat, floor : Nat,
   samples : Seq(SamplesOf(p))]

Types ==
  /\ now \in Nat \ {0}
  /\ timeMillis \in Nat
  /\ DOMAIN push = Pushers
  /\ \A p \in Pushers : push[p] \in Push(p)
  /\ push = [p \in Pushers |-> push[p]]

(* A sample with its metric's time has that one, any other is recent.      *)
Fits(s, floor) == IF s.stamped THEN s.time = WindowTime ELSE floor <= s.time

(* What is still to be stored is not older than the floor of any           *)
(* conversion, and while one is under way the field is not either.         *)
FloorsHold ==
  \A p \in Pushers :
    /\ push[p].pc # "begin" =>
         /\ push[p].floor <= now
         /\ \A q \in Pushers : push[q].pc = "store" => push[p].floor <= push[q].clock
    /\ push[p].pc \in {"convert", "send"} => push[p].floor <= timeMillis

ClocksPast == \A p \in Pushers : push[p].clock <= now

SamplesFit ==
  \A p \in Pushers : \A i \in 1..Len(push[p].samples) :
    Fits(push[p].samples[i], push[p].floor)

Inv == Types /\ FloorsHold /\ ClocksPast /\ SamplesFit

(* A sequence is read through its indexes.                                 *)
LEMMA SamplesByIndex ==
  ASSUME Types, SamplesFit
  PROVE  TimesFitConversion
<1> SUFFICES ASSUME NEW p \in Pushers, NEW s \in ToSet(push[p].samples)
             PROVE  Fits(s, push[p].floor)
  BY DEF TimesFitConversion, Fits
<1>1. push[p].samples \in Seq(SamplesOf(p))
  BY DEF Types, Push
<1>2. PICK i \in DOMAIN push[p].samples : s = push[p].samples[i]
  BY DEF ToSet
<1>3. i \in 1..Len(push[p].samples)
  BY <1>1, <1>2
<1> QED
  BY <1>2, <1>3 DEF SamplesFit

LEMMA InitInv == Init => Inv
<1> SUFFICES ASSUME Init PROVE Inv
  OBVIOUS
<1>1. \A p \in Pushers : push[p] = Begun
  BY DEF Init
<1>2. \A p \in Pushers : Begun \in Push(p)
  BY DEF Begun, Push
<1>3. Types
  BY <1>1, <1>2 DEF Init, Types
<1>4. FloorsHold /\ ClocksPast /\ SamplesFit
  BY <1>1 DEF Init, Begun, FloorsHold, ClocksPast, SamplesFit
<1> QED
  BY <1>3, <1>4 DEF Inv

LEMMA StepReadClock ==
  ASSUME Inv, NEW p \in Pushers, ReadClock(p)
  PROVE  Inv'
<1> DEFINE underWay == {now} \cup {push[q].clock : q \in {r \in Pushers : push[r].pc = "store"}}
<1>1. PICK oldest \in underWay :
        /\ \A c \in underWay : oldest <= c
        /\ push' = [push EXCEPT ![p] =
             [pc |-> "store", clock |-> now, floor |-> oldest, samples |-> <<>>]]
  BY DEF ReadClock
<1>2. now' = now /\ timeMillis' = timeMillis
  BY DEF ReadClock
<1>3. push'[p] = [pc |-> "store", clock |-> now, floor |-> oldest, samples |-> <<>>]
      /\ \A q \in Pushers \ {p} : push'[q] = push[q]
  BY <1>1 DEF Inv, Types
<1>4. oldest \in Nat /\ oldest <= now
  BY <1>1 DEF Inv, Types, Push
<1>5. \A q \in Pushers : push[q].pc = "store" => oldest <= push[q].clock
  BY <1>1
<1>6. push'[p] \in Push(p)
  BY <1>3, <1>4 DEF Inv, Types, Push
<1>7. Types'
  BY <1>1, <1>2, <1>3, <1>6 DEF Inv, Types
<1>8. FloorsHold'
  BY <1>2, <1>3, <1>4, <1>5 DEF Inv, FloorsHold
<1>9. ClocksPast' /\ SamplesFit'
  BY <1>2, <1>3 DEF Inv, Types, ClocksPast, SamplesFit
<1> QED
  BY <1>7, <1>8, <1>9 DEF Inv

LEMMA StepStoreClock ==
  ASSUME Inv, NEW p \in Pushers, StoreClock(p)
  PROVE  Inv'
<1>1. /\ push[p].pc = "store"
      /\ now' = now /\ timeMillis' = push[p].clock
      /\ push' = [push EXCEPT ![p].pc = "convert"]
  BY DEF StoreClock
<1>2. push[p] \in Push(p) /\ DOMAIN push = Pushers
  BY DEF Inv, Types
<1>3. /\ push'[p].pc = "convert" /\ push'[p].clock = push[p].clock
      /\ push'[p].floor = push[p].floor /\ push'[p].samples = push[p].samples
      /\ push'[p] \in Push(p)
      /\ \A q \in Pushers \ {p} : push'[q] = push[q]
  BY <1>1, <1>2 DEF Push
<1>4. Types'
  BY <1>1, <1>2, <1>3 DEF Inv, Types, Push
<1>5. FloorsHold'
  BY <1>1, <1>3 DEF Inv, FloorsHold
<1>6. ClocksPast'
  BY <1>1, <1>3 DEF Inv, ClocksPast
<1>7. SamplesFit'
  BY <1>3 DEF Inv, SamplesFit
<1> QED
  BY <1>4, <1>5, <1>6, <1>7 DEF Inv

LEMMA StepConvert ==
  ASSUME Inv, NEW p \in Pushers, Convert(p)
  PROVE  Inv'
<1> DEFINE next == Len(push[p].samples) + 1
           s == Series(p)[next]
           sample == [metric |-> s.metric, name |-> s.name, stamped |-> s.stamped,
                      time |-> SampleTime(s)]
<1>1. /\ push[p].pc = "convert"
      /\ push' = [push EXCEPT ![p].samples = Append(@, sample)]
      /\ now' = now /\ timeMillis' = timeMillis
  BY DEF Convert
<1>2. push[p] \in Push(p) /\ DOMAIN push = Pushers /\ timeMillis \in Nat
  BY DEF Inv, Types
<1>3. push[p].samples \in Seq(SamplesOf(p)) /\ next \in Nat
  BY <1>2 DEF Push
<1>4. SampleTime(s) \in Nat
  BY <1>2 DEF SampleTime, WindowTime
<1>5. sample \in SamplesOf(p)
  BY <1>3, <1>4 DEF SamplesOf
<1>6. Fits(sample, push[p].floor)
  BY <1>1 DEF Inv, FloorsHold, Fits, SampleTime
<1> HIDE DEF sample
<1>7. /\ push'[p].pc = "convert" /\ push'[p].clock = push[p].clock
      /\ push'[p].floor = push[p].floor
      /\ push'[p].samples = Append(push[p].samples, sample)
      /\ \A q \in Pushers \ {p} : push'[q] = push[q]
  BY <1>1, <1>2 DEF Push
<1>8. Append(push[p].samples, sample) \in Seq(SamplesOf(p))
  BY <1>3, <1>5
<1>9. push'[p] \in Push(p)
  BY <1>1, <1>2, <1>8 DEF Push
<1>10. Types'
  BY <1>1, <1>2, <1>7, <1>9 DEF Inv, Types
<1>11. FloorsHold' /\ ClocksPast'
  BY <1>1, <1>7 DEF Inv, FloorsHold, ClocksPast
<1>12. \A i \in 1..Len(push'[p].samples) : Fits(push'[p].samples[i], push[p].floor)
  BY <1>3, <1>5, <1>6, <1>7 DEF Inv, SamplesFit
<1>13. SamplesFit'
  BY <1>7, <1>12 DEF Inv, SamplesFit
<1> QED
  BY <1>10, <1>11, <1>13 DEF Inv

(* The other steps of a push only move it on, or drop what it had.         *)
LEMMA StepRest ==
  ASSUME Inv, NEW p \in Pushers, Converted(p) \/ Sent(p) \/ Again(p)
  PROVE  Inv'
<1>1. push[p] \in Push(p) /\ DOMAIN push = Pushers /\ now \in Nat
  BY DEF Inv, Types
<1>2. PICK to \in {Begun, [push[p] EXCEPT !.pc = "send"], [push[p] EXCEPT !.pc = "begin"]} :
        /\ push' = [push EXCEPT ![p] = to]
        /\ to.pc = "send" => push[p].pc = "convert"
        /\ to.pc \in {"send", "begin"}
  <2>1. CASE Converted(p)
    <3>1. [push[p] EXCEPT !.pc = "send"].pc = "send"
      BY <1>1 DEF Push
    <3> QED
      BY <2>1, <3>1 DEF Converted
  <2>2. CASE Sent(p)
    BY <2>2 DEF Sent, Begun
  <2>3. CASE Again(p)
    <3>1. [push[p] EXCEPT !.pc = "begin"].pc = "begin"
      BY <1>1 DEF Push
    <3> QED
      BY <2>3, <3>1 DEF Again
  <2> QED
    BY <2>1, <2>2, <2>3
<1>3. now' = now /\ timeMillis' = timeMillis
  BY DEF Converted, Sent, Again
<1>4. Begun \in Push(p)
  BY DEF Begun, Push
<1>5. to \in Push(p)
  BY <1>1, <1>2, <1>4 DEF Push
<1>6. \/ to.clock = push[p].clock /\ to.floor = push[p].floor /\ to.samples = push[p].samples
      \/ to.clock = 0 /\ to.floor = 0 /\ to.samples = <<>>
  BY <1>1, <1>2 DEF Begun, Push
<1>7. push'[p] = to /\ \A q \in Pushers \ {p} : push'[q] = push[q]
  BY <1>1, <1>2
<1>8. Types'
  BY <1>1, <1>2, <1>3, <1>5, <1>7 DEF Inv, Types
<1>9. FloorsHold'
  <2>1. to.pc = "send" => push[p].pc = "convert" /\ to.floor \in {0, push[p].floor}
    BY <1>2, <1>6
  <2>2. timeMillis \in Nat /\ \A q \in Pushers : push[q].clock \in Nat
    BY DEF Inv, Types, Push
  <2> QED
    BY <1>2, <1>3, <1>7, <2>1, <2>2, <1>1 DEF Inv, FloorsHold
<1>10. ClocksPast'
  BY <1>1, <1>3, <1>6, <1>7 DEF Inv, ClocksPast
<1>11. SamplesFit'
  BY <1>6, <1>7 DEF Inv, SamplesFit
<1> QED
  BY <1>8, <1>9, <1>10, <1>11 DEF Inv

LEMMA StepInv == Inv /\ [Next]_vars => Inv'
<1> SUFFICES ASSUME Inv, [Next]_vars PROVE Inv'
  OBVIOUS
<1>1. CASE Tick
  <2>1. now' = now + 1 /\ timeMillis' = timeMillis /\ push' = push
    BY <1>1 DEF Tick
  <2> QED
    BY <2>1 DEF Inv, Types, Push, FloorsHold, ClocksPast, SamplesFit
<1>2. CASE UNCHANGED vars
  BY <1>2 DEF Inv, Types, FloorsHold, ClocksPast, SamplesFit, vars
<1>3. CASE \E p \in Pushers :
             \/ ReadClock(p) \/ StoreClock(p)
             \/ Convert(p) \/ Converted(p)
             \/ Sent(p) \/ Again(p)
  BY <1>3, StepReadClock, StepStoreClock, StepConvert, StepRest
<1> QED
  BY <1>1, <1>2, <1>3 DEF Next

(* The time of a sample is that of its metric, or not older than the       *)
(* oldest clock still to be stored when its conversion began: for any      *)
(* number of goroutines, any copies, and any order of their steps.         *)
THEOREM NoStaleTime == Spec => []TimesFitConversion
<1>1. Inv => TimesFitConversion
  BY SamplesByIndex DEF Inv
<1> QED
  BY <1>1, InitInv, StepInv, PTL DEF Spec

-----------------------------------------------------------------------------
(* The collectors of one metric, C for short.  They export what the        *)
(* windows counted because the metric state never forgets: it has a key    *)
(* for every series that was initialized or met (Known), and a series      *)
(* without a record in a window is still updated.                          *)

(* A configured metric: its expected series are among its series, its      *)
(* init-value is a number or NaN.                                          *)
Configured(d) ==
  /\ d.type \in {"gauge", "counter", "histogram"}
  /\ d.initValue \in {None, C!NaN} \cup {C!Number(n) : n \in Int}
  /\ d.timestamps \in BOOLEAN /\ d.labelled \in BOOLEAN
  /\ d.expected \subseteq d.series

(* The default of a gauge takes the place of the answer where expected     *)
(* labels are met, as the state has two keys for such a series.            *)
GaugeExpectsNone(d) == d.type = "gauge" /\ d.labelled => d.expected = {}

CollectorTypes ==
  /\ windows \in Nat /\ total \in [C!Series -> Nat]
  /\ state \subseteq {C!ExpectedKey(s) : s \in C!Early} \cup {C!SeenKey(s) : s \in C!Series}
  /\ DOMAIN exported \subseteq C!Series /\ DOMAIN answer \subseteq C!Series

(* The state has a key for every series that was early, or met.            *)
Known ==
  /\ \A s \in C!Early : C!ExpectedKey(s) \in state
  /\ \A s \in C!Series : total[s] > 0 => C!SeenKey(s) \in state
  /\ \A s \in DOMAIN answer : C!SeenKey(s) \in state
  /\ \A s \in DOMAIN exported : s \in C!Early \/ C!SeenKey(s) \in state

(* What a counter is initialized with is exported from the beginning.      *)
Started ==
  C!Type # "gauge" => \A s \in C!Series : s \in DOMAIN exported \/ C!Start(s) = C!Number(0)

NotAhead ==
  C!Type # "gauge" =>
    \A s \in DOMAIN exported :
      \/ C!Start(s) = C!NaN /\ exported[s].value = C!NaN
      \/ /\ ~C!Start(s).nan /\ C!Start(s).n \in Int
         /\ \E n \in Int : exported[s].value = C!Number(n) /\ n <= C!Start(s).n + total[s]

CollectorInv == Configured(metric) /\ CollectorTypes /\ Known /\ Started /\ NotAhead

LEMMA StartFact ==
  ASSUME Configured(metric), NEW s
  PROVE  C!Start(s) = C!NaN \/ \E n \in Int : C!Start(s) = C!Number(n)
BY DEF Configured, C!Start, C!InitValue

LEMMA PlusFact ==
  ASSUME NEW m \in Int, NEW n \in Int
  PROVE  /\ C!Plus(C!Number(m), C!Number(n)) = C!Number(m + n)
         /\ C!Plus(C!NaN, C!Number(n)) = C!NaN
         /\ C!Number(m).n = m /\ ~C!Number(m).nan /\ C!NaN.nan /\ C!NaN.n = 0
         /\ C!Number(m) # C!NaN /\ (C!Number(m) = C!Number(n) => m = n)
BY DEF C!Plus, C!Number, C!NaN

LEMMA NumberPlus ==
  ASSUME NEW m, NEW n
  PROVE  C!Plus(C!Number(m), C!Number(n)) = C!Number(m + n) /\ C!Plus(C!NaN, C!Number(n)) = C!NaN
BY DEF C!Plus, C!Number, C!NaN

LEMMA EarlyFact == Configured(metric) => C!Early \subseteq C!Series
BY DEF Configured, C!Early, C!Labelled, C!Expected, C!Series

LEMMA KeyFact ==
  ASSUME Configured(metric), NEW s, NEW t
  PROVE  /\ C!SeenKey(s)[2] = s /\ C!ExpectedKey(s)[2] = s
         /\ C!SeenKey(s) = C!SeenKey(t) => s = t
         /\ ~C!Labelled => C!ExpectedKey(s) = C!SeenKey(s)
BY DEF C!SeenKey, C!ExpectedKey

LEMMA CollectorInitInv ==
  ASSUME C!Init, Configured(metric)
  PROVE  CollectorInv /\ C!ExportedAsCounted
<1>1. /\ state = {C!ExpectedKey(s) : s \in C!Early} /\ exported = C!InitExported
      /\ windows = 0 /\ total = [s \in C!Series |-> 0] /\ answer = [s \in {} |-> 0]
  BY DEF C!Init
<1>2. C!Early \subseteq C!Series
  BY EarlyFact
<1>3. DOMAIN answer = {} /\ DOMAIN exported \subseteq C!Early
  BY <1>1 DEF C!InitExported
<1>4. /\ CollectorTypes /\ Known
  BY <1>1, <1>2, <1>3 DEF CollectorTypes, Known
<1>5. ASSUME C!Type # "gauge", NEW s \in DOMAIN exported
      PROVE  exported[s].value = C!Start(s)
  <2>1. /\ s \in C!Early /\ C!InitValue # None
        /\ exported[s].value = IF C!Type = "histogram" THEN C!Number(0) ELSE C!InitValue
    BY <1>1, <1>5 DEF C!InitExported
  <2>2. C!Type \in {"counter", "histogram"}
    BY <1>5 DEF Configured, C!Type
  <2> QED
    BY <2>1, <2>2 DEF C!Start
<1>6. Started
  <2> SUFFICES ASSUME C!Type # "gauge", NEW s \in C!Series, s \notin DOMAIN exported
               PROVE  C!Start(s) = C!Number(0)
    BY DEF Started
  <2>1. s \notin C!Early \/ C!InitValue = None
    BY <1>1 DEF C!InitExported
  <2> QED
    BY <2>1 DEF C!Start
<1>7. ASSUME C!Type # "gauge", NEW s \in DOMAIN exported
      PROVE  /\ exported[s].value = C!Plus(C!Start(s), C!Number(total[s]))
             /\ \/ C!Start(s) = C!NaN /\ exported[s].value = C!NaN
                \/ /\ ~C!Start(s).nan /\ C!Start(s).n \in Int
                   /\ \E n \in Int : exported[s].value = C!Number(n) /\ n <= C!Start(s).n + total[s]
  <2>1. total[s] = 0
    BY <1>1, <1>2, <1>3, <1>7
  <2>2. CASE C!Start(s) = C!NaN
    BY <1>5, <1>7, <2>1, <2>2, PlusFact
  <2>3. CASE \E n \in Int : C!Start(s) = C!Number(n)
    <3>1. PICK n \in Int : C!Start(s) = C!Number(n)
      BY <2>3
    <3>2. C!Plus(C!Number(n), C!Number(0)) = C!Number(n)
      BY DEF C!Plus, C!Number
    <3>3. C!Number(n).n = n /\ ~C!Number(n).nan
      BY DEF C!Number
    <3>4. exported[s].value = C!Number(n) /\ total[s] = 0
      BY <1>5, <1>7, <2>1, <3>1
    <3>5. exported[s].value = C!Plus(C!Start(s), C!Number(total[s]))
      BY <3>1, <3>2, <3>4
    <3>6. ~C!Start(s).nan /\ C!Start(s).n = n /\ n <= C!Start(s).n + total[s]
      BY <3>1, <3>3, <3>4
    <3> QED
      BY <3>4, <3>5, <3>6
  <2> QED
    BY <2>2, <2>3, StartFact
<1>8. NotAhead
  BY <1>7 DEF NotAhead
<1>9. C!ExportedAsCounted
  BY <1>1, <1>3, <1>7 DEF C!ExportedAsCounted, C!CountsAll, C!SameTimestamp, C!GaugeShowsAnswer,
         C!GaugeShowsDefault
<1> QED
  BY <1>4, <1>6, <1>8, <1>9 DEF CollectorInv

-----------------------------------------------------------------------------
(* One window.  For the series of the answer, and the appended ones.       *)

Answered(records) ==
  /\ DOMAIN records \in SUBSET C!Series
  /\ \A s \in DOMAIN records : records[s] \in Nat /\ (C!Labelled => records[s] > 0)

LEMMA AnswersFact ==
  ASSUME NEW records \in C!Answers
  PROVE  Answered(records)
<1>1. PICK seen \in SUBSET C!Series : records \in [seen -> (IF C!Labelled THEN 1 ELSE 0)..MaxCount]
  BY DEF C!Answers
<1> QED
  BY <1>1 DEF Answered

(* What the collectors do with the value of a counter or a histogram.      *)
Gain(s, records, counted) == IF s \in counted THEN records[s] ELSE 0

Collects(records, counted, appended) ==
  /\ counted \subseteq DOMAIN records \ C!Refused /\ appended \subseteq C!Missing(records) \ C!Refused
  /\ DOMAIN records \cap C!Refused = {} => counted = DOMAIN records
  /\ (DOMAIN records \cup C!Missing(records)) \cap C!Refused = {} => appended = C!Missing(records)
  /\ exported' =
       [s \in DOMAIN exported \cup counted \cup appended |->
         [value |-> C!Exported(s, records, counted, appended),
          stamp |-> IF s \notin counted \cup appended THEN exported[s].stamp
                    ELSE IF C!Timestamps THEN windows + 1 ELSE 0]]
  /\ state' = state \cup {C!SeenKey(s) : s \in DOMAIN records}
  /\ answer' = records /\ windows' = windows + 1 /\ metric' = metric
  /\ total' = [s \in C!Series |-> total[s] + (IF s \in DOMAIN records THEN records[s] ELSE 0)]

LEMMA WindowFact ==
  ASSUME NEW records, C!Window(records)
  PROVE  \E counted, appended : Collects(records, counted, appended)
BY DEF C!Window, C!Update, Collects, C!Remember

LEMMA MissingFact ==
  ASSUME CollectorInv, NEW records, Answered(records)
  PROVE  /\ C!Missing(records) \subseteq C!Series
         /\ \A s \in C!Missing(records) : s \in C!Early \/ C!SeenKey(s) \in state
         /\ C!Type = "gauge" \/ C!Timestamps =>
              /\ \A s \in C!Early : s \in DOMAIN records \/ s \in C!Missing(records)
              /\ \A s : C!SeenKey(s) \in state => s \in DOMAIN records \/ s \in C!Missing(records)
<1>1. /\ C!Early \subseteq C!Series
      /\ state \subseteq {C!ExpectedKey(s) : s \in C!Early} \cup {C!SeenKey(s) : s \in C!Series}
      /\ \A s \in C!Early : C!ExpectedKey(s) \in state
  BY EarlyFact DEF CollectorInv, CollectorTypes, Known
<1>2. \A s : C!SeenKey(s)[2] = s /\ C!ExpectedKey(s)[2] = s
  BY KeyFact DEF CollectorInv
<1>3. \A k \in state : /\ k[2] \in C!Series
                       /\ k[2] \in C!Early \/ C!SeenKey(k[2]) \in state
  BY <1>1, <1>2
<1>4. ASSUME NEW k \in state, NEW s, k[2] = s, s \notin DOMAIN records
      PROVE  k \in state \ {C!SeenKey(t) : t \in DOMAIN records}
  BY <1>2, <1>4
<1>5. ASSUME C!Type = "gauge" \/ C!Timestamps, NEW k \in state, k[2] \notin DOMAIN records
      PROVE  k[2] \in C!Missing(records)
  BY <1>4, <1>5 DEF C!Missing
<1>6. C!Missing(records) \subseteq {k[2] : k \in state}
  BY DEF C!Missing
<1>7. /\ C!Missing(records) \subseteq C!Series
      /\ \A s \in C!Missing(records) : s \in C!Early \/ C!SeenKey(s) \in state
  BY <1>3, <1>6
<1> QED
  BY <1>1, <1>2, <1>5, <1>7

LEMMA StepTypes ==
  ASSUME CollectorInv, NEW records, Answered(records), NEW counted, NEW appended,
         Collects(records, counted, appended)
  PROVE  Configured(metric)' /\ CollectorTypes' /\ Known'
<1>1. /\ C!Early' = C!Early /\ C!Series' = C!Series /\ C!Labelled' = C!Labelled
      /\ \A s : C!SeenKey(s)' = C!SeenKey(s) /\ C!ExpectedKey(s)' = C!ExpectedKey(s)
  BY DEF Collects, C!Early, C!Series, C!Labelled, C!Expected, C!SeenKey, C!ExpectedKey
<1>2. Configured(metric)'
  BY DEF Collects, CollectorInv
<1>3. DOMAIN records \subseteq C!Series /\ \A s \in DOMAIN records : records[s] \in Nat
  BY DEF Answered
<1>4. windows' \in Nat /\ total' \in [C!Series -> Nat]
  BY <1>3 DEF CollectorInv, CollectorTypes, Collects
<1>5. /\ state' = state \cup {C!SeenKey(s) : s \in DOMAIN records}
      /\ DOMAIN exported' = DOMAIN exported \cup counted \cup appended
      /\ counted \subseteq DOMAIN records /\ appended \subseteq C!Missing(records)
      /\ answer' = records
  BY DEF Collects
<1>6. CollectorTypes'
  BY <1>1, <1>3, <1>4, <1>5, MissingFact DEF CollectorInv, CollectorTypes
<1>7. ASSUME NEW s \in C!Series, total'[s] > 0
      PROVE  C!SeenKey(s) \in state'
  <2>1. CASE s \in DOMAIN records
    BY <1>5, <2>1
  <2>2. CASE s \notin DOMAIN records
    <3>1. total'[s] = total[s] + 0 /\ total[s] \in Nat
      BY <2>2 DEF Collects, CollectorInv, CollectorTypes
    <3>2. total[s] > 0
      BY <1>7, <3>1
    <3> QED
      BY <1>5, <3>2 DEF CollectorInv, Known
  <2> QED
    BY <2>1, <2>2
<1>8. \A s \in DOMAIN exported' : s \in C!Early \/ C!SeenKey(s) \in state'
  BY <1>5, MissingFact DEF CollectorInv, Known
<1>9. Known'
  BY <1>1, <1>5, <1>7, <1>8 DEF CollectorInv, Known
<1> QED
  BY <1>2, <1>6, <1>9

(* What the step does to the value of a counter or a histogram.            *)
LEMMA StepValue ==
  ASSUME CollectorInv, C!Type # "gauge", NEW records, Answered(records), NEW counted, NEW appended,
         Collects(records, counted, appended), NEW s \in DOMAIN exported'
  PROVE  /\ s \in C!Series
         /\ exported'[s].value = C!Plus(C!Old(s), C!Number(Gain(s, records, counted)))
         /\ Gain(s, records, counted) \in Nat
         /\ total'[s] >= total[s] + Gain(s, records, counted)
         /\ C!Refused = {} => total'[s] = total[s] + Gain(s, records, counted)
<1>1. /\ s \in DOMAIN exported \cup counted \cup appended
      /\ exported'[s].value = C!Exported(s, records, counted, appended)
  BY DEF Collects
<1>2. /\ counted \subseteq DOMAIN records /\ appended \subseteq C!Missing(records)
      /\ C!Refused = {} => counted = DOMAIN records
  BY DEF Collects
<1>3. /\ DOMAIN exported \subseteq C!Series /\ DOMAIN records \subseteq C!Series
      /\ C!Missing(records) \subseteq C!Series
      /\ \A t \in DOMAIN records : records[t] \in Nat
  BY MissingFact DEF CollectorInv, CollectorTypes, Answered
<1>4. s \in C!Series
  BY <1>1, <1>2, <1>3
<1>5. exported'[s].value = C!Plus(C!Old(s), C!Number(Gain(s, records, counted)))
  BY <1>1 DEF C!Exported, C!Add, Gain
<1>6. /\ total[s] \in Nat
      /\ total'[s] = total[s] + (IF s \in DOMAIN records THEN records[s] ELSE 0)
  BY <1>4 DEF CollectorInv, CollectorTypes, Collects
<1>7. Gain(s, records, counted) \in Nat
  BY <1>2, <1>3 DEF Gain
<1>8. /\ total'[s] >= total[s] + Gain(s, records, counted)
      /\ C!Refused = {} => total'[s] = total[s] + Gain(s, records, counted)
  BY <1>2, <1>3, <1>6 DEF Gain
<1> QED
  BY <1>4, <1>5, <1>7, <1>8

(* Numbers of series, before the window: what is not exported is 0.        *)
LEMMA OldFact ==
  ASSUME CollectorInv, C!Type # "gauge", NEW s \in C!Series
  PROVE  /\ total[s] \in Nat
         /\ \/ C!Start(s) = C!NaN /\ C!Old(s) = C!NaN
            \/ \E m, n \in Int : C!Start(s) = C!Number(m) /\ C!Old(s) = C!Number(n) /\ n <= m + total[s]
<1>1. total[s] \in Nat
  BY DEF CollectorInv, CollectorTypes
<1>2. CASE s \in DOMAIN exported
  <2>1. C!Old(s) = exported[s].value
    BY <1>2 DEF C!Old
  <2>2. CASE C!Start(s) = C!NaN /\ exported[s].value = C!NaN
    BY <1>1, <2>1, <2>2
  <2>3. CASE /\ ~C!Start(s).nan /\ C!Start(s).n \in Int
             /\ \E n \in Int : exported[s].value = C!Number(n) /\ n <= C!Start(s).n + total[s]
    <3>1. PICK m \in Int : C!Start(s) = C!Number(m)
      BY <2>3, StartFact, PlusFact DEF CollectorInv
    <3>2. C!Start(s).n = m
      BY <3>1, PlusFact
    <3> QED
      BY <1>1, <2>1, <2>3, <3>1, <3>2
  <2> QED
    BY <1>2, <2>2, <2>3 DEF CollectorInv, NotAhead
<1>3. CASE s \notin DOMAIN exported
  <2>1. C!Old(s) = C!Number(0) /\ C!Start(s) = C!Number(0) /\ 0 <= 0 + total[s]
    BY <1>1, <1>3 DEF C!Old, CollectorInv, Started
  <2> QED
    BY <1>1, <2>1
<1> QED
  BY <1>2, <1>3

LEMMA StepCounts ==
  ASSUME CollectorInv, NEW records, Answered(records), NEW counted, NEW appended,
         Collects(records, counted, appended)
  PROVE  Started' /\ NotAhead'
<1>1. /\ C!Type' = C!Type /\ C!Series' = C!Series /\ \A s : C!Start(s)' = C!Start(s)
      /\ DOMAIN exported \subseteq DOMAIN exported'
  BY DEF Collects, C!Type, C!Series, C!Start, C!Early, C!InitValue, C!Labelled, C!Expected
<1>2. Started'
  BY <1>1 DEF CollectorInv, Started
<1>3. NotAhead'
  <2> SUFFICES ASSUME C!Type # "gauge", NEW s \in DOMAIN exported'
               PROVE  \/ C!Start(s) = C!NaN /\ exported'[s].value = C!NaN
                      \/ /\ ~C!Start(s).nan /\ C!Start(s).n \in Int
                         /\ \E n \in Int : exported'[s].value = C!Number(n) /\ n <= C!Start(s).n + total'[s]
    BY <1>1 DEF NotAhead
  <2> DEFINE g == Gain(s, records, counted)
  <2>1. /\ s \in C!Series /\ exported'[s].value = C!Plus(C!Old(s), C!Number(g)) /\ g \in Nat
        /\ total'[s] >= total[s] + g
    BY StepValue
  <2>2. total'[s] \in Nat
    BY <2>1, StepTypes DEF CollectorTypes, Collects, C!Series
  <2> HIDE DEF g
  <2>3. CASE C!Start(s) = C!NaN /\ C!Old(s) = C!NaN
    BY <2>1, <2>3, PlusFact
  <2>4. ASSUME NEW m \in Int, NEW n \in Int, C!Start(s) = C!Number(m),
               C!Old(s) = C!Number(n), n <= m + total[s]
        PROVE  /\ ~C!Start(s).nan /\ C!Start(s).n \in Int
               /\ \E k \in Int : exported'[s].value = C!Number(k) /\ k <= C!Start(s).n + total'[s]
    <3>1. ~C!Start(s).nan /\ C!Start(s).n = m
      BY <2>4, PlusFact
    <3>2. exported'[s].value = C!Number(n + g)
      BY <2>1, <2>4, PlusFact
    <3>3. total[s] \in Nat
      BY <2>1, OldFact
    <3>4. n + g \in Int /\ n + g <= m + total'[s]
      BY <2>1, <2>2, <2>4, <3>3
    <3> QED
      BY <3>1, <3>2, <3>4
  <2> QED
    BY <2>1, <2>3, <2>4, OldFact
<1> QED
  BY <1>2, <1>3

LEMMA CollectorStepInv == CollectorInv /\ [C!Next]_C!vars => CollectorInv'
<1> SUFFICES ASSUME CollectorInv, [C!Next]_C!vars PROVE CollectorInv'
  OBVIOUS
<1>1. CASE C!Next
  <2>1. PICK records \in C!Answers : C!Window(records)
    BY <1>1 DEF C!Next
  <2>2. PICK counted, appended : Collects(records, counted, appended)
    BY <2>1, WindowFact
  <2> QED
    BY <2>2, AnswersFact, StepTypes, StepCounts DEF CollectorInv
<1>2. CASE UNCHANGED C!vars
  <2>1. /\ C!Early' = C!Early /\ C!Series' = C!Series /\ C!Type' = C!Type
        /\ \A s : C!Start(s)' = C!Start(s)
        /\ \A s : C!SeenKey(s)' = C!SeenKey(s) /\ C!ExpectedKey(s)' = C!ExpectedKey(s)
    BY <1>2
       DEF C!vars, C!Early, C!Series, C!Type, C!Labelled, C!Expected, C!Start, C!InitValue,
           C!SeenKey, C!ExpectedKey
  <2>2. UNCHANGED <<metric, windows, total, state, exported, answer>>
    BY <1>2 DEF C!vars
  <2>3. Configured(metric)' /\ CollectorTypes' /\ Known'
    BY <2>1, <2>2 DEF CollectorInv, CollectorTypes, Known
  <2>4. Started' /\ NotAhead'
    BY <2>1, <2>2 DEF CollectorInv, Started, NotAhead
  <2> QED
    BY <2>3, <2>4 DEF CollectorInv
<1> QED
  BY <1>1, <1>2

-----------------------------------------------------------------------------
(* The four promises, while no series is refused.                          *)
LEMMA StepCountsAll ==
  ASSUME CollectorInv, C!Refused = {}, C!CountsAll, NEW records, Answered(records), NEW counted, NEW appended,
         Collects(records, counted, appended)
  PROVE  C!CountsAll'
<1>1. /\ C!Type' = C!Type /\ C!Series' = C!Series /\ \A s : C!Start(s)' = C!Start(s)
  BY DEF Collects, C!Type, C!Series, C!Start, C!Early, C!InitValue, C!Labelled, C!Expected
<1> SUFFICES ASSUME C!Type # "gauge", NEW s \in C!Series
             PROVE  /\ s \in DOMAIN exported' =>
                         exported'[s].value = C!Plus(C!Start(s), C!Number(total'[s]))
                    /\ total'[s] > 0 => s \in DOMAIN exported'
  BY <1>1 DEF C!CountsAll
<1> DEFINE g == Gain(s, records, counted)
<1>2. /\ s \in DOMAIN exported => exported[s].value = C!Plus(C!Start(s), C!Number(total[s]))
      /\ total[s] > 0 => s \in DOMAIN exported
  BY DEF C!CountsAll
<1>3. total[s] \in Nat
  BY OldFact
<1>4. C!Old(s) = C!Plus(C!Start(s), C!Number(total[s]))
  <2>1. CASE s \in DOMAIN exported
    BY <1>2, <2>1 DEF C!Old
  <2>2. CASE s \notin DOMAIN exported
    <3>1. total[s] = 0 /\ C!Start(s) = C!Number(0) /\ C!Old(s) = C!Number(0)
      BY <1>2, <1>3, <2>2 DEF CollectorInv, Started, C!Old
    <3> QED
      BY <3>1 DEF C!Plus, C!Number
  <2> QED
    BY <2>1, <2>2
<1>5. ASSUME s \in DOMAIN exported'
      PROVE  exported'[s].value = C!Plus(C!Start(s), C!Number(total'[s]))
  <2>1. /\ exported'[s].value = C!Plus(C!Old(s), C!Number(g)) /\ g \in Nat
        /\ total'[s] = total[s] + g
    BY <1>5, StepValue
  <2> HIDE DEF g
  <2>2. CASE C!Start(s) = C!NaN
    BY <1>4, <2>1, <2>2, NumberPlus
  <2>3. ASSUME NEW n \in Int, C!Start(s) = C!Number(n)
        PROVE  exported'[s].value = C!Plus(C!Start(s), C!Number(total'[s]))
    <3>1. C!Old(s) = C!Number(n + total[s])
      BY <1>4, <2>3, NumberPlus
    <3>2. exported'[s].value = C!Number(n + total[s] + g)
      BY <2>1, <3>1, NumberPlus
    <3>3. C!Plus(C!Start(s), C!Number(total'[s])) = C!Number(n + (total[s] + g))
      BY <2>1, <2>3, NumberPlus
    <3>4. n + total[s] + g = n + (total[s] + g)
      BY <1>3, <2>1
    <3> QED
      BY <3>2, <3>3, <3>4
  <2> QED
    BY <2>2, <2>3, StartFact DEF CollectorInv
<1>6. ASSUME total'[s] > 0
      PROVE  s \in DOMAIN exported'
  <2>1. total'[s] = total[s] + (IF s \in DOMAIN records THEN records[s] ELSE 0)
    BY DEF Collects
  <2>2. CASE s \in DOMAIN records
    BY <2>2 DEF Collects
  <2>3. CASE s \notin DOMAIN records
    BY <1>2, <1>3, <1>6, <2>1, <2>3 DEF Collects
  <2> QED
    BY <2>2, <2>3
<1> QED
  BY <1>5, <1>6

LEMMA StepStamps ==
  ASSUME CollectorInv, C!Refused = {}, NEW records, Answered(records), NEW counted, NEW appended,
         Collects(records, counted, appended)
  PROVE  C!SameTimestamp'
<1>1. C!Timestamps' = C!Timestamps
  BY DEF Collects, C!Timestamps
<1> SUFFICES ASSUME C!Timestamps, NEW s \in DOMAIN exported'
             PROVE  exported'[s].stamp = windows'
  BY <1>1 DEF C!SameTimestamp
<1>2. /\ counted = DOMAIN records /\ appended = C!Missing(records)
      /\ s \in DOMAIN exported \cup counted \cup appended
  BY DEF Collects
<1>3. s \in counted \cup appended
  BY <1>2, MissingFact DEF CollectorInv, Known
<1> QED
  BY <1>3 DEF Collects

(* A gauge without expected series has one key for each of them.           *)
LEMMA StepGauge ==
  ASSUME CollectorInv, C!Refused = {}, GaugeExpectsNone(metric), NEW records, Answered(records),
         NEW counted, NEW appended, Collects(records, counted, appended)
  PROVE  C!GaugeShowsAnswer' /\ C!GaugeShowsDefault'
<1>1. /\ C!Type' = C!Type /\ C!Series' = C!Series /\ C!Early' = C!Early /\ C!Default' = C!Default
  BY DEF Collects, C!Type, C!Series, C!Early, C!Labelled, C!Expected, C!Default, C!DefaultValue
<1> SUFFICES ASSUME C!Type = "gauge"
             PROVE  C!GaugeShowsAnswer' /\ C!GaugeShowsDefault'
  BY <1>1 DEF C!GaugeShowsAnswer, C!GaugeShowsDefault
<1>2. /\ counted = DOMAIN records /\ appended = C!Missing(records) /\ answer' = records
      /\ DOMAIN exported' = DOMAIN exported \cup counted \cup appended
      /\ \A s \in DOMAIN exported' : exported'[s].value = C!Exported(s, records, counted, appended)
  BY DEF Collects
<1>3. \A s \in C!Early : C!ExpectedKey(s) = C!SeenKey(s)
  BY KeyFact DEF CollectorInv, GaugeExpectsNone, C!Early, C!Type, C!Labelled, C!Expected
<1>4. \A k \in state : k = C!SeenKey(k[2])
  <2>1. state \subseteq {C!ExpectedKey(s) : s \in C!Early} \cup {C!SeenKey(s) : s \in C!Series}
    BY DEF CollectorInv, CollectorTypes
  <2>2. \A s : C!SeenKey(s)[2] = s
    BY KeyFact DEF CollectorInv
  <2> QED
    BY <1>3, <2>1, <2>2
<1>5. ASSUME NEW s \in DOMAIN records
      PROVE  s \notin C!Missing(records)
  <2>1. C!Missing(records) = {k[2] : k \in state \ {C!SeenKey(t) : t \in DOMAIN records}}
    BY DEF C!Missing
  <2> SUFFICES ASSUME NEW k \in state \ {C!SeenKey(t) : t \in DOMAIN records}, k[2] = s PROVE FALSE
    BY <2>1
  <2> QED
    BY <1>4
<1>6. C!GaugeShowsAnswer'
  BY <1>1, <1>2, <1>5 DEF C!GaugeShowsAnswer, C!Exported
<1>7. ASSUME NEW s, s \in C!Early \/ (s \in C!Series /\ total'[s] > 0), s \notin DOMAIN records
      PROVE  s \in DOMAIN exported' /\ exported'[s].value = C!Default
  <2>1. s \in C!Early \/ C!SeenKey(s) \in state
    <3>1. CASE s \in C!Series /\ total'[s] > 0
      <4>1. total'[s] = total[s] + 0 /\ total[s] \in Nat
        BY <1>7, <3>1 DEF Collects, CollectorInv, CollectorTypes
      <4> QED
        BY <3>1, <4>1 DEF CollectorInv, Known
    <3> QED
      BY <1>7, <3>1
  <2>2. s \in appended
    BY <1>2, <1>7, <2>1, MissingFact
  <2> QED
    BY <1>2, <2>2 DEF C!Exported
<1>8. C!GaugeShowsDefault'
  BY <1>1, <1>2, <1>7 DEF C!GaugeShowsDefault
<1> QED
  BY <1>6, <1>8

AllConfigured == \A d \in Definitions : Configured(d)

LEMMA DefinitionsStay == C!Spec => [](metric \in Definitions)
<1>1. C!Init => metric \in Definitions
  BY DEF C!Init
<1>2. metric \in Definitions /\ [C!Next]_C!vars => (metric \in Definitions)'
  BY DEF C!Next, C!Window, C!vars
<1> QED
  BY <1>1, <1>2, PTL DEF C!Spec

LEMMA CollectorInvHolds == AllConfigured => (C!Spec => []CollectorInv)
<1> SUFFICES ASSUME AllConfigured PROVE C!Spec => []CollectorInv
  OBVIOUS
<1>1. C!Init => CollectorInv
  BY CollectorInitInv DEF C!Init, AllConfigured
<1> QED
  BY <1>1, CollectorStepInv, PTL DEF C!Spec

LEMMA StepExported ==
  ASSUME CollectorInv, GaugeExpectsNone(metric), C!ExportedAsCounted, [C!Next]_C!vars
  PROVE  C!ExportedAsCounted'
<1>1. CASE C!Next
  <2>1. PICK records \in C!Answers : C!Window(records)
    BY <1>1 DEF C!Next
  <2>2. PICK counted, appended : Collects(records, counted, appended)
    BY <2>1, WindowFact
  <2>3. C!Refused' = C!Refused
    BY <2>2 DEF Collects, C!Refused
  <2>4. Answered(records)
    BY <2>1, AnswersFact
  <2> QED
    BY <2>2, <2>3, <2>4, StepCountsAll, StepStamps, StepGauge DEF C!ExportedAsCounted
<1>2. CASE UNCHANGED C!vars
  BY <1>2 DEF C!vars, C!ExportedAsCounted, C!CountsAll, C!SameTimestamp, C!GaugeShowsAnswer,
         C!GaugeShowsDefault, C!Refused, C!Type, C!Series, C!Start, C!Early, C!InitValue,
         C!Labelled, C!Expected, C!Timestamps, C!Default, C!DefaultValue
<1> QED
  BY <1>1, <1>2

(* For any metrics, series and windows, if the client library takes all    *)
(* label values: counters and histograms have every record of every        *)
(* window, all series carry the end of the last window, and a gauge        *)
(* without expected labels shows the answer or its default (evaluator.go,  *)
(* collectors/).                                                           *)
THEOREM EveryRecordExported ==
  AllConfigured /\ (\A d \in Definitions : GaugeExpectsNone(d)) => (C!Spec => []ExportedAsCounted)
<1> SUFFICES ASSUME AllConfigured, \A d \in Definitions : GaugeExpectsNone(d)
             PROVE  C!Spec => []ExportedAsCounted
  OBVIOUS
<1>1. C!Init => C!ExportedAsCounted
  BY CollectorInitInv DEF C!Init, AllConfigured
<1>2. metric \in Definitions => GaugeExpectsNone(metric)
  OBVIOUS
<1>3. CollectorInv /\ metric \in Definitions /\ C!ExportedAsCounted /\ [C!Next]_C!vars
      => C!ExportedAsCounted'
  BY <1>2, StepExported
<1> QED
  BY <1>1, <1>3, CollectorInvHolds, DefinitionsStay, PTL DEF C!Spec, ExportedAsCounted

LEMMA StepNeverBack ==
  ASSUME CollectorInv, C!Next, C!Type # "gauge"
  PROVE  /\ \A s \in DOMAIN exported :
              s \in DOMAIN exported' /\ exported'[s].value.n >= exported[s].value.n
         /\ \A s \in DOMAIN exported' : exported'[s].value.n <= C!Start(s).n + total'[s]
<1>1. PICK records \in C!Answers : C!Window(records)
  BY DEF C!Next
<1>2. PICK counted, appended : Collects(records, counted, appended)
  BY <1>1, WindowFact
<1>3. Answered(records)
  BY <1>1, AnswersFact
<1>4. ASSUME NEW s \in DOMAIN exported'
      PROVE  /\ s \in DOMAIN exported => exported'[s].value.n >= exported[s].value.n
             /\ exported'[s].value.n <= C!Start(s).n + total'[s]
  <2> DEFINE g == Gain(s, records, counted)
  <2>1. /\ s \in C!Series /\ exported'[s].value = C!Plus(C!Old(s), C!Number(g)) /\ g \in Nat
        /\ total'[s] >= total[s] + g
    BY <1>2, <1>3, <1>4, StepValue
  <2>2. total'[s] \in Nat /\ total[s] \in Nat
    BY <1>2, <1>3, <2>1, StepTypes, OldFact DEF CollectorTypes, Collects, C!Series
  <2>3. s \in DOMAIN exported => C!Old(s) = exported[s].value
    BY DEF C!Old
  <2> HIDE DEF g
  <2>4. CASE C!Start(s) = C!NaN /\ C!Old(s) = C!NaN
    <3>1. exported'[s].value = C!NaN /\ C!NaN.n = 0
      BY <2>1, <2>4, NumberPlus DEF C!NaN
    <3> QED
      BY <2>2, <2>3, <2>4, <3>1
  <2>5. ASSUME NEW m \in Int, NEW n \in Int, C!Start(s) = C!Number(m),
               C!Old(s) = C!Number(n), n <= m + total[s]
        PROVE  /\ s \in DOMAIN exported => exported'[s].value.n >= exported[s].value.n
               /\ exported'[s].value.n <= C!Start(s).n + total'[s]
    <3>1. exported'[s].value = C!Number(n + g)
      BY <2>1, <2>5, NumberPlus
    <3>2. exported'[s].value.n = n + g /\ C!Start(s).n = m /\ C!Old(s).n = n
      BY <2>5, <3>1 DEF C!Number
    <3>3. n + g >= n /\ n + g <= m + total'[s]
      BY <2>1, <2>2, <2>5
    <3> QED
      BY <2>3, <3>2, <3>3
  <2> QED
    BY <2>1, <2>4, <2>5, OldFact
<1>5. DOMAIN exported \subseteq DOMAIN exported'
  BY <1>2 DEF Collects
<1> QED
  BY <1>4, <1>5

(* Also if updates panic over a refused series: no counter goes back, and  *)
(* no record counts twice (metricsevaluator.updateMetrics).                *)
THEOREM NeverTwiceNorBack == AllConfigured => (C!Spec => NeverAheadNorBack)
<1> SUFFICES ASSUME AllConfigured PROVE C!Spec => NeverAheadNorBack
  OBVIOUS
<1>1. CollectorInv /\ [C!Next]_C!vars =>
        [C!Type # "gauge" =>
           /\ \A s \in DOMAIN exported :
                s \in DOMAIN exported' /\ exported'[s].value.n >= exported[s].value.n
           /\ \A s \in DOMAIN exported' : exported'[s].value.n <= C!Start(s).n + total'[s]]_C!vars
  BY StepNeverBack
<1> QED
  BY <1>1, CollectorInvHolds, PTL DEF C!Spec, NeverAheadNorBack, C!NeverAheadNorBack
=============================================================================
