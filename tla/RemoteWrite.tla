---------------------------- MODULE RemoteWrite ----------------------------
(***************************************************************************)
(* The conversion of gathered metrics into remote-write samples.  All push *)
(* goroutines share one service.  A conversion puts the time into a field  *)
(* of the service and then reads that field for every series without a     *)
(* time of its own (with disable-timestamp all of them, otherwise those of *)
(* the Go runtime in the self metrics), while other goroutines put theirs  *)
(* there.  A retry converts again, with a new time.                        *)
(***************************************************************************)
EXTENDS Integers, SequencesExt

CONSTANTS
  Pushers,     \* the push goroutines: of the queries and of the self metrics
  Metrics,     \* per pusher the metrics of its copy, in order
  PushRetry,   \* general.push-retry
  MaxTime      \* bound: the clock stops here

ASSUME ConfigurationAssumption ==
  /\ Metrics \in [Pushers -> Seq([kind : {"plain", "summary", "histogram"},
                                  inf : BOOLEAN, stamped : BOOLEAN])]
  /\ PushRetry \in BOOLEAN
  /\ MaxTime \in Nat \ {0}

VARIABLES
  now,         \* the clock
  timeMillis,  \* the field of the service
  push         \* per pusher: its step, the clock it read, the samples so far,
               \* and a ghost: the oldest clock under way when it began

vars == <<now, timeMillis, push>>

(* A metric with a time has the one of its window, before all pushes.      *)
WindowTime == 0

-----------------------------------------------------------------------------
(* The buckets of a histogram may have been configured with +Inf.          *)
OwnBuckets(m) == IF m.inf THEN <<"bucket", "bucket +Inf">> ELSE <<"bucket">>

BucketOnTop(m) == IF Contains(OwnBuckets(m), "bucket +Inf") THEN <<>> ELSE <<"bucket +Inf">>

SeriesOf(m) ==
  CASE m.kind = "plain" -> <<"value">>
    [] m.kind = "summary" -> <<"quantile", "sum", "count">>
    [] OTHER -> OwnBuckets(m) \o BucketOnTop(m) \o <<"sum", "count">>

(* What the conversion goes through: every series, in order.               *)
Series(p) ==
  FlattenSeq([i \in 1..Len(Metrics[p]) |->
    [k \in 1..Len(SeriesOf(Metrics[p][i])) |->
      [metric |-> i, name |-> SeriesOf(Metrics[p][i])[k], stamped |-> Metrics[p][i].stamped]]])

-----------------------------------------------------------------------------
Begun == [pc |-> "begin", clock |-> 0, floor |-> 0, samples |-> <<>>]

Init ==
  /\ now = 1
  /\ timeMillis = 0
  /\ push = [p \in Pushers |-> Begun]

Tick ==
  /\ now < MaxTime
  /\ now' = now + 1
  /\ UNCHANGED <<timeMillis, push>>

(* The time is read here and stored in the next step: others come between. *)
ReadClock(p) ==
  /\ push[p].pc = "begin"
  /\ LET underWay == {now} \cup {push[q].clock : q \in {r \in Pushers : push[r].pc = "store"}}
     IN \E oldest \in underWay :
          /\ \A c \in underWay : oldest <= c
          /\ push' = [push EXCEPT ![p] =
               [pc |-> "store", clock |-> now, floor |-> oldest, samples |-> <<>>]]
  /\ UNCHANGED <<now, timeMillis>>

StoreClock(p) ==
  /\ push[p].pc = "store"
  /\ timeMillis' = push[p].clock
  /\ push' = [push EXCEPT ![p].pc = "convert"]
  /\ UNCHANGED now

(* Mutant: every sample gets the shared time.                              *)
SharedTime(s) == timeMillis

SampleTime(s) == IF s.stamped THEN WindowTime ELSE timeMillis

Convert(p) ==
  /\ push[p].pc = "convert"
  /\ LET next == Len(push[p].samples) + 1
         s == Series(p)[next]
     IN /\ next <= Len(Series(p))
        /\ push' = [push EXCEPT ![p].samples =
             Append(@, [metric |-> s.metric, name |-> s.name, stamped |-> s.stamped,
                        time |-> SampleTime(s)])]
  /\ UNCHANGED <<now, timeMillis>>

Converted(p) ==
  /\ push[p].pc = "convert"
  /\ Len(push[p].samples) = Len(Series(p))
  /\ push' = [push EXCEPT ![p].pc = "send"]
  /\ UNCHANGED <<now, timeMillis>>

(* Accepted, or given up: the goroutine takes its next copy.               *)
Sent(p) ==
  /\ push[p].pc = "send"
  /\ push' = [push EXCEPT ![p] = Begun]
  /\ UNCHANGED <<now, timeMillis>>

(* Refused, or without an answer: the same copy again.                     *)
Again(p) ==
  /\ push[p].pc = "send"
  /\ PushRetry
  /\ push' = [push EXCEPT ![p].pc = "begin"]
  /\ UNCHANGED <<now, timeMillis>>

Next ==
  \/ Tick
  \/ \E p \in Pushers :
       \/ ReadClock(p) \/ StoreClock(p)
       \/ Convert(p) \/ Converted(p)
       \/ Sent(p) \/ Again(p)

Spec == Init /\ [][Next]_vars

-----------------------------------------------------------------------------
(* A sample has the time of its metric, or one that is not older than the  *)
(* oldest clock still to be stored when its conversion began: the field    *)
(* shared by all goroutines hands over times of others, but no stale ones. *)
TimesFitConversion ==
  \A p \in Pushers : \A s \in ToSet(push[p].samples) :
    IF s.stamped THEN s.time = WindowTime ELSE push[p].floor <= s.time
=============================================================================
