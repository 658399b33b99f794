------------------------------ MODULE Recovery ------------------------------
(***************************************************************************)
(* Crash and restart of one query.  The exporter keeps nothing on disk:    *)
(* after a start the query's scheduling goroutine asks the monitoring      *)
(* system for the timestamp of the last sample it has, derives the windows *)
(* missed since (the history), sends them to the GTS queue and only then   *)
(* registers the cron job of the query.  The cron itself is started by the *)
(* main goroutine, which runs besides.                                     *)
(*                                                                         *)
(* Time is counted in small units; the cron ticks at the multiples of      *)
(* Interval.  A window is the start of its time range: the job of tick t   *)
(* asks for Start(t) up to Start(t) + Timerange, and the samples evaluated *)
(* from it carry its end.  The stages behind the GTS queue (Pipeline) are  *)
(* abstracted to one sequence with a capacity.                             *)
(***************************************************************************)
EXTENDS Integers, Sequences, FiniteSets

CONSTANTS
  Interval,       \* period of the cron expression, and interval of the query
  Timerange,      \* length of a window
  Lag,            \* query_lag
  MaxLookup,      \* max-history-lookup
  QueueSize,      \* capacity of the GTS channel
  StageSize,      \* windows the stages behind it hold
  RetryCounts,    \* values of general.last-timestamp-retry-count
  MaxTime,        \* bound: the clock stops here
  MaxCrashes      \* bound: signals and crashes

ASSUME RangeAssumption ==
  /\ Interval \in Nat \ {0}
  /\ Timerange \in Nat
  /\ Lag \in Nat
  /\ MaxLookup \in Nat \ {0}
  /\ QueueSize \in Nat
  /\ StageSize \in Nat
  /\ RetryCounts \subseteq Nat

ASSUME LimitsAssumption == MaxTime \in Nat /\ MaxCrashes \in Nat

VARIABLES
  ltsRetryCount, \* general.last-timestamp-retry-count
  now,        \* the clock
  boot,       \* scheduling goroutine: "down", "load", "nearest", "send", "done"
  cronOn,     \* main has started the cron
  attempts,   \* requests for the last timestamp
  last,       \* last timestamp in use, NotLoaded if there is none
  next,       \* the cron tick that was next when the history was computed
  todo,       \* history windows still to send
  jobs,       \* windows of the cron jobs that have yet to Put them
  gts,        \* the GTS channel
  stage,      \* windows taken by the stages behind it
  stored,     \* windows whose snapshot was pushed
  samples,    \* those of them that gave the last-timestamp metric a sample
  crashes,
  since,      \* first tick the exporter ever was scheduled for
  cut,        \* windows left out of a history
  unloaded,   \* windows missed while no last timestamp could be loaded
  raced,      \* windows whose tick passed before the job was registered
  overtaken,  \* windows in flight at a crash behind a newer sample
  refused     \* windows dropped: GTS channel full, or given up by a stage

bootVars == <<boot, cronOn, attempts, last, next, todo>>
flowVars == <<jobs, gts, stage>>
dbVars == <<stored, samples>>
goneVars == <<cut, unloaded, raced, overtaken, refused>>
vars == <<ltsRetryCount, now, bootVars, flowVars, dbVars, crashes, since, goneVars>>

NotLoaded == -1
NoTick == -1

Start(t) == t - Lag - Timerange
End(w) == w + Timerange

(* The first tick after time t: the cron entry's Next.                     *)
NearestUpcomingCronTime(t) == (t \div Interval + 1) * Interval

(* The windows on the cron's grid from a to b, b excluded.                 *)
Windows(a, b) ==
  {w \in a..(b - 1) : (w - Start(0)) % Interval = 0}

(* The timestamp of the newest sample in the monitoring system.            *)
LastTimestamp ==
  CHOOSE ts \in {End(w) : w \in samples} : \A w \in samples : End(w) <= ts

Elements(s) == {s[i] : i \in 1..Len(s)}

Init ==
  /\ ltsRetryCount \in RetryCounts
  /\ now = Lag + Timerange
  /\ boot = "down" /\ cronOn = FALSE /\ attempts = 0
  /\ last = NotLoaded /\ next = NoTick /\ todo = <<>>
  /\ jobs = {} /\ gts = <<>> /\ stage = <<>>
  /\ stored = {} /\ samples = {}
  /\ crashes = 0 /\ since = NoTick
  /\ cut = {} /\ unloaded = {} /\ raced = {} /\ overtaken = {} /\ refused = {}

-----------------------------------------------------------------------------
(* Start of the process and its main goroutine.                            *)

StartProcess ==
  /\ boot = "down"
  /\ boot' = "load"
  /\ UNCHANGED <<now, cronOn, attempts, last, next, todo, flowVars, dbVars,
                 crashes, since, goneVars>>

(* The job of the query exists and the cron runs: it fires from now on.    *)
Ready == boot = "done" /\ cronOn

(* What changes when the second of the two happens: ticks that passed      *)
(* since the history was computed are never seen.                          *)
BecomeReady ==
  IF boot' = "done" /\ cronOn'
  THEN /\ raced' = raced \cup Windows(Start(next), Start(now + 1))
       /\ since' = IF since = NoTick THEN now + 1 ELSE since
  ELSE UNCHANGED <<raced, since>>

(* The end of main: croniter.Start().                                      *)
StartCron ==
  /\ boot # "down" /\ ~cronOn
  /\ cronOn' = TRUE
  /\ UNCHANGED boot
  /\ BecomeReady
  /\ UNCHANGED <<now, attempts, last, next, todo, flowVars, dbVars, crashes,
                 cut, unloaded, overtaken, refused>>

-----------------------------------------------------------------------------
(* The scheduling goroutine.                                               *)

KeepAtBoot == UNCHANGED <<now, cronOn, flowVars, dbVars, crashes>>

LoadOk ==
  /\ boot = "load" /\ attempts < ltsRetryCount
  /\ samples # {}
  /\ last' = LastTimestamp
  /\ attempts' = attempts + 1
  /\ boot' = "nearest"
  /\ KeepAtBoot /\ UNCHANGED <<next, todo, since, goneVars>>

(* Start without history: what was missed stays missed.                    *)
SkipHistory ==
  /\ boot' = "send"
  /\ next' = NearestUpcomingCronTime(now)
  /\ unloaded' =
       IF since = NoTick THEN unloaded
       ELSE unloaded \cup (Windows(Start(since), Start(next')) \ stored)

(* The monitoring system has no sample yet: another attempt is not made.   *)
LoadNothing ==
  /\ boot = "load" /\ attempts < ltsRetryCount
  /\ samples = {}
  /\ attempts' = attempts + 1
  /\ SkipHistory
  /\ KeepAtBoot
  /\ UNCHANGED <<last, todo, since, cut, raced, overtaken, refused>>

(* Mutant: an error is retried for ever.                                   *)
LoadErrorForever ==
  /\ boot = "load" /\ attempts < ltsRetryCount
  /\ attempts' = (attempts + 1) % ltsRetryCount
  /\ KeepAtBoot
  /\ UNCHANGED <<boot, next, unloaded, last, todo, since, cut, raced,
                 overtaken, refused>>

(* No connection, an error status, an answer that cannot be read.          *)
LoadError ==
  /\ boot = "load" /\ attempts < ltsRetryCount
  /\ attempts' = attempts + 1
  /\ IF attempts' < ltsRetryCount
     THEN UNCHANGED <<boot, next, unloaded>>
     ELSE SkipHistory
  /\ KeepAtBoot
  /\ UNCHANGED <<last, todo, since, cut, raced, overtaken, refused>>

(* With a retry count of 0 the loop body is never entered: there is no     *)
(* error, and the last timestamp is the zero of Unix time.                 *)
LoadNoAttempt ==
  /\ boot = "load" /\ ltsRetryCount = 0
  /\ last' = 0
  /\ boot' = "nearest"
  /\ KeepAtBoot /\ UNCHANGED <<attempts, next, todo, since, goneVars>>

Smaller(a, b) == IF a <= b THEN a ELSE b

(* Mutant: the end of the history is taken for the start of a window.      *)
HistorySizeNoTimerange(upcoming) ==
  Smaller(Smaller(upcoming - Lag - last, MaxLookup) \div Interval, QueueSize)

(* Mutant: the window before the next tick is not counted.                 *)
HistorySizeOneShort(upcoming) ==
  Smaller(Smaller(Start(upcoming) - last, MaxLookup) \div Interval - 1, QueueSize)

(* The number of windows that fit between the last timestamp and the start *)
(* of the next cron window, limited by the look-back and the queue.        *)
HistorySize(upcoming) ==
  Smaller(Smaller(Start(upcoming) - last, MaxLookup) \div Interval, QueueSize)

(* Mutant: one interval too early.                                         *)
HistoryShifted(upcoming) ==
  [i \in 1..HistorySize(upcoming) |->
     Start(upcoming) - Interval * (HistorySize(upcoming) + 2 - i)]

(* The history, oldest window first, ending just before the next tick's.   *)
History(upcoming) ==
  [i \in 1..HistorySize(upcoming) |->
     Start(upcoming) - Interval * (HistorySize(upcoming) + 1 - i)]

(* Where the history begins.                                               *)
Oldest(upcoming) ==
  IF History(upcoming) = <<>> THEN Start(upcoming) ELSE History(upcoming)[1]

(* getNearestUpcomingCronTime and the computation of the history; a last   *)
(* timestamp in the future means no history.                               *)
ComputeHistory ==
  /\ boot = "nearest"
  /\ next' = NearestUpcomingCronTime(now)
  /\ todo' = IF last > now THEN <<>> ELSE History(next')
  /\ cut' = IF last > now THEN cut
            ELSE cut \cup (Windows(last, Oldest(next')) \ stored)
  /\ boot' = "send"
  /\ KeepAtBoot /\ UNCHANGED <<attempts, last, since, unloaded, raced, overtaken, refused>>

SendHistory ==
  /\ boot = "send" /\ todo # <<>>
  /\ Len(gts) < QueueSize
  /\ gts' = Append(gts, Head(todo))
  /\ todo' = Tail(todo)
  /\ UNCHANGED <<now, boot, cronOn, attempts, last, next, jobs, stage, dbVars,
                 crashes, since, goneVars>>

Register ==
  /\ boot = "send" /\ todo = <<>>
  /\ boot' = "done"
  /\ UNCHANGED cronOn
  /\ BecomeReady
  /\ UNCHANGED <<now, attempts, last, next, todo, flowVars, dbVars, crashes,
                 cut, unloaded, overtaken, refused>>

-----------------------------------------------------------------------------
(* The cron and the pipeline behind it.                                    *)

Tick ==
  /\ now < MaxTime
  /\ now' = now + 1
  /\ jobs' = IF Ready /\ now' % Interval = 0 THEN jobs \cup {Start(now')} ELSE jobs
  /\ UNCHANGED <<bootVars, gts, stage, dbVars, crashes, since, goneVars>>

Put(w) ==
  /\ w \in jobs
  /\ jobs' = jobs \ {w}
  /\ IF Len(gts) < QueueSize
     THEN gts' = Append(gts, w) /\ UNCHANGED refused
     ELSE refused' = refused \cup {w} /\ UNCHANGED gts
  /\ UNCHANGED <<now, bootVars, stage, dbVars, crashes, since, cut, unloaded,
                 raced, overtaken>>

Take ==
  /\ gts # <<>> /\ Len(stage) < StageSize
  /\ stage' = Append(stage, Head(gts))
  /\ gts' = Tail(gts)
  /\ UNCHANGED <<now, bootVars, jobs, dbVars, crashes, since, goneVars>>

(* The snapshot of a window is pushed.  If no record of the window changed *)
(* the last-timestamp metric, its series keep their older timestamp.       *)
Deliver ==
  /\ stage # <<>>
  /\ stage' = Tail(stage)
  /\ stored' = stored \cup {Head(stage)}
  /\ \/ samples' = samples \cup {Head(stage)}
     \/ UNCHANGED samples
  /\ UNCHANGED <<now, bootVars, jobs, gts, crashes, since, goneVars>>

(* A stage gives its window up (Pipeline names the reasons).               *)
GiveUp ==
  /\ stage # <<>>
  /\ stage' = Tail(stage)
  /\ refused' = refused \cup {Head(stage)}
  /\ UNCHANGED <<now, bootVars, jobs, gts, dbVars, crashes, since, cut,
                 unloaded, raced, overtaken>>

InFlight == jobs \cup Elements(todo) \cup Elements(gts) \cup Elements(stage)

(* A signal or a crash: nothing in flight survives.  A restart starts over *)
(* from the newest sample; what is in flight behind it is gone.            *)
Stop ==
  /\ boot # "down"
  /\ crashes < MaxCrashes
  /\ crashes' = crashes + 1
  /\ boot' = "down" /\ cronOn' = FALSE /\ attempts' = 0
  /\ last' = NotLoaded /\ next' = NoTick /\ todo' = <<>>
  /\ jobs' = {} /\ gts' = <<>> /\ stage' = <<>>
  /\ overtaken' = overtaken \cup
       {w \in InFlight : samples # {} /\ w < LastTimestamp}
  /\ UNCHANGED <<now, dbVars, since, cut, unloaded, raced, refused>>

Configured == UNCHANGED ltsRetryCount

Scheduling ==
  /\ \/ LoadOk \/ LoadNothing \/ LoadError \/ LoadNoAttempt
     \/ ComputeHistory \/ SendHistory \/ Register
  /\ Configured

CronStarts == StartCron /\ Configured

Flow ==
  /\ Take \/ Deliver \/ GiveUp \/ \E w \in jobs : Put(w)
  /\ Configured

Environment == (StartProcess \/ Tick \/ Stop) /\ Configured

Next == CronStarts \/ Scheduling \/ Flow \/ Environment

Spec == Init /\ [][Next]_vars

FairSpec == Spec /\ WF_vars(Scheduling) /\ WF_vars(CronStarts) /\ WF_vars(Flow)

-----------------------------------------------------------------------------
(* While the exporter runs, every window that came due since it was first  *)
(* started was pushed, is in flight, or is missing for a known reason: it  *)
(* was cut from a history (look-back, queue size), no last timestamp could *)
(* be loaded, its tick passed between getNearestUpcomingCronTime and the   *)
(* registration of the job, a newer sample hid it from a restart, or the   *)
(* queue was full.  A crash by itself loses nothing (gtsqueue.go:104-147). *)
Gone == cut \cup unloaded \cup raced \cup overtaken \cup refused

EveryWindowAccounted ==
  Ready => Windows(Start(since), Start(now + 1)) \subseteq stored \cup InFlight \cup Gone

(* Nothing is cut when the look-back and the queue are long enough for     *)
(* the longest time the model can be down.                                 *)
LookbackSuffices ==
  MaxLookup >= MaxTime + Interval /\ QueueSize * Interval >= MaxTime + Interval => cut = {}

(* No window whose samples the monitoring system has is evaluated again,   *)
(* and none is in flight twice: a history ends where the cron begins and   *)
(* begins where the samples end.  A retry count of 0 starts over from the  *)
(* beginning of Unix time and evaluates what was evaluated before.         *)
Distinct(s) == \A i, j \in 1..Len(s) : s[i] = s[j] => i = j

NothingTwice ==
  /\ ltsRetryCount > 0 => InFlight \cap samples = {}
  /\ Distinct(stage \o gts \o todo)
  /\ jobs \cap Elements(stage \o gts \o todo) = {}

(* However often the monitoring system fails to answer, the query gets its *)
(* cron job in the end: the attempts are bounded and the history fits the  *)
(* queue.                                                                  *)
StartupEnds == boot = "load" ~> Ready \/ boot = "down"
=============================================================================
