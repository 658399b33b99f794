------------------------------ MODULE Pipeline ------------------------------
(***************************************************************************)
(* The window pipeline of the exporter.  Every query has its own channels  *)
(* and its own goroutines:                                                 *)
(*                                                                         *)
(*   scheduler --gts--> datasource --gd--> evaluator --gm--> pusher        *)
(*                                                                         *)
(* The scheduler puts the start times of the query's time windows on the   *)
(* GTS queue: first the windows missed before the start of the process     *)
(* (history), then one window per cron tick.  The datasource goroutine     *)
(* fetches the log records of a window, the evaluator goroutine folds them *)
(* into the metrics and, with a push export, hands a snapshot of the       *)
(* metrics to the push goroutine.                                          *)
(*                                                                         *)
(* A window is a positive number: 1..HistorySize(q) are the history        *)
(* windows, the numbers above them the windows of the cron ticks.  What a  *)
(* window carries from stage to stage (rows, metric families) is           *)
(* abstracted to the window, and to whether its rows were really fetched.  *)
(***************************************************************************)
EXTENDS Naturals, Sequences, FiniteSets

CONSTANTS
  Query,            \* the configured queries
  GTSSize,          \* capacity of the GTS channel of each query
  GDSize,           \* capacity of the GD channel
  GMSize,           \* capacity of the GM channel
  HistoryWanted,    \* windows between the last pushed one and the next tick
  BadRange,         \* queries with a negative lag or time range
  Datasource,       \* "graylog", "loki" or "newrelic"
  Export,           \* "victoria", "promrw" or "pull"
  DatasourceRetry,  \* general.datasource-retry
  PushRetry,        \* general.push-retry
  MaxTick,          \* bound: cron ticks of each query
  MaxPanics         \* bound: recovered panics of each query

ASSUME SizesAssumption ==
  /\ GTSSize \in [Query -> Nat]
  /\ GDSize \in [Query -> Nat]
  /\ GMSize \in [Query -> Nat]
  /\ HistoryWanted \in [Query -> Nat]
  /\ BadRange \subseteq Query

ASSUME ModeAssumption ==
  /\ Datasource \in {"graylog", "loki", "newrelic"}
  /\ Export \in {"victoria", "promrw", "pull"}
  /\ DatasourceRetry \in BOOLEAN
  /\ PushRetry \in BOOLEAN

ASSUME BoundsAssumption == MaxTick \in Nat /\ MaxPanics \in Nat

VARIABLES
  sched,      \* scheduling goroutine: "history", then "cron" or "closed"
  hist,       \* history windows it still has to send
  tick,       \* last cron tick of the query, as a window
  jobs,       \* cron jobs that computed their window and have yet to Put it
  gts,        \* buffer of the GTS channel
  gd,         \* buffer of the GD channel
  gm,         \* buffer of the GM channel
  ds,         \* datasource goroutine: program counter and window in hand
  ev,         \* evaluator goroutine
  pu,         \* push goroutine, with what is left of the request body
  panics,     \* recovered panics so far
  accepted,   \* windows in the order they entered the GTS channel
  refused,    \* windows dropped because the GTS channel was full
  blind,      \* windows passed on with no rows because their query failed
  evaluated,  \* windows in the order they were folded into the metrics
  unreported, \* windows after which no metric family was gathered
  remote,     \* snapshots stored by the push target, in order
  lost        \* windows given up: a panic, no retry, an empty retried push

schedVars == <<sched, hist, tick, jobs>>
dsVars == <<ds, blind>>
evVars == <<ev, evaluated, unreported>>
puVars == <<pu, remote>>
vars == <<schedVars, gts, gd, gm, dsVars, evVars, puVars,
          panics, accepted, refused, lost>>

NoWindow == 0

(* With a pull export there is no GM queue and no push goroutine.          *)
PushExport == Export # "pull"

(* Mutant: the history is not capped.                                      *)
HistorySizeUncapped(q) == HistoryWanted[q]

(* The history is capped at the capacity of the GTS queue.                 *)
HistorySize(q) ==
  IF HistoryWanted[q] >= GTSSize[q] THEN GTSSize[q] ELSE HistoryWanted[q]

(* Mutant: a full buffer takes one element more.                           *)
RoomOffByOne(buffer, capacity, receiver) ==
  Len(buffer) <= capacity + (IF receiver.pc = "wait" THEN 1 ELSE 0)

(***************************************************************************)
(* Go channels.  A send succeeds when the buffer has room or a receiver is *)
(* parked on the channel: "wait" is a receiver that found the channel      *)
(* empty, and the element is handed to it without using the buffer.  With  *)
(* capacity 0 only the handoff is left.                                    *)
(***************************************************************************)
Room(buffer, capacity, receiver) ==
  Len(buffer) < capacity + (IF receiver.pc = "wait" THEN 1 ELSE 0)

Receiving(receiver) == receiver.pc \in {"get", "wait"}

(* The history windows of a query whose last timestamp could be loaded.    *)
(* Only a push export has a service to load it from.                       *)
Loadable == IF PushExport THEN Query ELSE {}

History(q) == [i \in 1..HistorySize(q) |-> i]

(* A goroutine: where it is in its loop and the window it works on; the    *)
(* pusher also has what is left to read of its request body.               *)
At(pc, w) == [pc |-> pc, win |-> w]
Push(pc, w, body) == [pc |-> pc, win |-> w, body |-> body]

Idle == At("get", NoWindow)
IdlePusher == Push("get", NoWindow, "full")

Init ==
  /\ sched = [q \in Query |-> "history"]
  /\ \E loaded \in SUBSET Loadable :
       hist = [q \in Query |-> IF q \in loaded THEN History(q) ELSE <<>>]
  /\ tick = [q \in Query |-> HistorySize(q)]
  /\ jobs = [q \in Query |-> {}]
  /\ gts = [q \in Query |-> <<>>]
  /\ gd = [q \in Query |-> <<>>]
  /\ gm = [q \in Query |-> <<>>]
  /\ ds = [q \in Query |-> Idle]
  /\ ev = [q \in Query |-> Idle]
  /\ pu = [q \in Query |-> IdlePusher]
  /\ panics = [q \in Query |-> 0]
  /\ accepted = [q \in Query |-> <<>>]
  /\ refused = [q \in Query |-> {}]
  /\ blind = [q \in Query |-> {}]
  /\ evaluated = [q \in Query |-> <<>>]
  /\ unreported = [q \in Query |-> {}]
  /\ remote = [q \in Query |-> <<>>]
  /\ lost = [q \in Query |-> {}]

-----------------------------------------------------------------------------
(* The scheduling goroutine of a query and its cron jobs.                  *)

Accept(q, w) ==
  /\ gts' = [gts EXCEPT ![q] = Append(@, w)]
  /\ accepted' = [accepted EXCEPT ![q] = Append(@, w)]

(* One blocking send of the history loop.                                  *)
SendHistory(q) ==
  /\ sched[q] = "history"
  /\ hist[q] # <<>>
  /\ Room(gts[q], GTSSize[q], ds[q])
  /\ Accept(q, Head(hist[q]))
  /\ hist' = [hist EXCEPT ![q] = Tail(@)]
  /\ UNCHANGED <<sched, tick, jobs, refused>>

(* Mutant: the scheduling is not deferred, it runs besides the history.    *)
ScheduleAtOnce(q) ==
  /\ sched[q] = "history"
  /\ sched' = [sched EXCEPT ![q] = IF q \in BadRange THEN "closed" ELSE "cron"]
  /\ UNCHANGED <<hist, tick, jobs, gts, accepted, refused>>

(* Mutant: the channel of an unusable query is not closed.                 *)
ScheduleNeverCloses(q) ==
  /\ sched[q] = "history"
  /\ hist[q] = <<>>
  /\ sched' = [sched EXCEPT ![q] = "cron"]
  /\ UNCHANGED <<hist, tick, jobs, gts, accepted, refused>>

(* Deferred to the end of the history, whether it was sent, empty or       *)
(* skipped: register the cron job, or close the channel of a query whose   *)
(* range is not usable.                                                    *)
Schedule(q) ==
  /\ sched[q] = "history"
  /\ hist[q] = <<>>
  /\ sched' = [sched EXCEPT ![q] = IF q \in BadRange THEN "closed" ELSE "cron"]
  /\ UNCHANGED <<hist, tick, jobs, gts, accepted, refused>>

(* The croniter starts a job in a goroutine of its own; the job computes   *)
(* its window from the clock.                                              *)
CronFire(q) ==
  /\ sched[q] = "cron"
  /\ tick[q] < HistorySize(q) + MaxTick
  /\ tick' = [tick EXCEPT ![q] = @ + 1]
  /\ jobs' = [jobs EXCEPT ![q] = @ \cup {tick[q] + 1}]
  /\ UNCHANGED <<sched, hist, gts, accepted, refused>>

(* GTSQueue.Put: a non-blocking send, the window is dropped when it fails. *)
CronPut(q, w) ==
  /\ w \in jobs[q]
  /\ jobs' = [jobs EXCEPT ![q] = @ \ {w}]
  /\ \/ /\ Room(gts[q], GTSSize[q], ds[q])
        /\ Accept(q, w)
        /\ UNCHANGED refused
     \/ /\ ~Room(gts[q], GTSSize[q], ds[q])
        /\ refused' = [refused EXCEPT ![q] = @ \cup {w}]
        /\ UNCHANGED <<gts, accepted>>
  /\ UNCHANGED <<sched, hist, tick>>

-----------------------------------------------------------------------------
(* Panics: every stage recovers, sleeps and starts its goroutine again;    *)
(* the window in hand is gone.                                             *)

CountPanic(q, w) ==
  /\ panics[q] < MaxPanics
  /\ panics' = [panics EXCEPT ![q] = @ + 1]
  /\ lost' = [lost EXCEPT ![q] = @ \cup {w}]

-----------------------------------------------------------------------------
(* The datasource goroutine.                                               *)

DSWait(q) ==
  /\ ds[q].pc = "get"
  /\ gts[q] = <<>>
  /\ sched[q] # "closed"
  /\ ds' = [ds EXCEPT ![q] = At("wait", @.win)]
  /\ UNCHANGED <<gts, gd, blind, panics, lost>>

DSGet(q) ==
  /\ Receiving(ds[q])
  /\ gts[q] # <<>>
  /\ ds' = [ds EXCEPT ![q] = At("query", Head(gts[q]))]
  /\ gts' = [gts EXCEPT ![q] = Tail(@)]
  /\ UNCHANGED <<gd, blind, panics, lost>>

(* The channel is closed and drained: the goroutine ends.                  *)
DSStop(q) ==
  /\ Receiving(ds[q])
  /\ gts[q] = <<>>
  /\ sched[q] = "closed"
  /\ ds' = [ds EXCEPT ![q] = At("done", @.win)]
  /\ UNCHANGED <<gts, gd, blind, panics, lost>>

DSQueryOk(q) ==
  /\ ds[q].pc = "query"
  /\ ds' = [ds EXCEPT ![q] = At("put", @.win)]
  /\ UNCHANGED <<gts, gd, blind, panics, lost>>

(* Pass the window on without rows.                                        *)
PassBlind(q) ==
  /\ ds' = [ds EXCEPT ![q] = At("put", @.win)]
  /\ blind' = [blind EXCEPT ![q] = @ \cup {ds[q].win}]

(* Mutant: a failed window goes back to the GTS queue.                     *)
DSQueryErrorRequeues(q) ==
  /\ ds[q].pc = "query"
  /\ ds' = [ds EXCEPT ![q] = Idle]
  /\ gts' = [gts EXCEPT ![q] = Append(@, ds[q].win)]
  /\ UNCHANGED <<gd, blind, panics, lost>>

(* Mutant: the loop ends after the first attempt, whatever its result.     *)
DSQueryErrorNoRetry(q) ==
  /\ ds[q].pc = "query"
  /\ PassBlind(q)
  /\ UNCHANGED <<gts, gd, panics, lost>>

(* The query failed: retry after a pause, or pass the window on empty.     *)
DSQueryError(q) ==
  /\ ds[q].pc = "query"
  /\ \/ /\ DatasourceRetry
        /\ ds' = [ds EXCEPT ![q] = At("sleep", @.win)]
        /\ UNCHANGED blind
     \/ /\ ~DatasourceRetry
        /\ PassBlind(q)
  /\ UNCHANGED <<gts, gd, panics, lost>>

(* A response that cannot be decoded.  Graylog and Loki report it as an    *)
(* error; the New Relic service logs it and returns no rows and no error.  *)
DSQueryGarbled(q) ==
  /\ Datasource = "newrelic"
  /\ ds[q].pc = "query"
  /\ PassBlind(q)
  /\ UNCHANGED <<gts, gd, panics, lost>>

DSAgain(q) ==
  /\ ds[q].pc = "sleep"
  /\ ds' = [ds EXCEPT ![q] = At("query", @.win)]
  /\ UNCHANGED <<gts, gd, blind, panics, lost>>

(* Mutant: the window just queued stays in hand.                           *)
DSPutKeepsWindow(q) ==
  /\ ds[q].pc = "put"
  /\ Room(gd[q], GDSize[q], ev[q])
  /\ gd' = [gd EXCEPT ![q] = Append(@, ds[q].win)]
  /\ ds' = [ds EXCEPT ![q] = At("get", @.win)]
  /\ UNCHANGED <<gts, blind, panics, lost>>

(* Mutant: the send does not block, its window is dropped in silence.      *)
DSPutDrops(q) ==
  /\ ds[q].pc = "put"
  /\ gd' = [gd EXCEPT ![q] = IF Room(@, GDSize[q], ev[q]) THEN Append(@, ds[q].win) ELSE @]
  /\ ds' = [ds EXCEPT ![q] = Idle]
  /\ UNCHANGED <<gts, blind, panics, lost>>

(* GDQueue.Put blocks until the evaluator makes room.                      *)
DSPut(q) ==
  /\ ds[q].pc = "put"
  /\ Room(gd[q], GDSize[q], ev[q])
  /\ gd' = [gd EXCEPT ![q] = Append(@, ds[q].win)]
  /\ ds' = [ds EXCEPT ![q] = Idle]
  /\ UNCHANGED <<gts, blind, panics, lost>>

DSPanic(q) ==
  /\ ds[q].pc = "query"
  /\ CountPanic(q, ds[q].win)
  /\ ds' = [ds EXCEPT ![q] = At("panic", NoWindow)]
  /\ UNCHANGED <<gts, gd, blind>>

DSRestart(q) ==
  /\ ds[q].pc = "panic"
  /\ ds' = [ds EXCEPT ![q] = Idle]
  /\ UNCHANGED <<gts, gd, blind, panics, lost>>

-----------------------------------------------------------------------------
(* The evaluator goroutine.                                                *)

EVWait(q) ==
  /\ ev[q].pc = "get"
  /\ gd[q] = <<>>
  /\ ev' = [ev EXCEPT ![q] = At("wait", @.win)]
  /\ UNCHANGED <<gd, gm, evaluated, unreported, panics, lost>>

EVGet(q) ==
  /\ Receiving(ev[q])
  /\ gd[q] # <<>>
  /\ ev' = [ev EXCEPT ![q] = At("update", Head(gd[q]))]
  /\ gd' = [gd EXCEPT ![q] = Tail(@)]
  /\ UNCHANGED <<gm, evaluated, unreported, panics, lost>>

(* Enrich the rows and fold them into the metrics.                         *)
EVUpdate(q) ==
  /\ ev[q].pc = "update"
  /\ evaluated' = [evaluated EXCEPT ![q] = Append(@, ev[q].win)]
  /\ ev' = [ev EXCEPT ![q] = IF PushExport THEN At("gather", @.win) ELSE Idle]
  /\ UNCHANGED <<gd, gm, unreported, panics, lost>>

(* Copy the metric families of the query's registry for the pusher.        *)
EVGather(q) ==
  /\ ev[q].pc = "gather"
  /\ ev' = [ev EXCEPT ![q] = At("put", @.win)]
  /\ UNCHANGED <<gd, gm, evaluated, unreported, panics, lost>>

(* No metric family was gathered: there is nothing to push.  It is decided *)
(* here, before the send: an evaluator in the send does not come out of it *)
(* otherwise than by sending.                                              *)
EVSkip(q) ==
  /\ ev[q].pc = "gather"
  /\ unreported' = [unreported EXCEPT ![q] = @ \cup {ev[q].win}]
  /\ ev' = [ev EXCEPT ![q] = Idle]
  /\ UNCHANGED <<gd, gm, evaluated, panics, lost>>

(* GMQueue.Put with isBlocking.                                            *)
EVPut(q) ==
  /\ ev[q].pc = "put"
  /\ Room(gm[q], GMSize[q], pu[q])
  /\ gm' = [gm EXCEPT ![q] = Append(@, ev[q].win)]
  /\ ev' = [ev EXCEPT ![q] = Idle]
  /\ UNCHANGED <<gd, evaluated, unreported, panics, lost>>

(* While it folds the rows, or while it copies the metric families.        *)
EVPanic(q) ==
  /\ ev[q].pc \in {"update", "gather"}
  /\ CountPanic(q, ev[q].win)
  /\ ev' = [ev EXCEPT ![q] = At("panic", NoWindow)]
  /\ UNCHANGED <<gd, gm, evaluated, unreported>>

EVRestart(q) ==
  /\ ev[q].pc = "panic"
  /\ ev' = [ev EXCEPT ![q] = Idle]
  /\ UNCHANGED <<gd, gm, evaluated, unreported, panics, lost>>

-----------------------------------------------------------------------------
(* The push goroutine.                                                     *)

PUWait(q) ==
  /\ PushExport
  /\ pu[q].pc = "get"
  /\ gm[q] = <<>>
  /\ pu' = [pu EXCEPT ![q] = Push("wait", NoWindow, "full")]
  /\ UNCHANGED <<gm, remote, panics, lost>>

PUGet(q) ==
  /\ PushExport
  /\ Receiving(pu[q])
  /\ gm[q] # <<>>
  /\ pu' = [pu EXCEPT ![q] = Push("send", Head(gm[q]), "full")]
  /\ gm' = [gm EXCEPT ![q] = Tail(@)]
  /\ UNCHANGED <<remote, panics, lost>>

(* The target already holds the snapshot in hand (its reply was lost).     *)
Stored(q) == remote[q] # <<>> /\ remote[q][Len(remote[q])] = pu[q].win

(* The snapshot in hand is abandoned.                                      *)
GiveUp(q) == lost' = [lost EXCEPT ![q] = IF Stored(q) THEN @ ELSE @ \cup {pu[q].win}]

(* Storing it twice changes nothing: its samples carry the same timestamps. *)
Store(q) ==
  remote' = [remote EXCEPT ![q] = IF Stored(q) THEN @ ELSE Append(@, pu[q].win)]

(* Mutant: an attempt always uses its body up.                             *)
BodyAlwaysDrained == "drained"

(* PushBuffer hands one bytes.Buffer to every attempt and a request reads  *)
(* it to its end; WriteMetrics encodes the families again each time.       *)
BodyAfterSend == IF Export = "victoria" THEN "drained" ELSE "full"

Sending(q) == pu[q].pc = "send"

(* An attempt failed, leaving the given body: pause before the next one,   *)
(* or, without retry, take the next snapshot.                              *)
RetryLater(q, body) ==
  pu' = [pu EXCEPT ![q] = Push("sleep", @.win, body)]

PUAck(q) ==
  /\ Sending(q)
  /\ \/ /\ pu[q].body = "full"
        /\ Store(q)
        /\ UNCHANGED lost
     \/ /\ pu[q].body = "drained"    \* an empty request is accepted too
        /\ GiveUp(q)
        /\ UNCHANGED remote
  /\ pu' = [pu EXCEPT ![q] = IdlePusher]
  /\ UNCHANGED <<gm, panics>>

(* No connection (the body is not read), or an error status.               *)
PUError(q) ==
  /\ Sending(q)
  /\ \/ /\ PushRetry
        /\ \E body \in {pu[q].body, BodyAfterSend} : RetryLater(q, body)
        /\ UNCHANGED lost
     \/ /\ ~PushRetry
        /\ GiveUp(q)
        /\ pu' = [pu EXCEPT ![q] = IdlePusher]
  /\ UNCHANGED <<gm, remote, panics>>

(* The target stores the snapshot but the client sees an error: a timeout  *)
(* or a connection that breaks before the reply.                           *)
PULostReply(q) ==
  /\ Sending(q)
  /\ pu[q].body = "full"
  /\ Store(q)
  /\ IF PushRetry THEN RetryLater(q, BodyAfterSend)
                  ELSE pu' = [pu EXCEPT ![q] = IdlePusher]
  /\ UNCHANGED <<gm, panics, lost>>

PUAgain(q) ==
  /\ pu[q].pc = "sleep"
  /\ pu' = [pu EXCEPT ![q] = Push("send", @.win, @.body)]
  /\ UNCHANGED <<gm, remote, panics, lost>>

PUPanic(q) ==
  /\ Sending(q)
  /\ panics[q] < MaxPanics
  /\ panics' = [panics EXCEPT ![q] = @ + 1]
  /\ GiveUp(q)
  /\ pu' = [pu EXCEPT ![q] = Push("panic", NoWindow, "full")]
  /\ UNCHANGED <<gm, remote>>

(* Mutant: a pusher that panicked is not started again.                    *)
PUNoRestart(q) == FALSE

PURestart(q) ==
  /\ pu[q].pc = "panic"
  /\ pu' = [pu EXCEPT ![q] = IdlePusher]
  /\ UNCHANGED <<gm, remote, panics, lost>>

-----------------------------------------------------------------------------
(* Each goroutine leaves the state of the others alone: an action lists    *)
(* what it keeps of its own, these definitions add the rest.               *)

SchedulerPuts(q) ==
  /\ SendHistory(q) \/ Schedule(q) \/ \E w \in jobs[q] : CronPut(q, w)
  /\ UNCHANGED <<gd, gm, dsVars, evVars, puVars, panics, lost>>

Clock(q) ==
  /\ CronFire(q)
  /\ UNCHANGED <<gd, gm, dsVars, evVars, puVars, panics, lost>>

DatasourceStep(q) ==
  /\ \/ DSWait(q) \/ DSGet(q) \/ DSStop(q)
     \/ DSQueryOk(q) \/ DSQueryError(q) \/ DSQueryGarbled(q) \/ DSAgain(q)
     \/ DSPut(q) \/ DSPanic(q) \/ DSRestart(q)
  /\ UNCHANGED <<schedVars, gm, evVars, puVars, accepted, refused>>

EvaluatorStep(q) ==
  /\ \/ EVWait(q) \/ EVGet(q) \/ EVUpdate(q) \/ EVGather(q) \/ EVSkip(q)
     \/ EVPut(q) \/ EVPanic(q) \/ EVRestart(q)
  /\ UNCHANGED <<schedVars, gts, dsVars, puVars, accepted, refused>>

PushStep(q) ==
  /\ \/ PUWait(q) \/ PUGet(q) \/ PUAck(q) \/ PUError(q) \/ PULostReply(q)
     \/ PUAgain(q) \/ PUPanic(q) \/ PURestart(q)
  /\ UNCHANGED <<schedVars, gts, gd, dsVars, evVars, accepted, refused>>

Next ==
  \E q \in Query :
    \/ SchedulerPuts(q)
    \/ Clock(q)
    \/ DatasourceStep(q)
    \/ EvaluatorStep(q)
    \/ PushStep(q)

Spec == Init /\ [][Next]_vars

(* Runnable goroutines run; nothing makes the clock tick.  An HTTP call    *)
(* ends, its client has a timeout, and a datasource or a target that is    *)
(* asked again and again eventually answers: without the two strong        *)
(* conditions no retry loop ends.                                          *)
Fairness ==
  \A q \in Query :
    /\ WF_vars(SchedulerPuts(q))
    /\ WF_vars(DatasourceStep(q))
    /\ SF_vars(DatasourceStep(q) /\ DSQueryOk(q))
    /\ WF_vars(EvaluatorStep(q))
    /\ WF_vars(PushStep(q))
    /\ SF_vars(PushStep(q) /\ PUAck(q))

FairSpec == Spec /\ Fairness

-----------------------------------------------------------------------------
(* What is in flight, from the head of the pipeline to its tail.           *)
Held(stage) == IF stage.win = NoWindow THEN <<>> ELSE <<stage.win>>

HeldByPusher(q) == IF Stored(q) THEN <<>> ELSE Held(pu[q])

(* Each stage with its input queue, oldest window first.                   *)
AtPusher(q) == HeldByPusher(q) \o gm[q]
AtEvaluator(q) == Held(ev[q]) \o gd[q]
AtDatasource(q) == Held(ds[q]) \o gts[q]

InFlight(q) == AtPusher(q) \o AtEvaluator(q) \o AtDatasource(q)

Delivered(q) == IF PushExport THEN remote[q] ELSE evaluated[q]

Elements(s) == {s[i] : i \in 1..Len(s)}

(* Window v entered the pipeline before window w.                          *)
Before(q, v, w) ==
  \E i, j \in 1..Len(accepted[q]) :
    i < j /\ accepted[q][i] = v /\ accepted[q][j] = w

(* Every buffer full and every stage with a window in hand.                *)
MostInFlight(q) ==
  GTSSize[q] + 1 + GDSize[q] + 1 + IF PushExport THEN GMSize[q] + 1 ELSE 0

-----------------------------------------------------------------------------
(* Every variable has the shape the code gives it, program counters are    *)
(* those of the goroutines' loops and a stage holds a window exactly while *)
(* it works on one.                                                        *)
Window == Nat \ {NoWindow}

Stage(idle, busy) ==
  [pc : idle, win : {NoWindow}] \cup [pc : busy, win : Window]

TypeOK ==
  /\ sched \in [Query -> {"history", "cron", "closed"}]
  /\ hist \in [Query -> Seq(Window)]
  /\ tick \in [Query -> Nat]
  /\ jobs \in [Query -> SUBSET Window]
  /\ gts \in [Query -> Seq(Window)]
  /\ gd \in [Query -> Seq(Window)]
  /\ gm \in [Query -> Seq(Window)]
  /\ ds \in [Query -> Stage({"get", "wait", "panic", "done"}, {"query", "sleep", "put"})]
  /\ ev \in [Query -> Stage({"get", "wait", "panic"}, {"update", "gather", "put"})]
  /\ pu \in [Query -> [pc : {"get", "wait", "panic"}, win : {NoWindow}, body : {"full"}]
                      \cup [pc : {"send", "sleep"}, win : Window, body : {"full", "drained"}]]
  /\ panics \in [Query -> Nat]
  /\ accepted \in [Query -> Seq(Window)]
  /\ refused \in [Query -> SUBSET Window]
  /\ blind \in [Query -> SUBSET Window]
  /\ evaluated \in [Query -> Seq(Window)]
  /\ unreported \in [Query -> SUBSET Window]
  /\ remote \in [Query -> Seq(Window)]
  /\ lost \in [Query -> SUBSET Window]

(* The memory of the pipeline is bounded whatever stalls: blocking sends   *)
(* push back from the monitoring system to the GTS queue, and only there   *)
(* are windows refused (queues/*.go, processors/*.go).                     *)
InFlightBounded == \A q \in Query : Len(InFlight(q)) <= MostInFlight(q)

(* The history loop sends with a blocking send before the cron job of the  *)
(* query is registered: capping the history at the queue size is what lets *)
(* it end even while the datasource goroutine takes nothing.               *)
HistoryNeverBlocks ==
  \A q \in Query : hist[q] # <<>> => Room(gts[q], GTSSize[q], ds[q])

(* Nothing is sent to a closed GTS channel (a send would panic in a cron   *)
(* job, which nothing recovers), and every window put before it was closed *)
(* is still taken by the datasource goroutine before it ends.              *)
NoSendOnClosed ==
  \A q \in Query :
    /\ sched[q] = "closed" => hist[q] = <<>> /\ jobs[q] = {}
    /\ ds[q].pc = "done" => sched[q] = "closed" /\ gts[q] = <<>>

(* A window is folded into the metrics at most once, and windows are       *)
(* folded in the order they were accepted: counters count every record     *)
(* once and the caches of the duration metrics see the batches in order.   *)
EvaluatedOnceInOrder ==
  \A q \in Query :
    /\ \A i, j \in 1..Len(accepted[q]) : accepted[q][i] = accepted[q][j] => i = j
    /\ Elements(evaluated[q]) \subseteq Elements(accepted[q])
    /\ \A i, j \in 1..Len(evaluated[q]) :
         i < j => Before(q, evaluated[q][i], evaluated[q][j])

(* With both retries on, a window is lost, or evaluated without its rows,  *)
(* only by a panic, and a panic costs one window at most.                  *)
RetriesLoseNothing ==
  DatasourceRetry /\ PushRetry =>
    \A q \in Query : Cardinality(lost[q] \cup blind[q]) <= panics[q]

(* docs/user-guide.md:242: with push-retry "LME retries to push the data": *)
(* when a push is acknowledged the target has the data of the snapshot.    *)
AckedPushStored ==
  [][\A q \in Query :
       PushRetry /\ Sending(q) /\ pu'[q].pc = "get" =>
         remote'[q] # <<>> /\ remote'[q][Len(remote'[q])] = pu[q].win]_vars

(* Every window that enters the pipeline leaves it: it is delivered, or it *)
(* is given up for a reason the model names.                               *)
Settled(q, w) ==
  w \in Elements(Delivered(q)) \cup lost[q] \cup unreported[q]

EveryWindowSettles ==
  \A q \in Query : \A w \in 1..(HistorySize(q) + MaxTick) :
    w \in Elements(accepted[q]) ~> Settled(q, w)

(* A query with an unusable range gives up its datasource goroutine.       *)
ClosedQueryStops ==
  \A q \in BadRange : <>(ds[q].pc = "done")

(* The windows the bounds of the model leave room for.                     *)
WindowsInUse == UNION {1..(HistorySize(q) + MaxTick) : q \in Query}

(* The pipeline implements the promise of WindowFlow.                      *)
Flow == INSTANCE WindowFlow WITH
  Window <- WindowsInUse,
  Capacity <- [q \in Query |-> MostInFlight(q)],
  Backlog <- GTSSize,
  inFlight <- [q \in Query |-> InFlight(q)],
  delivered <- [q \in Query |-> Delivered(q)],
  gone <- [q \in Query |-> refused[q] \cup lost[q] \cup unreported[q]]

FlowSpec == Flow!Spec
=============================================================================
