--------------------------- MODULE PipelineProofs ---------------------------
(***************************************************************************)
(* Proofs about the window pipeline, for any queries, capacities, modes    *)
(* and bounds.  First part: types, and that the channels hold what their   *)
(* capacities say.  Second part: what the retries save, what an            *)
(* acknowledged push stores, and in which order the windows are folded     *)
(* into the metrics.  Third part: the pipeline implements WindowFlow;      *)
(* every step of a goroutine lets one window enter, be turned away, be     *)
(* delivered or be dropped, or is not seen from outside.                   *)
(***************************************************************************)
EXTENDS Pipeline, SequenceTheorems, FiniteSetTheorems, TLAPS

(* Capacities are natural numbers, and the history fits the GTS channel.   *)
LEMMA SizeNat ==
  ASSUME NEW q \in Query
  PROVE  /\ GTSSize[q] \in Nat
         /\ GDSize[q] \in Nat
         /\ GMSize[q] \in Nat
         /\ HistorySize(q) \in Nat
         /\ HistorySize(q) <= GTSSize[q]
BY SizesAssumption DEF HistorySize

(* A stage that works on a window holds one, an idle stage holds none.     *)
LEMMA InHand ==
  ASSUME TypeOK, NEW q \in Query
  PROVE  /\ ds[q].pc \in {"query", "sleep", "put"} => ds[q].win \in Window
         /\ ds[q].pc \in {"get", "wait", "panic", "done"} => ds[q].win = NoWindow
         /\ ev[q].pc \in {"update", "gather", "put"} => ev[q].win \in Window
         /\ ev[q].pc \in {"get", "wait", "panic"} => ev[q].win = NoWindow
         /\ pu[q].pc \in {"send", "sleep"} => pu[q].win \in Window
         /\ pu[q].pc \in {"get", "wait", "panic"} => pu[q].win = NoWindow
BY DEF TypeOK, Stage

-----------------------------------------------------------------------------
(* Type correctness, one lemma per goroutine.                              *)

LEMMA InitType == Init => TypeOK
<1> SUFFICES ASSUME Init PROVE TypeOK
  OBVIOUS
<1>1. \A q \in Query : History(q) \in Seq(Window)
  BY SizeNat DEF History, Window, NoWindow
<1>2. hist \in [Query -> Seq(Window)]
  BY <1>1 DEF Init
<1>3. tick \in [Query -> Nat]
  BY SizeNat DEF Init
<1> QED
  BY <1>2, <1>3 DEF Init, TypeOK, At, Push, Idle, IdlePusher, Stage, NoWindow, Window

LEMMA SchedulerType ==
  ASSUME TypeOK, NEW q \in Query, SchedulerPuts(q) \/ Clock(q)
  PROVE  TypeOK'
<1> USE DEF TypeOK
<1>0. UNCHANGED <<gd, gm, ds, blind, ev, evaluated, unreported, pu, remote, panics, lost>>
  BY DEF SchedulerPuts, Clock, dsVars, evVars, puVars
<1>1. CASE SendHistory(q)
  <2>1. /\ Head(hist[q]) \in Window
        /\ Tail(hist[q]) \in Seq(Window)
    BY <1>1, HeadTailProperties DEF SendHistory
  <2>2. /\ hist' \in [Query -> Seq(Window)]
        /\ gts' \in [Query -> Seq(Window)]
        /\ accepted' \in [Query -> Seq(Window)]
    BY <1>1, <2>1 DEF SendHistory, Accept
  <2> QED
    BY <1>0, <1>1, <2>2 DEF SendHistory
<1>2. CASE Schedule(q)
  BY <1>0, <1>2 DEF Schedule
<1>3. CASE CronFire(q)
  <2>1. tick[q] + 1 \in Window
    BY DEF Window, NoWindow
  <2> QED
    BY <1>0, <1>3, <2>1 DEF CronFire
<1>4. ASSUME NEW w \in jobs[q], CronPut(q, w)
      PROVE  TypeOK'
  <2>1. w \in Window
    OBVIOUS
  <2>2. jobs' \in [Query -> SUBSET Window]
    BY <1>4 DEF CronPut
  <2>3. UNCHANGED <<sched, hist, tick>>
    BY <1>4 DEF CronPut
  <2>4. CASE Accept(q, w) /\ UNCHANGED refused
    BY <1>0, <2>1, <2>2, <2>3, <2>4 DEF Accept
  <2>5. CASE /\ refused' = [refused EXCEPT ![q] = @ \cup {w}]
             /\ UNCHANGED <<gts, accepted>>
    BY <1>0, <2>1, <2>2, <2>3, <2>5
  <2> QED
    BY <1>4, <2>4, <2>5 DEF CronPut
<1> QED
  BY <1>1, <1>2, <1>3, <1>4 DEF SchedulerPuts, Clock

LEMMA DatasourceType ==
  ASSUME TypeOK, NEW q \in Query, DatasourceStep(q)
  PROVE  TypeOK'
<1> USE DEF TypeOK, Stage, At, Idle, CountPanic, PassBlind
<1>0. UNCHANGED <<sched, hist, tick, jobs, gm, ev, evaluated, unreported,
                  pu, remote, accepted, refused>>
  BY DEF DatasourceStep, schedVars, evVars, puVars
<1>1. CASE DSWait(q)
  BY <1>0, <1>1 DEF DSWait
<1>2. CASE DSGet(q)
  <2>1. /\ Head(gts[q]) \in Window
        /\ Tail(gts[q]) \in Seq(Window)
    BY <1>2, HeadTailProperties DEF DSGet
  <2> QED
    BY <1>0, <1>2, <2>1 DEF DSGet
<1>3. CASE DSStop(q)
  BY <1>0, <1>3 DEF DSStop, Receiving
<1>4. CASE DSQueryOk(q)
  BY <1>0, <1>4 DEF DSQueryOk
<1>5. CASE DSQueryError(q)
  <2>1. ds[q].win \in Window
    BY <1>5, InHand DEF DSQueryError
  <2>2. UNCHANGED <<gts, gd, panics, lost>>
    BY <1>5 DEF DSQueryError
  <2>3. CASE ds' = [ds EXCEPT ![q] = At("sleep", @.win)] /\ UNCHANGED blind
    BY <1>0, <2>1, <2>2, <2>3
  <2>4. CASE PassBlind(q)
    BY <1>0, <2>1, <2>2, <2>4
  <2> QED
    BY <1>5, <2>3, <2>4 DEF DSQueryError
<1>6. CASE DSQueryGarbled(q)
  <2>1. ds[q].win \in Window
    BY <1>6, InHand DEF DSQueryGarbled
  <2> QED
    BY <1>0, <1>6, <2>1 DEF DSQueryGarbled
<1>7. CASE DSAgain(q)
  BY <1>0, <1>7 DEF DSAgain
<1>8. CASE DSPut(q)
  <2>1. ds[q].win \in Window
    BY <1>8, InHand DEF DSPut
  <2> QED
    BY <1>0, <1>8, <2>1 DEF DSPut
<1>9. CASE DSPanic(q)
  <2>1. ds[q].win \in Window
    BY <1>9, InHand DEF DSPanic
  <2>2. panics' \in [Query -> Nat] /\ lost' \in [Query -> SUBSET Window]
    BY <1>9, <2>1 DEF DSPanic
  <2> QED
    BY <1>0, <1>9, <2>2 DEF DSPanic
<1>10. CASE DSRestart(q)
  BY <1>0, <1>10 DEF DSRestart
<1> QED
  BY <1>1, <1>2, <1>3, <1>4, <1>5, <1>6, <1>7, <1>8, <1>9, <1>10 DEF DatasourceStep

LEMMA EvaluatorType ==
  ASSUME TypeOK, NEW q \in Query, EvaluatorStep(q)
  PROVE  TypeOK'
<1> USE DEF TypeOK, Stage, At, Idle
<1>0. UNCHANGED <<sched, hist, tick, jobs, gts, ds, blind, pu, remote,
                  accepted, refused>>
  BY DEF EvaluatorStep, schedVars, dsVars, puVars
<1>1. CASE EVWait(q)
  BY <1>0, <1>1 DEF EVWait
<1>2. CASE EVGet(q)
  <2>1. /\ Head(gd[q]) \in Window
        /\ Tail(gd[q]) \in Seq(Window)
    BY <1>2, HeadTailProperties DEF EVGet
  <2> QED
    BY <1>0, <1>2, <2>1 DEF EVGet
<1>3. CASE EVUpdate(q)
  <2>1. ev[q].win \in Window
    BY <1>3, InHand DEF EVUpdate
  <2> QED
    BY <1>0, <1>3, <2>1 DEF EVUpdate
<1>4. CASE EVPut(q)
  <2>1. ev[q].win \in Window
    BY <1>4, InHand DEF EVPut
  <2> QED
    BY <1>0, <1>4, <2>1 DEF EVPut
<1>5. CASE EVSkip(q)
  <2>1. ev[q].win \in Window
    BY <1>5, InHand DEF EVSkip
  <2> QED
    BY <1>0, <1>5, <2>1 DEF EVSkip
<1>6. CASE EVPanic(q)
  <2>1. ev[q].win \in Window
    BY <1>6, InHand DEF EVPanic
  <2>2. panics' \in [Query -> Nat] /\ lost' \in [Query -> SUBSET Window]
    BY <1>6, <2>1 DEF EVPanic, CountPanic
  <2> QED
    BY <1>0, <1>6, <2>2 DEF EVPanic
<1>7. CASE EVGather(q)
  <2>1. ev[q].win \in Window
    BY <1>7, InHand DEF EVGather
  <2> QED
    BY <1>0, <1>7, <2>1 DEF EVGather
<1>8. CASE EVRestart(q)
  BY <1>0, <1>8 DEF EVRestart
<1> QED
  BY <1>1, <1>2, <1>3, <1>4, <1>5, <1>6, <1>7, <1>8 DEF EvaluatorStep

LEMMA PushType ==
  ASSUME TypeOK, NEW q \in Query, PushStep(q)
  PROVE  TypeOK'
<1> USE DEF TypeOK, Push, IdlePusher
<1>0. UNCHANGED <<sched, hist, tick, jobs, gts, gd, ds, blind, ev, evaluated,
                  unreported, accepted, refused>>
  BY DEF PushStep, schedVars, dsVars, evVars
<1>1. CASE PUWait(q)
  BY <1>0, <1>1 DEF PUWait
<1>2. CASE PUGet(q)
  <2>1. /\ Head(gm[q]) \in Window
        /\ Tail(gm[q]) \in Seq(Window)
    BY <1>2, HeadTailProperties DEF PUGet
  <2> QED
    BY <1>0, <1>2, <2>1 DEF PUGet
<1>3. Sending(q) => pu[q].win \in Window
  BY InHand DEF Sending
<1>4. Sending(q) /\ Store(q) => remote' \in [Query -> Seq(Window)]
  BY <1>3 DEF Store
<1>5. Sending(q) /\ GiveUp(q) => lost' \in [Query -> SUBSET Window]
  BY <1>3 DEF GiveUp
<1>6. BodyAfterSend \in {"full", "drained"}
  BY DEF BodyAfterSend
<1>7. ASSUME Sending(q), NEW body \in {"full", "drained"}, RetryLater(q, body)
      PROVE  pu' \in [Query -> [pc : {"get", "wait", "panic"}, win : {NoWindow}, body : {"full"}]
                      \cup [pc : {"send", "sleep"}, win : Window, body : {"full", "drained"}]]
  BY <1>3, <1>7 DEF RetryLater
<1>8. CASE PUAck(q)
  <2>1. CASE Store(q) /\ UNCHANGED lost
    BY <1>0, <1>4, <1>8, <2>1 DEF PUAck
  <2>2. CASE GiveUp(q) /\ UNCHANGED remote
    BY <1>0, <1>5, <1>8, <2>2 DEF PUAck
  <2> QED
    BY <1>8, <2>1, <2>2 DEF PUAck
<1>9. CASE PUError(q)
  <2>1. UNCHANGED <<gm, remote, panics>>
    BY <1>9 DEF PUError
  <2>2. ASSUME NEW body \in {pu[q].body, BodyAfterSend},
               RetryLater(q, body), UNCHANGED lost
        PROVE  TypeOK'
    <3>1. body \in {"full", "drained"}
      BY <1>6, <1>9 DEF PUError, Sending
    <3> QED
      BY <1>0, <1>7, <1>9, <2>1, <2>2, <3>1 DEF PUError
  <2>3. CASE GiveUp(q) /\ pu' = [pu EXCEPT ![q] = IdlePusher]
    BY <1>0, <1>5, <1>9, <2>1, <2>3 DEF PUError
  <2> QED
    BY <1>9, <2>2, <2>3 DEF PUError
<1>10. CASE PULostReply(q)
  <2>1. UNCHANGED <<gm, panics, lost>> /\ remote' \in [Query -> Seq(Window)]
    BY <1>4, <1>10 DEF PULostReply
  <2>2. CASE RetryLater(q, BodyAfterSend)
    BY <1>0, <1>6, <1>7, <1>10, <2>1, <2>2 DEF PULostReply
  <2>3. CASE pu' = [pu EXCEPT ![q] = IdlePusher]
    BY <1>0, <2>1, <2>3
  <2> QED
    BY <1>10, <2>2, <2>3 DEF PULostReply
<1>11. CASE PUAgain(q)
  BY <1>0, <1>11 DEF PUAgain
<1>12. CASE PUPanic(q)
  BY <1>0, <1>5, <1>12 DEF PUPanic
<1>13. CASE PURestart(q)
  BY <1>0, <1>13 DEF PURestart
<1> QED
  BY <1>1, <1>2, <1>8, <1>9, <1>10, <1>11, <1>12, <1>13 DEF PushStep

LEMMA StepType == TypeOK /\ [Next]_vars => TypeOK'
<1> SUFFICES ASSUME TypeOK, [Next]_vars PROVE TypeOK'
  OBVIOUS
<1>1. CASE Next
  BY <1>1, SchedulerType, DatasourceType, EvaluatorType, PushType DEF Next
<1>2. CASE UNCHANGED vars
  BY <1>2 DEF TypeOK, vars, schedVars, dsVars, evVars, puVars
<1> QED
  BY <1>1, <1>2

(* Every variable keeps its type in every reachable state.                 *)
THEOREM TypeCorrect == Spec => []TypeOK
BY InitType, StepType, PTL DEF Spec

-----------------------------------------------------------------------------
(* The inductive invariant behind the bounds.                              *)

Parked(stage) == IF stage.pc = "wait" THEN 1 ELSE 0

(* A buffer exceeds its capacity by the element handed to a parked receiver. *)
BuffersFit(q) ==
  /\ Len(gts[q]) <= GTSSize[q] + Parked(ds[q])
  /\ Len(gd[q]) <= GDSize[q] + Parked(ev[q])
  /\ Len(gm[q]) <= GMSize[q] + Parked(pu[q])

(* Until the history is sent nothing else feeds the GTS channel, and what  *)
(* is left of it fits; jobs exist only while the query is scheduled.       *)
SchedulerPhase(q) ==
  /\ sched[q] = "history" => Len(gts[q]) + Len(hist[q]) <= GTSSize[q]
  /\ sched[q] # "history" => hist[q] = <<>>
  /\ sched[q] # "cron" => jobs[q] = {}
  /\ ds[q].pc = "done" => sched[q] = "closed" /\ gts[q] = <<>>

(* Without a push export nothing ever reaches the GM queue.                *)
PullStopsAtMetrics(q) ==
  ~PushExport => gm[q] = <<>> /\ pu[q].pc = "get" /\ ev[q].pc \notin {"gather", "put"}

QueryInv(q) == BuffersFit(q) /\ SchedulerPhase(q) /\ PullStopsAtMetrics(q)

BoundInv == \A q \in Query : QueryInv(q)

LEMMA RoomLeft ==
  ASSUME NEW buffer \in Seq(Window), NEW capacity \in Nat, NEW receiver
  PROVE  /\ Parked(receiver) \in {0, 1}
         /\ Room(buffer, capacity, receiver) <=> Len(buffer) < capacity + Parked(receiver)
         /\ Len(buffer) < capacity => Room(buffer, capacity, receiver)
<1>1. Parked(receiver) \in {0, 1}
  BY DEF Parked
<1>2. Room(buffer, capacity, receiver) <=> Len(buffer) < capacity + Parked(receiver)
  BY DEF Room, Parked
<1>3. Len(buffer) \in Nat
  OBVIOUS
<1> QED
  BY <1>1, <1>2, <1>3

LEMMA InitBound == Init => BoundInv
<1> SUFFICES ASSUME Init, NEW q \in Query
             PROVE  BuffersFit(q) /\ SchedulerPhase(q) /\ PullStopsAtMetrics(q)
  BY DEF BoundInv, QueryInv
<1>1. History(q) \in Seq(Nat) /\ Len(History(q)) = HistorySize(q)
  BY SizeNat DEF History
<1>2. hist[q] \in {<<>>, History(q)}
  BY DEF Init
<1>3. Len(hist[q]) <= GTSSize[q]
  BY <1>1, <1>2, SizeNat
<1> QED
  BY <1>3, SizeNat DEF Init, BuffersFit, SchedulerPhase, PullStopsAtMetrics, Parked,
     At, Push, Idle, IdlePusher

(* A step of one query leaves the other queries alone, so that only the    *)
(* query that moves has to be looked at.                                   *)
StateOf(q) == <<sched[q], hist[q], jobs[q], gts[q], gd[q], gm[q], ds[q], ev[q], pu[q]>>

Moves(q) ==
  SchedulerPuts(q) \/ Clock(q) \/ DatasourceStep(q) \/ EvaluatorStep(q) \/ PushStep(q)

LEMMA OthersUnchanged ==
  ASSUME TypeOK, NEW q \in Query, NEW r \in Query, r # q, Moves(q)
  PROVE  UNCHANGED StateOf(r)
<1> USE DEF TypeOK, StateOf
<1>1. CASE SchedulerPuts(q) \/ Clock(q)
  <2>1. UNCHANGED <<gd, gm, ds, ev, pu>>
    BY <1>1 DEF SchedulerPuts, Clock, dsVars, evVars, puVars
  <2>2. CASE \E w \in jobs[q] : CronPut(q, w)
    BY <2>1, <2>2 DEF CronPut, Accept
  <2>3. CASE SendHistory(q) \/ Schedule(q) \/ CronFire(q)
    BY <2>1, <2>3 DEF SendHistory, Schedule, CronFire, Accept
  <2> QED
    BY <1>1, <2>2, <2>3 DEF SchedulerPuts, Clock
<1>2. CASE DatasourceStep(q)
  <2>1. UNCHANGED <<sched, hist, jobs, gm, ev, pu>>
    BY <1>2 DEF DatasourceStep, schedVars, evVars, puVars
  <2>2. UNCHANGED <<gts[r], gd[r], ds[r]>>
    BY <1>2 DEF DatasourceStep, DSWait, DSGet, DSStop, DSQueryOk, DSQueryError,
       DSQueryGarbled, PassBlind, DSAgain, DSPut, DSPanic, DSRestart
  <2> QED
    BY <2>1, <2>2
<1>3. CASE EvaluatorStep(q)
  <2>1. UNCHANGED <<sched, hist, jobs, gts, ds, pu>>
    BY <1>3 DEF EvaluatorStep, schedVars, dsVars, puVars
  <2>2. UNCHANGED <<gd[r], gm[r], ev[r]>>
    BY <1>3 DEF EvaluatorStep, EVWait, EVGet, EVUpdate, EVGather, EVPut, EVSkip, EVPanic,
       EVRestart
  <2> QED
    BY <2>1, <2>2
<1>4. CASE PushStep(q)
  <2>1. UNCHANGED <<sched, hist, jobs, gts, gd, ds, ev>>
    BY <1>4 DEF PushStep, schedVars, dsVars, evVars
  <2>2. UNCHANGED <<gm[r], pu[r]>>
    BY <1>4 DEF PushStep, PUWait, PUGet, PUAck, PUError, RetryLater, PULostReply,
       PUAgain, PUPanic, PURestart
  <2> QED
    BY <2>1, <2>2
<1> QED
  BY <1>1, <1>2, <1>3, <1>4 DEF Moves

(* What the arithmetic of a step needs to know of its query.               *)
LEMMA Lengths ==
  ASSUME TypeOK, NEW q \in Query
  PROVE  /\ gts[q] \in Seq(Window) /\ gd[q] \in Seq(Window) /\ gm[q] \in Seq(Window)
         /\ hist[q] \in Seq(Window)
         /\ GTSSize[q] \in Nat /\ GDSize[q] \in Nat /\ GMSize[q] \in Nat
BY SizeNat DEF TypeOK

(* A send leaves the buffer within its capacity, a receive frees a place.  *)
LEMMA SendFits ==
  ASSUME NEW buffer \in Seq(Window), NEW w \in Window, NEW capacity \in Nat,
         NEW receiver, Room(buffer, capacity, receiver)
  PROVE  Len(Append(buffer, w)) <= capacity + Parked(receiver)
<1>1. Parked(receiver) \in {0, 1} /\ Len(buffer) < capacity + Parked(receiver)
  BY RoomLeft
<1>2. Len(Append(buffer, w)) = Len(buffer) + 1 /\ Len(buffer) \in Nat
  OBVIOUS
<1> QED
  BY <1>1, <1>2

LEMMA ReceiveFits ==
  ASSUME NEW buffer \in Seq(Window), buffer # <<>>, NEW capacity \in Nat,
         NEW receiver, Len(buffer) <= capacity + Parked(receiver),
         NEW working, working.pc # "wait"
  PROVE  Len(Tail(buffer)) <= capacity + Parked(working)
<1>1. Parked(receiver) \in {0, 1} /\ Parked(working) = 0
  BY DEF Parked
<1>2. Len(Tail(buffer)) = Len(buffer) - 1 /\ Len(buffer) \in Nat
  OBVIOUS
<1> QED
  BY <1>1, <1>2

LEMMA EmptyFits ==
  ASSUME NEW capacity \in Nat, NEW stage
  PROVE  Len(<<>>) <= capacity + Parked(stage)
<1>1. Parked(stage) \in {0, 1}
  BY DEF Parked
<1> QED
  BY <1>1

(* The history moves into the buffer and drains from it: the sum of both   *)
(* never grows.                                                            *)
LEMMA HistoryMoves ==
  ASSUME NEW buffer \in Seq(Window), NEW rest \in Seq(Window), NEW w \in Window,
         NEW capacity \in Nat, Len(buffer) + Len(rest) <= capacity
  PROVE  /\ rest # <<>> => Len(Append(buffer, w)) + Len(Tail(rest)) <= capacity
         /\ buffer # <<>> => Len(Tail(buffer)) + Len(rest) <= capacity
<1> DEFINE m == Len(buffer)
           n == Len(rest)
<1>1. /\ m \in Nat /\ n \in Nat /\ m + n <= capacity
      /\ Len(Append(buffer, w)) = m + 1
      /\ rest # <<>> => Len(Tail(rest)) = n - 1
      /\ buffer # <<>> => Len(Tail(buffer)) = m - 1
  OBVIOUS
<1> HIDE DEF m, n
<1>2. (m + 1) + (n - 1) <= capacity /\ (m - 1) + n <= capacity
  BY <1>1
<1>3. rest # <<>> => Len(Append(buffer, w)) + Len(Tail(rest)) <= capacity
  BY <1>1, <1>2
<1>4. buffer # <<>> => Len(Tail(buffer)) + Len(rest) <= capacity
  BY <1>1, <1>2 DEF n
<1> QED
  BY <1>3, <1>4

LEMMA SchedulerBound ==
  ASSUME TypeOK, NEW q \in Query, QueryInv(q), SchedulerPuts(q) \/ Clock(q)
  PROVE  QueryInv(q)'
<1> USE DEF QueryInv, BuffersFit, SchedulerPhase, PullStopsAtMetrics
<1>0. UNCHANGED <<gd, gm, ds, ev, pu>>
  BY DEF SchedulerPuts, Clock, dsVars, evVars, puVars
<1>1. /\ sched \in [Query -> {"history", "cron", "closed"}]
      /\ gts \in [Query -> Seq(Window)]
      /\ hist \in [Query -> Seq(Window)]
      /\ jobs \in [Query -> SUBSET Window]
  BY DEF TypeOK
<1>2. ASSUME NEW w \in Window, Room(gts[q], GTSSize[q], ds[q]), Accept(q, w)
      PROVE  Len(gts'[q]) <= GTSSize[q] + Parked(ds[q])
  <2>1. gts'[q] = Append(gts[q], w)
    BY <1>1, <1>2 DEF Accept
  <2> QED
    BY <1>2, <2>1, Lengths, SendFits
<1>3. CASE SendHistory(q)
  <2>1. Head(hist[q]) \in Window /\ hist[q] # <<>>
    BY <1>1, <1>3, HeadTailProperties DEF SendHistory
  <2>2. Len(gts'[q]) <= GTSSize[q] + Parked(ds[q])
    BY <1>2, <1>3, <2>1 DEF SendHistory
  <2>3. /\ hist'[q] = Tail(hist[q]) /\ gts'[q] = Append(gts[q], Head(hist[q]))
        /\ sched[q] = "history" /\ UNCHANGED <<sched, jobs>>
    BY <1>1, <1>3 DEF SendHistory, Accept
  <2>4. Len(gts'[q]) + Len(hist'[q]) <= GTSSize[q]
    <3>1. Len(gts[q]) + Len(hist[q]) <= GTSSize[q]
      BY <2>3
    <3> HIDE DEF QueryInv, BuffersFit, SchedulerPhase, PullStopsAtMetrics
    <3> QED
      BY <2>1, <2>3, <3>1, Lengths, HistoryMoves
  <2> QED
    BY <1>0, <2>2, <2>3, <2>4
<1>4. CASE Schedule(q)
  <2>1. /\ sched'[q] # "history" /\ sched[q] = "history" /\ hist[q] = <<>>
        /\ UNCHANGED <<hist, jobs, gts>>
    BY <1>1, <1>4 DEF Schedule
  <2> QED
    BY <1>0, <2>1
<1>5. CASE CronFire(q)
  <2>1. sched[q] = "cron" /\ UNCHANGED <<sched, hist, gts>>
    BY <1>5 DEF CronFire
  <2> QED
    BY <1>0, <2>1
<1>6. ASSUME NEW w \in jobs[q], CronPut(q, w)
      PROVE  QueryInv(q)'
  <2>1. /\ sched[q] = "cron" /\ UNCHANGED <<sched, hist>>
        /\ w \in Window /\ ds[q].pc # "done"
    BY <1>1, <1>6 DEF CronPut
  <2>2. CASE Room(gts[q], GTSSize[q], ds[q]) /\ Accept(q, w)
    <3>1. Len(gts'[q]) <= GTSSize[q] + Parked(ds[q])
      BY <1>2, <2>1, <2>2
    <3> QED
      BY <1>0, <2>1, <3>1
  <2>3. CASE UNCHANGED gts
    BY <1>0, <2>1, <2>3
  <2> QED
    BY <1>6, <2>2, <2>3 DEF CronPut
<1> QED
  BY <1>3, <1>4, <1>5, <1>6 DEF SchedulerPuts, Clock

LEMMA DatasourceBound ==
  ASSUME TypeOK, NEW q \in Query, QueryInv(q), DatasourceStep(q)
  PROVE  QueryInv(q)'
<1> USE DEF QueryInv, BuffersFit, SchedulerPhase, PullStopsAtMetrics
<1>0. UNCHANGED <<sched, hist, jobs, gm, ev, pu>>
  BY DEF DatasourceStep, schedVars, evVars, puVars
<1>1. ds \in [Query -> Stage({"get", "wait", "panic", "done"}, {"query", "sleep", "put"})]
      /\ gts \in [Query -> Seq(Window)] /\ gd \in [Query -> Seq(Window)]
  BY DEF TypeOK
<1>2. CASE DSWait(q)
  <2>1. UNCHANGED <<gts, gd>> /\ ds'[q].pc = "wait" /\ gts[q] = <<>>
    BY <1>1, <1>2 DEF DSWait, At
  <2>2. Len(gts'[q]) <= GTSSize[q] + Parked(ds'[q])
    BY <2>1, Lengths, EmptyFits
  <2> QED
    BY <1>0, <2>1, <2>2
<1>3. CASE DSGet(q)
  <2>1. /\ gts[q] # <<>> /\ gts'[q] = Tail(gts[q]) /\ ds'[q].pc = "query"
        /\ UNCHANGED gd
    BY <1>1, <1>3 DEF DSGet, At
  <2>2. Len(gts'[q]) <= GTSSize[q] + Parked(ds'[q])
    BY <2>1, Lengths, ReceiveFits
  <2>3. ASSUME sched[q] = "history"
        PROVE  Len(gts'[q]) + Len(hist[q]) <= GTSSize[q]
    <3>1. Len(gts[q]) + Len(hist[q]) <= GTSSize[q]
      BY <2>3
    <3>2. 1 \in Window
      BY DEF Window, NoWindow
    <3> HIDE DEF QueryInv, BuffersFit, SchedulerPhase, PullStopsAtMetrics
    <3> QED
      BY <2>1, <3>1, <3>2, Lengths, HistoryMoves
  <2> QED
    BY <1>0, <2>1, <2>2, <2>3
<1>4. CASE DSStop(q)
  <2>1. /\ UNCHANGED <<gts, gd>> /\ ds'[q].pc = "done"
        /\ gts[q] = <<>> /\ sched[q] = "closed"
    BY <1>1, <1>4 DEF DSStop, At
  <2>2. Len(gts'[q]) <= GTSSize[q] + Parked(ds'[q])
    BY <2>1, Lengths, EmptyFits
  <2> QED
    BY <1>0, <2>1, <2>2
<1>5. CASE DSPut(q)
  <2>1. /\ gd'[q] = Append(gd[q], ds[q].win) /\ UNCHANGED gts
        /\ ds[q].pc = "put" /\ ds'[q].pc = "get"
        /\ Room(gd[q], GDSize[q], ev[q])
    BY <1>1, <1>5 DEF DSPut, Idle, At
  <2>2. Len(gd'[q]) <= GDSize[q] + Parked(ev[q])
    BY <2>1, InHand, Lengths, SendFits
  <2>3. Parked(ds'[q]) = Parked(ds[q])
    BY <2>1 DEF Parked
  <2> QED
    BY <1>0, <2>1, <2>2, <2>3
<1>6. CASE \/ DSQueryOk(q) \/ DSQueryError(q) \/ DSQueryGarbled(q) \/ DSAgain(q)
           \/ DSPanic(q) \/ DSRestart(q)
  <2>1. UNCHANGED <<gts, gd>> /\ ds[q].pc # "wait" /\ ds'[q].pc \notin {"wait", "done"}
    BY <1>1, <1>6 DEF DSQueryOk, DSQueryError, DSQueryGarbled, PassBlind, DSAgain,
       DSPanic, DSRestart, Idle, At
  <2>2. Parked(ds'[q]) = Parked(ds[q])
    BY <2>1 DEF Parked
  <2> QED
    BY <1>0, <2>1, <2>2
<1> QED
  BY <1>2, <1>3, <1>4, <1>5, <1>6 DEF DatasourceStep

LEMMA EvaluatorBound ==
  ASSUME TypeOK, NEW q \in Query, QueryInv(q), EvaluatorStep(q)
  PROVE  QueryInv(q)'
<1> USE DEF QueryInv, BuffersFit, SchedulerPhase, PullStopsAtMetrics
<1>0. UNCHANGED <<sched, hist, jobs, gts, ds, pu>>
  BY DEF EvaluatorStep, schedVars, dsVars, puVars
<1>1. ev \in [Query -> Stage({"get", "wait", "panic"}, {"update", "gather", "put"})]
      /\ gd \in [Query -> Seq(Window)] /\ gm \in [Query -> Seq(Window)]
  BY DEF TypeOK
<1>2. CASE EVWait(q)
  <2>1. UNCHANGED <<gd, gm>> /\ ev'[q].pc = "wait" /\ gd[q] = <<>>
    BY <1>1, <1>2 DEF EVWait, At
  <2>2. Len(gd'[q]) <= GDSize[q] + Parked(ev'[q])
    BY <2>1, Lengths, EmptyFits
  <2> QED
    BY <1>0, <2>1, <2>2
<1>3. CASE EVGet(q)
  <2>1. /\ gd[q] # <<>> /\ gd'[q] = Tail(gd[q]) /\ ev'[q].pc = "update"
        /\ UNCHANGED gm
    BY <1>1, <1>3 DEF EVGet, At
  <2>2. Len(gd'[q]) <= GDSize[q] + Parked(ev'[q])
    BY <2>1, Lengths, ReceiveFits
  <2> QED
    BY <1>0, <2>1, <2>2
<1>4. CASE EVPut(q)
  <2>1. /\ gm'[q] = Append(gm[q], ev[q].win) /\ UNCHANGED gd
        /\ ev[q].pc = "put" /\ ev'[q].pc = "get"
        /\ Room(gm[q], GMSize[q], pu[q])
    BY <1>1, <1>4 DEF EVPut, Idle, At
  <2>2. Len(gm'[q]) <= GMSize[q] + Parked(pu[q])
    BY <2>1, InHand, Lengths, SendFits
  <2>3. Parked(ev'[q]) = Parked(ev[q])
    BY <2>1 DEF Parked
  <2> QED
    BY <1>0, <2>1, <2>2, <2>3
<1>5. CASE EVUpdate(q) \/ EVGather(q) \/ EVSkip(q) \/ EVPanic(q) \/ EVRestart(q)
  <2>1. /\ UNCHANGED <<gd, gm>>
        /\ ev[q].pc # "wait" /\ ev'[q].pc # "wait"
        /\ ~PushExport => ev'[q].pc \notin {"gather", "put"}
    BY <1>1, <1>5 DEF EVUpdate, EVGather, EVSkip, EVPanic, EVRestart, Idle, At
  <2>2. Parked(ev'[q]) = Parked(ev[q])
    BY <2>1 DEF Parked
  <2> QED
    BY <1>0, <2>1, <2>2
<1> QED
  BY <1>2, <1>3, <1>4, <1>5 DEF EvaluatorStep

LEMMA PushBound ==
  ASSUME TypeOK, NEW q \in Query, QueryInv(q), PushStep(q)
  PROVE  QueryInv(q)'
<1> USE DEF QueryInv, BuffersFit, SchedulerPhase, PullStopsAtMetrics
<1>0. UNCHANGED <<sched, hist, jobs, gts, gd, ds, ev>>
  BY DEF PushStep, schedVars, dsVars, evVars
<1>1. /\ gm \in [Query -> Seq(Window)]
      /\ pu = [r \in Query |-> pu[r]]
  BY DEF TypeOK
<1>2. CASE PUWait(q)
  <2>1. UNCHANGED gm /\ pu'[q].pc = "wait" /\ gm[q] = <<>> /\ PushExport
    BY <1>1, <1>2 DEF PUWait, Push
  <2>2. Len(gm'[q]) <= GMSize[q] + Parked(pu'[q])
    BY <2>1, Lengths, EmptyFits
  <2> QED
    BY <1>0, <2>1, <2>2
<1>3. CASE PUGet(q)
  <2>1. /\ gm[q] # <<>> /\ gm'[q] = Tail(gm[q]) /\ pu'[q].pc = "send"
        /\ PushExport
    BY <1>1, <1>3 DEF PUGet, Push
  <2>2. Len(gm'[q]) <= GMSize[q] + Parked(pu'[q])
    BY <2>1, Lengths, ReceiveFits
  <2> QED
    BY <1>0, <2>1, <2>2
<1>4. CASE \/ PUAck(q) \/ PUError(q) \/ PULostReply(q)
           \/ PUAgain(q) \/ PUPanic(q) \/ PURestart(q)
  <2>1. UNCHANGED gm /\ pu[q].pc \notin {"get", "wait"} /\ pu'[q].pc # "wait"
    BY <1>1, <1>4 DEF PUAck, PUError, PULostReply, RetryLater, PUAgain, PUPanic,
       PURestart, Sending, IdlePusher, Push
  <2>2. Parked(pu'[q]) = Parked(pu[q])
    BY <2>1 DEF Parked
  <2> QED
    BY <1>0, <2>1, <2>2
<1> QED
  BY <1>2, <1>3, <1>4 DEF PushStep

LEMMA StepBound == TypeOK /\ BoundInv /\ [Next]_vars => BoundInv'
<1> SUFFICES ASSUME TypeOK, BoundInv, [Next]_vars, NEW r \in Query
             PROVE  QueryInv(r)'
  BY DEF BoundInv
<1>1. QueryInv(r)
  BY DEF BoundInv
<1>2. UNCHANGED StateOf(r) => QueryInv(r)'
  BY <1>1 DEF StateOf, QueryInv, BuffersFit, SchedulerPhase, PullStopsAtMetrics, Parked
<1>3. CASE UNCHANGED vars
  BY <1>2, <1>3 DEF StateOf, vars, schedVars, dsVars, evVars, puVars
<1>4. ASSUME NEW q \in Query, Moves(q)
      PROVE  QueryInv(r)'
  <2>1. CASE r = q
    BY <1>1, <1>4, <2>1, SchedulerBound, DatasourceBound, EvaluatorBound, PushBound DEF Moves
  <2>2. CASE r # q
    BY <1>2, <1>4, <2>2, OthersUnchanged
  <2> QED
    BY <2>1, <2>2
<1> QED
  BY <1>3, <1>4 DEF Next, Moves

LEMMA InvariantHolds == Spec => [](TypeOK /\ BoundInv)
BY InitType, StepType, InitBound, StepBound, PTL DEF Spec

(* A stage and its input queue: the place of a parked stage is free.       *)
LEMMA SectionLength ==
  ASSUME NEW held \in Seq(Window), NEW buffer \in Seq(Window),
         NEW capacity \in Nat, NEW parked \in {0, 1},
         Len(held) <= 1 - parked, Len(buffer) <= capacity + parked
  PROVE  held \o buffer \in Seq(Window) /\ Len(held \o buffer) <= capacity + 1
BY ConcatProperties

LEMMA HeldLength ==
  ASSUME NEW stage, stage.win \in Window \cup {NoWindow},
         stage.pc = "wait" => stage.win = NoWindow
  PROVE  Held(stage) \in Seq(Window) /\ Len(Held(stage)) <= 1 - Parked(stage)
BY DEF Held, Parked

LEMMA SectionsFit ==
  ASSUME TypeOK, BoundInv, NEW q \in Query
  PROVE  /\ AtDatasource(q) \in Seq(Window) /\ Len(AtDatasource(q)) <= GTSSize[q] + 1
         /\ AtEvaluator(q) \in Seq(Window) /\ Len(AtEvaluator(q)) <= GDSize[q] + 1
         /\ AtPusher(q) \in Seq(Window) /\ Len(AtPusher(q)) <= GMSize[q] + 1
         /\ ~PushExport => Len(AtPusher(q)) = 0
<1>1. /\ gts[q] \in Seq(Window) /\ gd[q] \in Seq(Window) /\ gm[q] \in Seq(Window)
      /\ ds[q].win \in Window \cup {NoWindow}
      /\ ev[q].win \in Window \cup {NoWindow}
      /\ pu[q].win \in Window \cup {NoWindow}
  BY DEF TypeOK, Stage
<1>2. /\ Held(ds[q]) \in Seq(Window) /\ Len(Held(ds[q])) <= 1 - Parked(ds[q])
      /\ Held(ev[q]) \in Seq(Window) /\ Len(Held(ev[q])) <= 1 - Parked(ev[q])
      /\ Held(pu[q]) \in Seq(Window) /\ Len(Held(pu[q])) <= 1 - Parked(pu[q])
  BY <1>1, InHand, HeldLength
<1>3. HeldByPusher(q) \in Seq(Window) /\ Len(HeldByPusher(q)) <= 1 - Parked(pu[q])
  <2>1. 0 <= 1 - Parked(pu[q])
    BY DEF Parked
  <2>2. Len(<<>>) = 0 /\ <<>> \in Seq(Window)
    OBVIOUS
  <2> QED
    BY <1>2, <2>1, <2>2 DEF HeldByPusher
<1>4. /\ Parked(ds[q]) \in {0, 1} /\ Parked(ev[q]) \in {0, 1} /\ Parked(pu[q]) \in {0, 1}
      /\ Len(gts[q]) <= GTSSize[q] + Parked(ds[q])
      /\ Len(gd[q]) <= GDSize[q] + Parked(ev[q])
      /\ Len(gm[q]) <= GMSize[q] + Parked(pu[q])
  BY DEF BoundInv, QueryInv, BuffersFit, Parked
<1>5. AtDatasource(q) \in Seq(Window) /\ Len(AtDatasource(q)) <= GTSSize[q] + 1
  BY <1>1, <1>2, <1>4, SizeNat, SectionLength DEF AtDatasource
<1>6. AtEvaluator(q) \in Seq(Window) /\ Len(AtEvaluator(q)) <= GDSize[q] + 1
  BY <1>1, <1>2, <1>4, SizeNat, SectionLength DEF AtEvaluator
<1>7. AtPusher(q) \in Seq(Window) /\ Len(AtPusher(q)) <= GMSize[q] + 1
  BY <1>1, <1>3, <1>4, SizeNat, SectionLength DEF AtPusher
<1>8. ASSUME ~PushExport
      PROVE  Len(AtPusher(q)) = 0
  <2>1. gm[q] = <<>> /\ pu[q].win = NoWindow
    BY <1>8, InHand DEF BoundInv, QueryInv, PullStopsAtMetrics
  <2> QED
    BY <2>1 DEF AtPusher, HeldByPusher, Held
<1> QED
  BY <1>5, <1>6, <1>7, <1>8

(* Whatever stalls, no more windows are in flight than the buffers and the *)
(* stages have places for.                                                 *)
THEOREM Bounded == Spec => []InFlightBounded
<1>1. TypeOK /\ BoundInv => InFlightBounded
  <2> SUFFICES ASSUME TypeOK, BoundInv, NEW q \in Query
               PROVE  Len(InFlight(q)) <= MostInFlight(q)
    BY DEF InFlightBounded
  <2> DEFINE a == Len(AtPusher(q))
             b == Len(AtEvaluator(q))
             c == Len(AtDatasource(q))
             k == IF PushExport THEN GMSize[q] + 1 ELSE 0
             m == GDSize[q] + 1
             n == GTSSize[q] + 1
  <2>1. Len(InFlight(q)) = a + b + c
    <3>1. AtPusher(q) \o AtEvaluator(q) \in Seq(Window)
          /\ Len(AtPusher(q) \o AtEvaluator(q)) = a + b
      BY SectionsFit, ConcatProperties
    <3> QED
      BY <3>1, SectionsFit, ConcatProperties DEF InFlight
  <2>2. MostInFlight(q) = n + m + k
    BY SizeNat DEF MostInFlight
  <2>3. /\ a \in Nat /\ b \in Nat /\ c \in Nat
        /\ k \in Nat /\ m \in Nat /\ n \in Nat
    <3>1. a \in Nat /\ b \in Nat /\ c \in Nat
      BY SectionsFit, LenProperties
    <3>2. k \in Nat /\ m \in Nat /\ n \in Nat
      BY SizeNat
    <3> QED
      BY <3>1, <3>2
  <2>4. a <= k /\ b <= m /\ c <= n
    BY SectionsFit
  <2> HIDE DEF a, b, c, k, m, n
  <2> QED
    BY <2>1, <2>2, <2>3, <2>4
<1> QED
  BY <1>1, InvariantHolds, PTL

(* The history loop of the scheduler never waits for the datasource.       *)
THEOREM HistoryFits == Spec => []HistoryNeverBlocks
<1>1. TypeOK /\ BoundInv => HistoryNeverBlocks
  <2> SUFFICES ASSUME TypeOK, BoundInv, NEW q \in Query, hist[q] # <<>>
               PROVE  Room(gts[q], GTSSize[q], ds[q])
    BY DEF HistoryNeverBlocks
  <2>1. sched[q] = "history" /\ Len(gts[q]) + Len(hist[q]) <= GTSSize[q]
    BY DEF BoundInv, QueryInv, SchedulerPhase, TypeOK
  <2>2. /\ gts[q] \in Seq(Window) /\ hist[q] \in Seq(Window)
        /\ Len(hist[q]) \in Nat \ {0}
    BY DEF TypeOK
  <2>3. Len(gts[q]) \in Nat /\ GTSSize[q] \in Nat
    BY <2>2, SizeNat
  <2>4. \A m, n \in Nat, k \in Nat \ {0} : m + k <= n => m < n
    OBVIOUS
  <2>5. Len(gts[q]) < GTSSize[q]
    BY <2>1, <2>2, <2>3, <2>4
  <2> QED
    BY <2>2, <2>3, <2>5, RoomLeft
<1> QED
  BY <1>1, InvariantHolds, PTL

(* No send on a closed channel, and no window left behind in one.          *)
THEOREM ClosedIsQuiet == Spec => []NoSendOnClosed
<1>1. TypeOK /\ BoundInv => NoSendOnClosed
  BY DEF BoundInv, QueryInv, SchedulerPhase, NoSendOnClosed
<1> QED
  BY <1>1, InvariantHolds, PTL

-----------------------------------------------------------------------------
(* Second part: what becomes of the windows.                               *)

(* A push service that encodes the request of every attempt anew.          *)
BodyFull == \A q \in Query : pu[q].body = "full"

LEMMA InitBody == Init => BodyFull
BY DEF Init, BodyFull, IdlePusher, Push

LEMMA StepBody ==
  ASSUME Export # "victoria", TypeOK, BodyFull, [Next]_vars
  PROVE  BodyFull'
<1> USE DEF BodyFull
<1>0. pu = [r \in Query |-> pu[r]]
  BY DEF TypeOK
<1>1. CASE UNCHANGED vars
  BY <1>1 DEF vars, puVars
<1>2. ASSUME NEW q \in Query, PushStep(q)
      PROVE  BodyFull'
  <2>1. BodyAfterSend = "full" /\ pu[q].body = "full"
    BY DEF BodyAfterSend
  <2>2. CASE PUAck(q) \/ PULostReply(q)
    BY <1>0, <2>1, <2>2 DEF PUAck, PULostReply, RetryLater, Push, IdlePusher
  <2>3. CASE PUError(q)
    BY <1>0, <2>1, <2>3 DEF PUError, RetryLater, Push, IdlePusher
  <2>4. CASE PUWait(q) \/ PUGet(q) \/ PUAgain(q) \/ PUPanic(q) \/ PURestart(q)
    BY <1>0, <2>1, <2>4 DEF PUWait, PUGet, PUAgain, PUPanic, PURestart, Push, IdlePusher
  <2> QED
    BY <1>2, <2>2, <2>3, <2>4 DEF PushStep
<1>3. ASSUME NEW q \in Query,
             SchedulerPuts(q) \/ Clock(q) \/ DatasourceStep(q) \/ EvaluatorStep(q)
      PROVE  BodyFull'
  BY <1>3 DEF SchedulerPuts, Clock, DatasourceStep, EvaluatorStep, puVars
<1> QED
  BY <1>1, <1>2, <1>3 DEF Next

(* With remote write an acknowledged push has stored its snapshot: the     *)
(* body of the acknowledged attempt is the whole of it.                    *)
THEOREM RemoteWriteAckedStored ==
  ASSUME Export # "victoria"
  PROVE  Spec => AckedPushStored
<1> DEFINE Acked ==
      \A q \in Query :
        PushRetry /\ Sending(q) /\ pu'[q].pc = "get" =>
          remote'[q] # <<>> /\ remote'[q][Len(remote'[q])] = pu[q].win
<1>1. TypeOK /\ BodyFull /\ [Next]_vars => [Acked]_vars
  <2> SUFFICES ASSUME TypeOK, BodyFull, Next, NEW q \in Query,
                      PushRetry, Sending(q), pu'[q].pc = "get"
               PROVE  remote'[q] # <<>> /\ remote'[q][Len(remote'[q])] = pu[q].win
    OBVIOUS
  <2>1. pu'[q] # pu[q]
    BY DEF Sending
  <2>2. PICK r \in Query : Moves(r)
    BY DEF Next, Moves
  <2>3. PushStep(q)
    <3>1. r = q
      BY <2>1, <2>2, OthersUnchanged DEF StateOf
    <3>2. PushStep(r)
      BY <2>1, <2>2 DEF Moves, SchedulerPuts, Clock, DatasourceStep, EvaluatorStep, puVars
    <3> QED
      BY <3>1, <3>2
  <2>4. pu = [s \in Query |-> pu[s]] /\ remote \in [Query -> Seq(Window)]
    BY DEF TypeOK
  <2>5. pu[q].win \in Window /\ pu[q].body = "full"
    BY InHand DEF Sending, BodyFull
  <2>6. PUAck(q)
    BY <2>3, <2>4 DEF PushStep, Sending, PUWait, PUGet, PUError, RetryLater, PULostReply,
       PUAgain, PUPanic, PURestart, Push
  <2>7. Store(q)
    BY <2>5, <2>6 DEF PUAck
  <2>8. CASE Stored(q)
    BY <2>4, <2>7, <2>8 DEF Store, Stored
  <2>9. CASE ~Stored(q)
    <3>1. remote'[q] = Append(remote[q], pu[q].win) /\ remote[q] \in Seq(Window)
      BY <2>4, <2>7, <2>9 DEF Store
    <3> QED
      BY <2>5, <3>1
  <2> QED
    BY <2>8, <2>9
<1>2. TypeOK /\ BodyFull /\ [Next]_vars => BodyFull'
  BY StepBody
<1> QED
  BY <1>1, <1>2, InitBody, InitType, StepType, PTL DEF Spec, AckedPushStored

-----------------------------------------------------------------------------
(* What the retries save.                                                  *)

LossBounded(q) ==
  /\ blind[q] = {}
  /\ IsFiniteSet(lost[q])
  /\ Cardinality(lost[q]) <= panics[q]

LossInv == \A q \in Query : LossBounded(q)

(* A panic costs one window at most and nothing else costs any.            *)
LossOf(q) ==
  /\ blind'[q] = blind[q]
  /\ \/ lost'[q] = lost[q] /\ panics'[q] = panics[q]
     \/ /\ panics'[q] = panics[q] + 1
        /\ \E w \in Window : lost'[q] \in {lost[q], lost[q] \cup {w}}

LEMMA StepLoss ==
  ASSUME DatasourceRetry, PushRetry, Datasource # "newrelic",
         TypeOK, BodyFull, NEW q \in Query, Moves(q), NEW r \in Query
  PROVE  LossOf(r)
<1> USE DEF LossOf
<1>0. /\ blind \in [Query -> SUBSET Window]
      /\ lost \in [Query -> SUBSET Window]
      /\ panics \in [Query -> Nat]
  BY DEF TypeOK
<1>1. CASE SchedulerPuts(q) \/ Clock(q)
  BY <1>1 DEF SchedulerPuts, Clock, dsVars
<1>2. ASSUME NEW w \in Window, CountPanic(q, w)
      PROVE  \/ lost'[r] = lost[r] /\ panics'[r] = panics[r]
             \/ panics'[r] = panics[r] + 1 /\ lost'[r] = lost[r] \cup {w}
  BY <1>0, <1>2 DEF CountPanic
<1>3. CASE DatasourceStep(q)
  <2>1. CASE DSPanic(q)
    <3>1. ds[q].win \in Window /\ CountPanic(q, ds[q].win) /\ UNCHANGED blind
      BY <2>1, InHand DEF DSPanic
    <3> QED
      BY <1>2, <3>1
  <2>2. CASE ~DSPanic(q)
    BY <1>3, <2>2 DEF DatasourceStep, DSWait, DSGet, DSStop, DSQueryOk, DSQueryError,
       DSQueryGarbled, DSAgain, DSPut, DSRestart
  <2> QED
    BY <2>1, <2>2
<1>4. CASE EvaluatorStep(q)
  <2>0. UNCHANGED blind
    BY <1>4 DEF EvaluatorStep, dsVars
  <2>1. CASE EVPanic(q)
    <3>1. ev[q].win \in Window /\ CountPanic(q, ev[q].win)
      BY <2>1, InHand DEF EVPanic
    <3> QED
      BY <1>2, <2>0, <3>1
  <2>2. CASE ~EVPanic(q)
    BY <1>4, <2>0, <2>2 DEF EvaluatorStep, EVWait, EVGet, EVUpdate, EVGather, EVPut, EVSkip,
       EVRestart
  <2> QED
    BY <2>1, <2>2
<1>5. CASE PushStep(q)
  <2>0. UNCHANGED blind
    BY <1>5 DEF PushStep, dsVars
  <2>1. CASE PUPanic(q)
    <3>1. pu[q].win \in Window /\ GiveUp(q) /\ panics' = [panics EXCEPT ![q] = @ + 1]
      BY <2>1, InHand DEF PUPanic, Sending
    <3> QED
      BY <1>0, <2>0, <3>1 DEF GiveUp
  <2>2. CASE ~PUPanic(q)
    BY <1>5, <2>0, <2>2 DEF PushStep, PUWait, PUGet, PUAck, PUError, PULostReply,
       PUAgain, PURestart, BodyFull
  <2> QED
    BY <2>1, <2>2
<1> QED
  BY <1>1, <1>3, <1>4, <1>5 DEF Moves

LEMMA LossKept ==
  ASSUME TypeOK, NEW q \in Query, LossBounded(q), LossOf(q)
  PROVE  LossBounded(q)'
<1> DEFINE m == Cardinality(lost[q])
           n == Cardinality(lost'[q])
<1>1. panics[q] \in Nat /\ m \in Nat /\ m <= panics[q] /\ IsFiniteSet(lost[q])
  BY FS_CardinalityType DEF TypeOK, LossBounded
<1>2. CASE lost'[q] = lost[q] /\ panics'[q] \in {panics[q], panics[q] + 1}
  BY <1>1, <1>2 DEF LossBounded, LossOf
<1>3. ASSUME NEW w \in Window, lost'[q] = lost[q] \cup {w}, panics'[q] = panics[q] + 1
      PROVE  LossBounded(q)'
  <2>1. IsFiniteSet(lost'[q]) /\ n \in {m, m + 1}
    BY <1>1, <1>3, FS_AddElement
  <2> HIDE DEF m, n
  <2>2. n <= panics'[q]
    BY <1>1, <1>3, <2>1
  <2> QED
    BY <2>1, <2>2 DEF LossBounded, LossOf, n
<1> QED
  BY <1>2, <1>3 DEF LossOf

(* With both retries on, remote write and a datasource that reports what   *)
(* it cannot decode, panics are all that costs windows, one at most each.  *)
THEOREM RetriesSave ==
  ASSUME Export # "victoria", Datasource # "newrelic"
  PROVE  Spec => []RetriesLoseNothing
<1>1. CASE ~(DatasourceRetry /\ PushRetry)
  <2>1. RetriesLoseNothing
    BY <1>1 DEF RetriesLoseNothing
  <2> QED
    BY <2>1, PTL
<1>2. CASE DatasourceRetry /\ PushRetry
  <2>1. Init => LossInv
    BY FS_EmptySet DEF Init, LossInv, LossBounded
  <2>2. TypeOK /\ BodyFull /\ LossInv /\ [Next]_vars => LossInv'
    <3> SUFFICES ASSUME TypeOK, BodyFull, LossInv, [Next]_vars, NEW r \in Query
                 PROVE  LossBounded(r)'
      BY DEF LossInv
    <3>1. CASE UNCHANGED vars
      BY <3>1 DEF LossInv, LossBounded, vars, dsVars
    <3>2. CASE Next
      <4>1. PICK q \in Query : Moves(q)
        BY <3>2 DEF Next, Moves
      <4> QED
        BY <1>2, <4>1, StepLoss, LossKept DEF LossInv
    <3> QED
      BY <3>1, <3>2
  <2>3. LossInv => RetriesLoseNothing
    <3> SUFFICES ASSUME LossInv, NEW q \in Query
                 PROVE  Cardinality(lost[q] \cup blind[q]) <= panics[q]
      BY DEF RetriesLoseNothing
    <3>1. lost[q] \cup blind[q] = lost[q]
      BY DEF LossInv, LossBounded
    <3> QED
      BY <3>1 DEF LossInv, LossBounded
  <2>4. TypeOK /\ BodyFull /\ [Next]_vars => BodyFull'
    BY StepBody
  <2> QED
    BY <2>1, <2>2, <2>3, <2>4, InitBody, InitType, StepType, PTL DEF Spec
<1> QED
  BY <1>1, <1>2

-----------------------------------------------------------------------------
(* Windows are folded once, in the order they were accepted.               *)

(* The sequence s runs through acc in its order, skipping what it skips.   *)
Follows(acc, s) ==
  /\ \A i \in 1..Len(s) : \E k \in 1..Len(acc) : acc[k] = s[i]
  /\ \A i, j \in 1..Len(s) :
       i < j => \E k, l \in 1..Len(acc) : k < l /\ acc[k] = s[i] /\ acc[l] = s[j]

LEMMA FollowsAppend ==
  ASSUME NEW acc \in Seq(Window), NEW s \in Seq(Window), NEW w \in Window, Follows(acc, s)
  PROVE  Follows(Append(acc, w), Append(s, w))
<1> DEFINE a == Append(acc, w)
           t == Append(s, w)
           m == Len(acc)
           n == Len(s)
<1>1. /\ m \in Nat /\ n \in Nat /\ Len(a) = m + 1 /\ Len(t) = n + 1
      /\ \A k \in 1..m : a[k] = acc[k]
      /\ \A i \in 1..n : t[i] = s[i]
      /\ a[m + 1] = w /\ t[n + 1] = w
  OBVIOUS
<1>2. /\ \A i \in 1..n : \E k \in 1..m : acc[k] = s[i]
      /\ \A i, j \in 1..n :
           i < j => \E k, l \in 1..m : k < l /\ acc[k] = s[i] /\ acc[l] = s[j]
  BY DEF Follows
<1> HIDE DEF a, t, m, n
<1>3. \A i \in 1..(n + 1) : \E k \in 1..(m + 1) : a[k] = t[i]
  <2> SUFFICES ASSUME NEW i \in 1..(n + 1) PROVE \E k \in 1..(m + 1) : a[k] = t[i]
    OBVIOUS
  <2>1. CASE i = n + 1
    BY <1>1, <2>1
  <2>2. CASE i \in 1..n
    <3>1. PICK k \in 1..m : acc[k] = s[i]
      BY <1>2, <2>2
    <3> QED
      BY <1>1, <2>2, <3>1
  <2> QED
    BY <1>1, <2>1, <2>2
<1>4. ASSUME NEW i \in 1..(n + 1), NEW j \in 1..(n + 1), i < j
      PROVE  \E k, l \in 1..(m + 1) : k < l /\ a[k] = t[i] /\ a[l] = t[j]
  <2>1. i \in 1..n
    BY <1>1, <1>4
  <2>2. CASE j = n + 1
    <3>1. PICK k \in 1..m : acc[k] = s[i]
      BY <1>2, <2>1
    <3>2. k < m + 1 /\ k \in 1..(m + 1) /\ m + 1 \in 1..(m + 1)
      BY <1>1
    <3>3. a[k] = t[i] /\ a[m + 1] = t[j]
      BY <1>1, <2>1, <2>2, <3>1
    <3> QED
      BY <3>2, <3>3
  <2>3. CASE j \in 1..n
    <3>1. PICK k \in 1..m, l \in 1..m : k < l /\ acc[k] = s[i] /\ acc[l] = s[j]
      BY <1>2, <1>4, <2>1, <2>3
    <3> QED
      BY <1>1, <2>1, <2>3, <3>1
  <2> QED
    BY <1>1, <2>2, <2>3
<1>5. Follows(a, t)
  <2>1. Len(a) = m + 1 /\ Len(t) = n + 1
    BY <1>1
  <2> QED
    BY <1>3, <1>4, <2>1 DEF Follows
<1> QED
  BY <1>5 DEF a, t

LEMMA FollowsPrefix ==
  ASSUME NEW acc, NEW s \in Seq(Window), NEW t \in Seq(Window), Follows(acc, s \o t)
  PROVE  Follows(acc, s)
<1> DEFINE u == s \o t
<1>1. /\ Len(s) \in Nat /\ Len(t) \in Nat /\ Len(u) = Len(s) + Len(t)
      /\ \A i \in 1..Len(s) : u[i] = s[i] /\ i \in 1..Len(u)
  BY ConcatProperties
<1>2. Follows(acc, u)
  OBVIOUS
<1> HIDE DEF u
<1> QED
  BY <1>1, <1>2, SMTT(60) DEF Follows

(* The function f picks v out of u from left to right and passes over the  *)
(* place k.                                                                *)
Picks(f, u, v, k) ==
  /\ f \in [1..Len(v) -> 1..Len(u)]
  /\ \A i \in 1..Len(v) : u[f[i]] = v[i] /\ f[i] # k
  /\ \A i, j \in 1..Len(v) : i < j => f[i] < f[j]

LEMMA DropOne ==
  ASSUME NEW s \in Seq(Window), NEW w \in Window, NEW t \in Seq(Window)
  PROVE  \E k \in 1..Len(s \o (<<w>> \o t)) :
           /\ (s \o (<<w>> \o t))[k] = w
           /\ \E f : Picks(f, s \o (<<w>> \o t), s \o t, k)
<1> DEFINE u == s \o (<<w>> \o t)
           v == s \o t
           m == Len(s)
           n == Len(t)
           at(i) == IF i <= m THEN i ELSE i + 1
<1>1. <<w>> \in Seq(Window) /\ Len(<<w>>) = 1 /\ <<w>>[1] = w
  OBVIOUS
<1>2. /\ m \in Nat /\ n \in Nat
      /\ <<w>> \o t \in Seq(Window) /\ Len(<<w>> \o t) = 1 + n
      /\ \A i \in 1..(1 + n) : (<<w>> \o t)[i] = IF i <= 1 THEN <<w>>[i] ELSE t[i - 1]
  BY <1>1, ConcatProperties
<1>3. /\ Len(u) = m + (1 + n) /\ Len(v) = m + n
      /\ \A i \in 1..(m + (1 + n)) : u[i] = IF i <= m THEN s[i] ELSE (<<w>> \o t)[i - m]
      /\ \A i \in 1..(m + n) : v[i] = IF i <= m THEN s[i] ELSE t[i - m]
  BY <1>2, ConcatProperties
<1> HIDE DEF u, v, m, n
<1>4. m + 1 \in 1..Len(u) /\ u[m + 1] = w
  <2>1. m + 1 \in 1..(m + (1 + n)) /\ ~(m + 1 <= m) /\ (m + 1) - m = 1 /\ 1 \in 1..(1 + n)
    BY <1>2
  <2> QED
    BY <1>1, <1>2, <1>3, <2>1
<1>5. \A i \in 1..(m + n) : at(i) \in 1..(m + (1 + n)) /\ u[at(i)] = v[i]
  <2> SUFFICES ASSUME NEW i \in 1..(m + n)
               PROVE  at(i) \in 1..(m + (1 + n)) /\ u[at(i)] = v[i]
    OBVIOUS
  <2>1. CASE i <= m
    BY <1>2, <1>3, <2>1
  <2>2. CASE ~(i <= m)
    <3>1. /\ i + 1 \in 1..(m + (1 + n)) /\ ~(i + 1 <= m)
          /\ (i + 1) - m \in 1..(1 + n) /\ ~((i + 1) - m <= 1)
          /\ ((i + 1) - m) - 1 = i - m
      BY <1>2, <2>2
    <3>2. u[i + 1] = t[i - m] /\ v[i] = t[i - m]
      BY <1>2, <1>3, <2>2, <3>1
    <3> QED
      BY <2>2, <3>1, <3>2
  <2> QED
    BY <2>1, <2>2
<1>6. /\ \A i, j \in 1..(m + n) : i < j => at(i) < at(j)
      /\ \A i \in 1..(m + n) : at(i) # m + 1
  BY <1>2
<1> DEFINE f == [i \in 1..Len(v) |-> at(i)]
<1> HIDE DEF at
<1>7. Picks(f, u, v, m + 1)
  BY <1>3, <1>5, <1>6 DEF Picks
<1> QED
  BY <1>4, <1>7 DEF u, v

LEMMA FollowsPicks ==
  ASSUME NEW acc, NEW u, NEW v, NEW f, NEW k, Picks(f, u, v, k), Follows(acc, u)
  PROVE  Follows(acc, v)
<1>1. ASSUME NEW i \in 1..Len(v)
      PROVE  \E l \in 1..Len(acc) : acc[l] = v[i]
  <2>1. f[i] \in 1..Len(u) /\ u[f[i]] = v[i]
    BY DEF Picks
  <2> QED
    BY <2>1 DEF Follows
<1>2. ASSUME NEW i \in 1..Len(v), NEW j \in 1..Len(v), i < j
      PROVE  \E l, o \in 1..Len(acc) : l < o /\ acc[l] = v[i] /\ acc[o] = v[j]
  <2>1. /\ f[i] \in 1..Len(u) /\ u[f[i]] = v[i]
        /\ f[j] \in 1..Len(u) /\ u[f[j]] = v[j]
        /\ f[i] < f[j]
    BY <1>2 DEF Picks
  <2> QED
    BY <2>1 DEF Follows
<1> QED
  BY <1>1, <1>2 DEF Follows

LEMMA FollowsDrop ==
  ASSUME NEW acc, NEW s \in Seq(Window), NEW w \in Window, NEW t \in Seq(Window),
         Follows(acc, s \o (<<w>> \o t))
  PROVE  Follows(acc, s \o t)
BY DropOne, FollowsPicks

(* The windows on their way to the metrics, oldest first.                  *)
Updating(stage) == IF stage.pc = "update" THEN <<stage.win>> ELSE <<>>

Chain(q) == evaluated[q] \o Updating(ev[q]) \o gd[q] \o Held(ds[q]) \o gts[q]

(* No window enters twice: what is still to be sent is new to the pipeline, *)
(* and so is the window of the next tick.                                  *)
Fresh(q) ==
  /\ \A i, j \in 1..Len(accepted[q]) : accepted[q][i] = accepted[q][j] => i = j
  /\ \A i \in 1..Len(accepted[q]) : accepted[q][i] <= tick[q] /\ accepted[q][i] \notin jobs[q]
  /\ \A i \in 1..Len(hist[q]) : hist[q][i] <= tick[q]
  /\ \A i, j \in 1..Len(hist[q]) : hist[q][i] = hist[q][j] => i = j
  /\ \A i \in 1..Len(accepted[q]), j \in 1..Len(hist[q]) : accepted[q][i] # hist[q][j]
  /\ \A w \in jobs[q] : w <= tick[q]

OrderInv == \A q \in Query : Fresh(q) /\ Follows(accepted[q], Chain(q))

LEMMA InitOrder == Init => OrderInv
<1> SUFFICES ASSUME Init, NEW q \in Query
             PROVE  Fresh(q) /\ Follows(accepted[q], Chain(q))
  BY DEF OrderInv
<1>1. /\ accepted[q] = <<>> /\ jobs[q] = {} /\ tick[q] = HistorySize(q)
      /\ hist[q] \in {<<>>, History(q)} /\ HistorySize(q) \in Nat
  BY SizeNat DEF Init
<1>2. Fresh(q)
  <2>1. CASE hist[q] = <<>>
    BY <1>1, <2>1 DEF Fresh
  <2>2. CASE hist[q] = History(q)
    BY <1>1, <2>2 DEF Fresh, History
  <2> QED
    BY <1>1, <2>1, <2>2
<1>3. Chain(q) = <<>>
  <2>1. /\ evaluated[q] = <<>> /\ gd[q] = <<>> /\ gts[q] = <<>>
        /\ Updating(ev[q]) = <<>> /\ Held(ds[q]) = <<>>
    BY DEF Init, Updating, Held, Idle, At
  <2> QED
    BY <2>1 DEF Chain
<1> QED
  BY <1>1, <1>2, <1>3 DEF Follows

(* The windows of the chain, piece by piece.                               *)
LEMMA ChainParts ==
  ASSUME TypeOK, NEW q \in Query
  PROVE  /\ evaluated[q] \in Seq(Window) /\ accepted[q] \in Seq(Window)
         /\ hist[q] \in Seq(Window) /\ jobs[q] \subseteq Window /\ tick[q] \in Nat
         /\ gts[q] \in Seq(Window) /\ gd[q] \in Seq(Window)
         /\ Held(ds[q]) \in Seq(Window) /\ Updating(ev[q]) \in Seq(Window)
<1>1. ds[q].win \in Window \cup {NoWindow}
  BY DEF TypeOK, Stage
<1>2. Held(ds[q]) \in Seq(Window)
  BY <1>1 DEF Held
<1>3. Updating(ev[q]) \in Seq(Window)
  BY InHand DEF Updating
<1> QED
  BY <1>2, <1>3 DEF TypeOK

LEMMA AppendConcat ==
  ASSUME NEW s \in Seq(Window), NEW w \in Window, NEW v, v = <<w>>
  PROVE  Append(s, w) = s \o v /\ v \in Seq(Window)
OBVIOUS

LEMMA HeadFirst ==
  ASSUME NEW s \in Seq(Window), s # <<>>, NEW h, h = <<Head(s)>>
  PROVE  s = h \o Tail(s) /\ h \in Seq(Window) /\ Tail(s) \in Seq(Window)
<1>1. /\ Head(s) \in Window /\ Tail(s) \in Seq(Window)
      /\ Len(Tail(s)) = Len(s) - 1 /\ Len(s) \in Nat
      /\ \A i \in 1..Len(Tail(s)) : Tail(s)[i] = s[i + 1]
      /\ Head(s) = s[1]
  BY HeadTailProperties
<1> DEFINE u == h \o Tail(s)
<1>2. h \in Seq(Window) /\ Len(h) = 1 /\ h[1] = s[1]
  BY <1>1
<1>3. /\ u \in Seq(Window) /\ Len(u) = Len(s)
      /\ \A i \in 1..Len(s) : u[i] = IF i <= 1 THEN h[i] ELSE Tail(s)[i - 1]
  BY <1>1, <1>2, ConcatProperties
<1> HIDE DEF u
<1>4. \A i \in 1..Len(s) : u[i] = s[i]
  <2> SUFFICES ASSUME NEW i \in 1..Len(s) PROVE u[i] = s[i]
    OBVIOUS
  <2>1. CASE i = 1
    BY <1>1, <1>2, <1>3, <2>1
  <2>2. CASE i # 1
    <3>1. i - 1 \in 1..Len(Tail(s)) /\ ~(i <= 1) /\ (i - 1) + 1 = i
      BY <1>1, <2>2
    <3> QED
      BY <1>1, <1>3, <3>1
  <2> QED
    BY <2>1, <2>2
<1>5. u = s
  BY <1>3, <1>4, SeqEqual
<1> QED
  BY <1>1, <1>2, <1>5 DEF u

LEMMA Regroup ==
  ASSUME NEW s \in Seq(Window), NEW t \in Seq(Window), NEW u \in Seq(Window)
  PROVE  s \o (t \o u) = (s \o t) \o u
BY ConcatAssociative

(* Adding t, u and v one after the other is adding z.                      *)
Joins(t, u, v, z) == \A p \in Seq(Window) : p \o t \o u \o v = p \o z

LEMMA RegroupTail ==
  ASSUME NEW t \in Seq(Window), NEW u \in Seq(Window), NEW v \in Seq(Window)
  PROVE  \E z \in Seq(Window) : Joins(t, u, v, z)
<1>1. PICK k \in Seq(Window) : k = u \o v
  BY ConcatProperties
<1>2. PICK z \in Seq(Window) : z = t \o k
  BY ConcatProperties
<1>3. ASSUME NEW p \in Seq(Window)
      PROVE  p \o t \o u \o v = p \o z
  <2>1. PICK l \in Seq(Window) : l = p \o t
    BY ConcatProperties
  <2>2. (l \o u) \o v = l \o k
    BY <1>1, Regroup, SMTT(60)
  <2>3. (p \o t) \o k = p \o (t \o k)
    BY Regroup, SMTT(60)
  <2> QED
    BY <1>2, <2>1, <2>2, <2>3
<1> QED
  BY <1>3 DEF Joins

(* A stage takes the head of its queue in hand.                            *)
LEMMA TakeKeeps ==
  ASSUME NEW p \in Seq(Window), NEW g \in Seq(Window), g # <<>>
  PROVE  p \o <<>> \o g = p \o <<Head(g)>> \o Tail(g)
<1>0. PICK h : h = <<Head(g)>>
  OBVIOUS
<1>1. g = h \o Tail(g) /\ h \in Seq(Window) /\ Tail(g) \in Seq(Window)
  BY <1>0, HeadFirst
<1>2. p \o <<>> = p
  BY ConcatEmptySeq
<1>3. p \o (h \o Tail(g)) = (p \o h) \o Tail(g)
  BY <1>1, Regroup
<1> QED
  BY <1>0, <1>1, <1>2, <1>3

(* A stage puts the window in hand at the end of the next queue.           *)
LEMMA PutKeeps ==
  ASSUME NEW p \in Seq(Window), NEW g \in Seq(Window), NEW w \in Window
  PROVE  p \o g \o <<w>> = p \o Append(g, w) \o <<>>
<1>0. PICK v : v = <<w>>
  OBVIOUS
<1>1. Append(g, w) = g \o v /\ v \in Seq(Window)
  BY <1>0, AppendConcat
<1>2. PICK l \in Seq(Window) : l = g \o v
  BY <1>1, ConcatProperties
<1>3. p \o (g \o v) = (p \o g) \o v
  BY <1>1, Regroup
<1>4. (p \o l) \o <<>> = p \o l
  BY ConcatProperties, ConcatEmptySeq
<1> QED
  BY <1>0, <1>1, <1>2, <1>3, <1>4

(* A window that is accepted joins the end of the chain.                   *)
LEMMA AcceptFollows ==
  ASSUME TypeOK, NEW q \in Query, Follows(accepted[q], Chain(q)),
         NEW w \in Window, Accept(q, w), UNCHANGED <<gd, ds, ev, evaluated>>
  PROVE  Follows(accepted[q], Chain(q))'
<1> DEFINE d == evaluated[q] \o Updating(ev[q]) \o gd[q] \o Held(ds[q])
<1>1. d \in Seq(Window) /\ gts[q] \in Seq(Window)
  BY ChainParts, ConcatProperties
<1>2. gts'[q] = Append(gts[q], w) /\ accepted'[q] = Append(accepted[q], w)
  BY DEF Accept, TypeOK
<1>3. Chain(q) = d \o gts[q] /\ Chain(q)' = d \o gts'[q]
  BY DEF Chain
<1> HIDE DEF d
<1>0. PICK v : v = <<w>>
  OBVIOUS
<1>4. Append(gts[q], w) = gts[q] \o v /\ v \in Seq(Window)
  BY <1>0, <1>1, AppendConcat
<1>5. d \o (gts[q] \o v) = (d \o gts[q]) \o v
  BY <1>1, <1>4, Regroup
<1>6. d \o gts[q] \in Seq(Window)
  BY <1>1, ConcatProperties
<1>7. Chain(q)' = Append(Chain(q), w)
  BY <1>0, <1>2, <1>3, <1>4, <1>5, <1>6, AppendConcat, SMTT(60)
<1>8. Chain(q) \in Seq(Window) /\ accepted[q] \in Seq(Window)
  BY <1>3, <1>6, ChainParts
<1> QED
  BY <1>2, <1>7, <1>8, FollowsAppend

(* Of a window that was not yet accepted, one that is accepted is new.     *)
LEMMA AcceptNew ==
  ASSUME NEW acc \in Seq(Window), NEW w \in Window,
         \A i, j \in 1..Len(acc) : acc[i] = acc[j] => i = j,
         \A i \in 1..Len(acc) : acc[i] # w
  PROVE  /\ \A i, j \in 1..Len(Append(acc, w)) :
              Append(acc, w)[i] = Append(acc, w)[j] => i = j
         /\ \A i \in 1..Len(Append(acc, w)) :
              Append(acc, w)[i] = w \/ \E k \in 1..Len(acc) : Append(acc, w)[i] = acc[k]
<1> DEFINE a == Append(acc, w)
           m == Len(acc)
<1>1. /\ m \in Nat /\ Len(a) = m + 1 /\ a[m + 1] = w
      /\ \A k \in 1..m : a[k] = acc[k]
  OBVIOUS
<1> HIDE DEF a, m
<1>2. \A i \in 1..(m + 1) : i = m + 1 \/ i \in 1..m
  BY <1>1
<1>3. \A i, j \in 1..Len(a) : a[i] = a[j] => i = j
  BY <1>1, <1>2 DEF m
<1>4. \A i \in 1..Len(a) : a[i] = w \/ \E k \in 1..m : a[i] = acc[k]
  BY <1>1, <1>2
<1> QED
  BY <1>3, <1>4 DEF a, m

LEMMA SchedulerOrder ==
  ASSUME TypeOK, NEW q \in Query, QueryInv(q), Fresh(q), Follows(accepted[q], Chain(q)),
         SchedulerPuts(q) \/ Clock(q)
  PROVE  Fresh(q)' /\ Follows(accepted[q], Chain(q))'
<1>0. UNCHANGED <<gd, ds, ev, evaluated>>
  BY DEF SchedulerPuts, Clock, dsVars, evVars
<1>1. /\ hist[q] \in Seq(Window) /\ accepted[q] \in Seq(Window)
      /\ jobs[q] \subseteq Window /\ tick[q] \in Nat
      /\ \A i \in 1..Len(accepted[q]) : accepted[q][i] \in Nat
      /\ \A i \in 1..Len(hist[q]) : hist[q][i] \in Window
  BY ChainParts, ElementOfSeq DEF Window
<1>2. UNCHANGED <<accepted, gts>> => Follows(accepted[q], Chain(q))'
  BY <1>0 DEF Chain
<1>3. CASE SendHistory(q)
  <2> DEFINE w == Head(hist[q])
             t == Tail(hist[q])
  <2>1. /\ hist[q] # <<>> /\ Accept(q, w) /\ UNCHANGED <<tick, jobs>>
        /\ hist'[q] = t /\ accepted'[q] = Append(accepted[q], w)
        /\ jobs[q] = {}
    BY <1>3 DEF SendHistory, Accept, TypeOK, QueryInv, SchedulerPhase
  <2>2. /\ w \in Window /\ w = hist[q][1] /\ 1 \in 1..Len(hist[q])
        /\ Len(t) \in Nat
        /\ \A i \in 1..Len(t) : i + 1 \in 1..Len(hist[q]) /\ t[i] = hist[q][i + 1] /\ i + 1 # 1
    BY <1>1, <2>1, HeadTailProperties
  <2> HIDE DEF w, t
  <2>3. \A i \in 1..Len(accepted[q]) : accepted[q][i] # w
    BY <2>2 DEF Fresh
  <2>4. /\ \A i, j \in 1..Len(accepted'[q]) : accepted'[q][i] = accepted'[q][j] => i = j
        /\ \A i \in 1..Len(accepted'[q]) :
             accepted'[q][i] = w \/ \E k \in 1..Len(accepted[q]) : accepted'[q][i] = accepted[q][k]
    BY <1>1, <2>1, <2>2, <2>3, AcceptNew DEF Fresh
  <2>5. /\ \A i \in 1..Len(t) : t[i] <= tick[q] /\ t[i] # w
        /\ \A i, j \in 1..Len(t) : t[i] = t[j] => i = j
        /\ \A i \in 1..Len(accepted[q]), j \in 1..Len(t) : accepted[q][i] # t[j]
    <3>1. \A i \in 1..Len(t) : t[i] <= tick[q] /\ t[i] # w
      BY <2>2 DEF Fresh
    <3>2. ASSUME NEW i \in 1..Len(t), NEW j \in 1..Len(t), t[i] = t[j]
          PROVE  i = j
      <4>1. i + 1 = j + 1
        BY <2>2, <3>2 DEF Fresh
      <4> QED
        BY <2>2, <4>1
    <3>3. \A i \in 1..Len(accepted[q]), j \in 1..Len(t) : accepted[q][i] # t[j]
      BY <2>2 DEF Fresh
    <3> QED
      BY <3>1, <3>2, <3>3
  <2>6. w <= tick[q]
    BY <2>2 DEF Fresh
  <2>7. Fresh(q)'
    BY <2>1, <2>4, <2>5, <2>6 DEF Fresh
  <2> QED
    BY <1>0, <2>1, <2>2, <2>7, AcceptFollows
<1>4. CASE Schedule(q)
  BY <1>2, <1>4 DEF Schedule, Fresh
<1>5. CASE CronFire(q)
  <2>1. /\ UNCHANGED <<hist, gts, accepted>>
        /\ tick'[q] = tick[q] + 1 /\ jobs'[q] = jobs[q] \cup {tick[q] + 1}
    BY <1>5 DEF CronFire, TypeOK
  <2>2. Fresh(q)'
    <3>1. \A w \in Nat : w <= tick[q] => w <= tick[q] + 1 /\ w # tick[q] + 1
      BY <1>1
    <3> QED
      <4>1. \A i \in 1..Len(accepted'[q]) :
              accepted'[q][i] <= tick'[q] /\ accepted'[q][i] \notin jobs'[q]
        BY <1>1, <2>1, <3>1 DEF Fresh
      <4>2. \A i \in 1..Len(hist'[q]) : hist'[q][i] <= tick'[q]
        BY <1>1, <2>1, <3>1 DEF Fresh, Window
      <4>3. \A w \in jobs'[q] : w <= tick'[q]
        <5>1. \A w \in jobs[q] : w \in Nat
          BY <1>1 DEF Window
        <5> QED
          BY <1>1, <2>1, <3>1, <5>1 DEF Fresh
      <4> QED
        BY <2>1, <4>1, <4>2, <4>3 DEF Fresh
  <2> QED
    BY <1>2, <2>1, <2>2
<1>6. ASSUME NEW w \in jobs[q], CronPut(q, w)
      PROVE  Fresh(q)' /\ Follows(accepted[q], Chain(q))'
  <2>1. /\ w \in Window /\ w <= tick[q] /\ hist[q] = <<>>
        /\ \A i \in 1..Len(accepted[q]) : accepted[q][i] # w
        /\ UNCHANGED <<hist, tick>> /\ jobs'[q] = jobs[q] \ {w}
    BY <1>1, <1>6 DEF CronPut, Fresh, TypeOK, QueryInv, SchedulerPhase
  <2>2. CASE Accept(q, w)
    <3>1. accepted'[q] = Append(accepted[q], w)
      BY <2>2 DEF Accept, TypeOK
    <3>2. /\ \A i, j \in 1..Len(accepted'[q]) : accepted'[q][i] = accepted'[q][j] => i = j
          /\ \A i \in 1..Len(accepted'[q]) :
               accepted'[q][i] = w \/ \E k \in 1..Len(accepted[q]) : accepted'[q][i] = accepted[q][k]
      BY <1>1, <2>1, <3>1, AcceptNew DEF Fresh
    <3>3. Fresh(q)'
      BY <2>1, <3>2 DEF Fresh
    <3> QED
      BY <1>0, <2>1, <2>2, <3>3, AcceptFollows
  <2>3. CASE UNCHANGED <<gts, accepted>>
    BY <1>2, <2>1, <2>3 DEF Fresh
  <2> QED
    BY <1>6, <2>2, <2>3 DEF CronPut
<1> QED
  BY <1>3, <1>4, <1>5, <1>6 DEF SchedulerPuts, Clock

(* A window lost by a panic leaves the others in order.                    *)
LEMMA LossKeepsOrder ==
  ASSUME NEW acc, NEW p \in Seq(Window), NEW w \in Window, NEW t \in Seq(Window),
         Follows(acc, p \o <<w>> \o t)
  PROVE  Follows(acc, p \o <<>> \o t)
<1>1. PICK v : v = <<w>>
  OBVIOUS
<1>2. v \in Seq(Window)
  BY <1>1
<1>3. p \o (v \o t) = (p \o v) \o t
  BY <1>2, Regroup
<1>4. p \o <<>> = p
  BY ConcatEmptySeq
<1>5. Follows(acc, p \o t)
  BY <1>1, <1>3, FollowsDrop
<1> QED
  BY <1>4, <1>5

LEMMA EarlyLossKeepsOrder ==
  ASSUME NEW acc, NEW p \in Seq(Window), NEW w \in Window, NEW t \in Seq(Window),
         NEW u \in Seq(Window), NEW v \in Seq(Window),
         Follows(acc, p \o <<w>> \o t \o u \o v)
  PROVE  Follows(acc, p \o <<>> \o t \o u \o v)
<1>1. PICK a : a = p \o <<w>>
  OBVIOUS
<1>2. PICK b : b = p \o <<>>
  OBVIOUS
<1>3. a \in Seq(Window) /\ b \in Seq(Window)
  BY <1>1, <1>2, ConcatProperties
<1>4. PICK z \in Seq(Window) : Joins(t, u, v, z)
  BY RegroupTail
<1>5. /\ a \o t \o u \o v = a \o z
      /\ b \o t \o u \o v = b \o z
  BY <1>3, <1>4 DEF Joins
<1>6. Follows(acc, b \o z)
  BY <1>1, <1>2, <1>5, LossKeepsOrder
<1> QED
  BY <1>2, <1>5, <1>6

LEMMA DatasourceOrder ==
  ASSUME TypeOK, NEW q \in Query, Follows(accepted[q], Chain(q)), DatasourceStep(q)
  PROVE  Follows(accepted[q], Chain(q))'
<1> DEFINE e == evaluated[q] \o Updating(ev[q])
           p == e \o gd[q]
<1>0. UNCHANGED <<accepted, ev, evaluated>>
  BY DEF DatasourceStep, evVars
<1>1. e \in Seq(Window) /\ p \in Seq(Window) /\ gd[q] \in Seq(Window) /\ gts[q] \in Seq(Window)
  BY ChainParts, ConcatProperties
<1>2. /\ Chain(q) = p \o Held(ds[q]) \o gts[q]
      /\ Chain(q)' = e \o gd'[q] \o Held(ds'[q]) \o gts'[q]
  BY <1>0 DEF Chain
<1>3. ds = [r \in Query |-> ds[r]] /\ gts = [r \in Query |-> gts[r]] /\ gd = [r \in Query |-> gd[r]]
  BY DEF TypeOK
<1>4. Chain(q)' = Chain(q) => Follows(accepted[q], Chain(q))'
  BY <1>0
<1> HIDE DEF e
<1>5. CASE DSGet(q)
  <2>1. /\ gts[q] # <<>> /\ gts'[q] = Tail(gts[q]) /\ gd'[q] = gd[q]
        /\ ds'[q].win = Head(gts[q]) /\ Head(gts[q]) \in Window /\ ds[q].win = NoWindow
    BY <1>1, <1>3, <1>5, InHand, HeadTailProperties DEF DSGet, Receiving, At
  <2>2. Held(ds[q]) = <<>> /\ Held(ds'[q]) = <<Head(gts[q])>>
    BY <2>1 DEF Held, Window
  <2>3. p \o <<>> \o gts[q] = p \o <<Head(gts[q])>> \o Tail(gts[q])
    BY <1>1, <2>1, TakeKeeps
  <2> QED
    BY <1>2, <1>4, <2>1, <2>2, <2>3
<1>6. CASE DSPut(q)
  <2>1. /\ gd'[q] = Append(gd[q], ds[q].win) /\ gts'[q] = gts[q]
        /\ ds'[q].win = NoWindow /\ ds[q].win \in Window
    BY <1>3, <1>6, InHand DEF DSPut, Idle, At
  <2>2. Held(ds[q]) = <<ds[q].win>> /\ Held(ds'[q]) = <<>>
    BY <2>1 DEF Held, Window
  <2>3. e \o gd[q] \o <<ds[q].win>> = e \o Append(gd[q], ds[q].win) \o <<>>
    BY <1>1, <2>1, PutKeeps
  <2> QED
    BY <1>2, <1>4, <2>1, <2>2, <2>3
<1>7. CASE DSPanic(q)
  <2>1. /\ gd'[q] = gd[q] /\ gts'[q] = gts[q]
        /\ ds'[q].win = NoWindow /\ ds[q].win \in Window
    BY <1>3, <1>7, InHand DEF DSPanic, At
  <2>2. Held(ds[q]) = <<ds[q].win>> /\ Held(ds'[q]) = <<>>
    BY <2>1 DEF Held, Window
  <2>3. Follows(accepted[q], p \o <<>> \o gts[q])
    BY <1>1, <1>2, <2>1, <2>2, LossKeepsOrder
  <2> QED
    BY <1>0, <1>2, <2>1, <2>2, <2>3
<1>8. CASE \/ DSWait(q) \/ DSStop(q) \/ DSQueryOk(q) \/ DSQueryError(q)
           \/ DSQueryGarbled(q) \/ DSAgain(q) \/ DSRestart(q)
  <2>1. gd'[q] = gd[q] /\ gts'[q] = gts[q] /\ ds'[q].win = ds[q].win
    BY <1>3, <1>8, InHand DEF DSWait, DSStop, DSQueryOk, DSQueryError, DSQueryGarbled,
       PassBlind, DSAgain, DSRestart, Idle, At
  <2> QED
    BY <1>2, <1>4, <2>1 DEF Held
<1> QED
  BY <1>5, <1>6, <1>7, <1>8 DEF DatasourceStep

LEMMA EvaluatorOrder ==
  ASSUME TypeOK, NEW q \in Query, Follows(accepted[q], Chain(q)), EvaluatorStep(q)
  PROVE  Follows(accepted[q], Chain(q))'
<1> DEFINE a == evaluated[q]
           h == Held(ds[q])
<1>0. UNCHANGED <<accepted, ds, gts>>
  BY DEF EvaluatorStep, dsVars
<1>1. a \in Seq(Window) /\ h \in Seq(Window) /\ gd[q] \in Seq(Window) /\ gts[q] \in Seq(Window)
  BY ChainParts
<1>2. /\ Chain(q) = a \o Updating(ev[q]) \o gd[q] \o h \o gts[q]
      /\ Chain(q)' = evaluated'[q] \o Updating(ev'[q]) \o gd'[q] \o h \o gts[q]
  BY <1>0 DEF Chain
<1>3. /\ ev = [r \in Query |-> ev[r]] /\ gd = [r \in Query |-> gd[r]]
      /\ evaluated = [r \in Query |-> evaluated[r]]
  BY DEF TypeOK
<1>4. Chain(q)' = Chain(q) => Follows(accepted[q], Chain(q))'
  BY <1>0
<1> HIDE DEF h
<1>5. CASE EVGet(q)
  <2>1. /\ gd[q] # <<>> /\ gd'[q] = Tail(gd[q]) /\ evaluated'[q] = a
        /\ Updating(ev[q]) = <<>> /\ Updating(ev'[q]) = <<Head(gd[q])>>
    BY <1>3, <1>5 DEF EVGet, Receiving, Updating, At
  <2>2. a \o <<>> \o gd[q] = a \o <<Head(gd[q])>> \o Tail(gd[q])
    BY <1>1, <2>1, TakeKeeps
  <2> QED
    BY <1>2, <1>4, <2>1, <2>2
<1>6. CASE EVUpdate(q)
  <2>1. /\ ev[q].win \in Window /\ evaluated'[q] = Append(a, ev[q].win) /\ gd'[q] = gd[q]
        /\ Updating(ev[q]) = <<ev[q].win>> /\ Updating(ev'[q]) = <<>>
    BY <1>3, <1>6, InHand DEF EVUpdate, Updating, Idle, At
  <2>2. a \o <<ev[q].win>> = Append(a, ev[q].win) \o <<>>
    <3>1. Append(a, ev[q].win) \in Seq(Window)
      BY <1>1, <2>1
    <3> QED
      BY <1>1, <2>1, <3>1, AppendConcat, ConcatEmptySeq
  <2> QED
    BY <1>2, <1>4, <2>1, <2>2
<1>7. CASE EVPanic(q)
  <2>1. /\ evaluated'[q] = a /\ gd'[q] = gd[q] /\ Updating(ev'[q]) = <<>>
        /\ Updating(ev[q]) \in {<<>>, <<ev[q].win>>} /\ ev[q].win \in Window
    BY <1>3, <1>7, InHand DEF EVPanic, Updating, At
  <2>2. CASE Updating(ev[q]) = <<>>
    BY <1>2, <1>4, <2>1, <2>2
  <2>3. CASE Updating(ev[q]) = <<ev[q].win>>
    <3>1. Follows(accepted[q], a \o <<>> \o gd[q] \o h \o gts[q])
      BY <1>1, <1>2, <2>1, <2>3, EarlyLossKeepsOrder
    <3> QED
      BY <1>0, <1>2, <2>1, <3>1
  <2> QED
    BY <2>1, <2>2, <2>3
<1>8. CASE EVWait(q) \/ EVGather(q) \/ EVPut(q) \/ EVSkip(q) \/ EVRestart(q)
  <2>1. /\ evaluated'[q] = a /\ gd'[q] = gd[q]
        /\ Updating(ev'[q]) = <<>> /\ Updating(ev[q]) = <<>>
    BY <1>3, <1>8 DEF EVWait, EVGather, EVPut, EVSkip, EVRestart, Updating, Idle, At
  <2> QED
    BY <1>2, <1>4, <2>1
<1> QED
  BY <1>5, <1>6, <1>7, <1>8 DEF EvaluatorStep

(* What the order of a query depends on.                                   *)
OrderState(q) ==
  <<accepted[q], hist[q], jobs[q], tick[q], evaluated[q], ev[q], gd[q], ds[q], gts[q]>>

LEMMA OthersKeepOrder ==
  ASSUME TypeOK, NEW q \in Query, NEW r \in Query, r # q, Moves(q)
  PROVE  UNCHANGED OrderState(r)
<1>1. UNCHANGED StateOf(r)
  BY OthersUnchanged
<1>2. /\ accepted = [s \in Query |-> accepted[s]] /\ tick = [s \in Query |-> tick[s]]
      /\ evaluated = [s \in Query |-> evaluated[s]]
  BY DEF TypeOK
<1>3. UNCHANGED <<accepted[r], tick[r], evaluated[r]>>
  <2>1. CASE SchedulerPuts(q) \/ Clock(q)
    BY <1>2, <2>1 DEF SchedulerPuts, Clock, evVars, SendHistory, Accept, Schedule, CronFire, CronPut
  <2>2. CASE DatasourceStep(q) \/ PushStep(q)
    BY <2>2 DEF DatasourceStep, PushStep, schedVars, evVars
  <2>3. CASE EvaluatorStep(q)
    BY <1>2, <2>3 DEF EvaluatorStep, schedVars, EVWait, EVGet, EVUpdate, EVGather, EVPut,
       EVSkip, EVPanic, EVRestart
  <2> QED
    BY <2>1, <2>2, <2>3 DEF Moves
<1> QED
  BY <1>1, <1>3 DEF StateOf, OrderState

LEMMA StepOrder == TypeOK /\ BoundInv /\ OrderInv /\ [Next]_vars => OrderInv'
<1> SUFFICES ASSUME TypeOK, BoundInv, OrderInv, [Next]_vars, NEW r \in Query
             PROVE  Fresh(r)' /\ Follows(accepted[r], Chain(r))'
  BY DEF OrderInv
<1>1. Fresh(r) /\ Follows(accepted[r], Chain(r)) /\ QueryInv(r)
  BY DEF OrderInv, BoundInv
<1>2. UNCHANGED OrderState(r) => Fresh(r)' /\ Follows(accepted[r], Chain(r))'
  BY <1>1 DEF OrderState, Fresh, Chain
<1>3. CASE UNCHANGED vars
  BY <1>2, <1>3 DEF OrderState, vars, schedVars, dsVars, evVars
<1>4. ASSUME Moves(r)
      PROVE  Fresh(r)' /\ Follows(accepted[r], Chain(r))'
  <2>1. CASE SchedulerPuts(r) \/ Clock(r)
    BY <1>1, <2>1, SchedulerOrder
  <2>2. CASE DatasourceStep(r)
    BY <1>1, <2>2, DatasourceOrder DEF DatasourceStep, schedVars, Fresh
  <2>3. CASE EvaluatorStep(r)
    BY <1>1, <2>3, EvaluatorOrder DEF EvaluatorStep, schedVars, Fresh
  <2>4. CASE PushStep(r)
    BY <1>2, <2>4 DEF PushStep, schedVars, dsVars, evVars, OrderState
  <2> QED
    BY <1>4, <2>1, <2>2, <2>3, <2>4 DEF Moves
<1>5. ASSUME NEW q \in Query, Moves(q)
      PROVE  Fresh(r)' /\ Follows(accepted[r], Chain(r))'
  BY <1>2, <1>4, <1>5, OthersKeepOrder
<1> QED
  BY <1>3, <1>5 DEF Next, Moves

(* No window is folded into the metrics twice, and the windows are folded  *)
(* in the order in which they entered the GTS queue, whatever the stages   *)
(* lose on the way.                                                        *)
THEOREM FoldedInOrder == Spec => []EvaluatedOnceInOrder
<1>1. TypeOK /\ OrderInv => EvaluatedOnceInOrder
  <2> SUFFICES ASSUME TypeOK, OrderInv, NEW q \in Query
               PROVE  /\ \A i, j \in 1..Len(accepted[q]) : accepted[q][i] = accepted[q][j] => i = j
                      /\ Elements(evaluated[q]) \subseteq Elements(accepted[q])
                      /\ \A i, j \in 1..Len(evaluated[q]) :
                           i < j => Before(q, evaluated[q][i], evaluated[q][j])
    BY DEF EvaluatedOnceInOrder
  <2>1. Fresh(q) /\ Follows(accepted[q], Chain(q))
    BY DEF OrderInv
  <2>2. PICK z \in Seq(Window) : Chain(q) = evaluated[q] \o Updating(ev[q]) \o z
    <3>1. PICK z \in Seq(Window) : Joins(gd[q], Held(ds[q]), gts[q], z)
      BY ChainParts, RegroupTail
    <3>2. evaluated[q] \o Updating(ev[q]) \in Seq(Window)
      BY ChainParts, ConcatProperties
    <3> QED
      BY <3>1, <3>2 DEF Chain, Joins
  <2>3. evaluated[q] \o Updating(ev[q]) \in Seq(Window) /\ evaluated[q] \in Seq(Window)
        /\ Updating(ev[q]) \in Seq(Window)
    BY ChainParts, ConcatProperties
  <2>4. Follows(accepted[q], evaluated[q] \o Updating(ev[q]))
    BY <2>1, <2>2, <2>3, FollowsPrefix
  <2>5. Follows(accepted[q], evaluated[q])
    BY <2>3, <2>4, FollowsPrefix
  <2> QED
    BY <2>1, <2>5, SMTT(60) DEF Follows, Fresh, Elements, Before
<1> QED
  BY <1>1, InvariantHolds, InitOrder, StepOrder, PTL DEF Spec

-----------------------------------------------------------------------------
(* Third part: the refinement of WindowFlow.                               *)

Distinct(s) == \A i, j \in 1..Len(s) : s[i] = s[j] => i = j

(* What has become of the windows of a query that left the pipeline        *)
(* without being delivered.                                                *)
GoneFrom(q) == refused[q] \cup lost[q] \cup unreported[q]

(* The windows delivered and in flight, in the order they entered.         *)
Path(q) == Delivered(q) \o InFlight(q)

(* The windows the scheduler still has to send.                            *)
Awaiting(q) == Elements(hist[q]) \cup jobs[q]

PathDistinct(q) == Distinct(Path(q)) /\ Elements(Path(q)) \cap GoneFrom(q) = {}

AwaitingNew(q) ==
  /\ (Elements(Path(q)) \cup GoneFrom(q)) \cap Awaiting(q) = {}
  /\ Elements(Path(q)) \cup GoneFrom(q) \cup Awaiting(q) \subseteq 1..tick[q]
  /\ Distinct(hist[q])
  /\ tick[q] <= HistorySize(q) + MaxTick

FlowInv == \A q \in Query : PathDistinct(q) /\ AwaitingNew(q)

-----------------------------------------------------------------------------
(* What a step does to the windows of its query, seen from outside.        *)

Scheduled(q) == UNCHANGED <<hist[q], jobs[q], tick[q]>>

Still(q) == /\ InFlight(q)' = InFlight(q)
            /\ Delivered(q)' = Delivered(q)
            /\ GoneFrom(q)' = GoneFrom(q)

Entered(q, w) == /\ InFlight(q)' = Append(InFlight(q), w)
                 /\ Delivered(q)' = Delivered(q)
                 /\ GoneFrom(q)' = GoneFrom(q)

TurnedAway(q, w) == /\ InFlight(q)' = InFlight(q)
                    /\ Delivered(q)' = Delivered(q)
                    /\ GoneFrom(q)' = GoneFrom(q) \cup {w}
                    /\ Len(InFlight(q)) >= GTSSize[q]

Shipped(q) == \E w \in Window, t \in Seq(Window) :
                /\ InFlight(q) = <<w>> \o t
                /\ InFlight(q)' = t
                /\ Delivered(q)' = Append(Delivered(q), w)
                /\ GoneFrom(q)' = GoneFrom(q)

Dropped(q) == \E w \in Window, s, t \in Seq(Window) :
                /\ InFlight(q) = s \o (<<w>> \o t)
                /\ InFlight(q)' = s \o t
                /\ Delivered(q)' = Delivered(q)
                /\ GoneFrom(q)' = GoneFrom(q) \cup {w}

-----------------------------------------------------------------------------
(* The pipeline laid out in one line.                                      *)

Line(q) ==
  HeldByPusher(q) \o gm[q] \o Held(ev[q]) \o gd[q] \o Held(ds[q]) \o gts[q]

Grouped(s, t, u) == s \o (t \o u) = s \o t \o u

LEMMA GroupedSeq ==
  ASSUME NEW s \in Seq(Window), NEW t \in Seq(Window), NEW u \in Seq(Window)
  PROVE  Grouped(s, t, u)
BY Regroup DEF Grouped

InLine(a, b, c, d, e, f) ==
  ((a \o b) \o (c \o d)) \o (e \o f) = a \o b \o c \o d \o e \o f

LEMMA SixInLine ==
  ASSUME NEW a \in Seq(Window), NEW b \in Seq(Window), NEW c \in Seq(Window),
         NEW d \in Seq(Window), NEW e \in Seq(Window), NEW f \in Seq(Window)
  PROVE  InLine(a, b, c, d, e, f)
<1>1. a \o b \in Seq(Window) /\ (a \o b) \o (c \o d) \in Seq(Window)
  BY ConcatProperties
<1>2. Grouped(a \o b, c, d)
  BY <1>1, GroupedSeq
<1>3. Grouped((a \o b) \o (c \o d), e, f)
  BY <1>1, GroupedSeq
<1> QED
  BY <1>2, <1>3 DEF Grouped, InLine

LEMMA HeldType ==
  ASSUME NEW stage, stage.win \in Window \cup {NoWindow}
  PROVE  Held(stage) \in Seq(Window)
BY DEF Held

LEMMA LineNow ==
  ASSUME TypeOK, NEW q \in Query
  PROVE  /\ InFlight(q) = Line(q)
         /\ HeldByPusher(q) \in Seq(Window) /\ gm[q] \in Seq(Window)
         /\ Held(ev[q]) \in Seq(Window) /\ gd[q] \in Seq(Window)
         /\ Held(ds[q]) \in Seq(Window) /\ gts[q] \in Seq(Window)
<1>1. /\ gm[q] \in Seq(Window) /\ gd[q] \in Seq(Window) /\ gts[q] \in Seq(Window)
      /\ ev[q].win \in Window \cup {NoWindow} /\ ds[q].win \in Window \cup {NoWindow}
      /\ pu[q].win \in Window \cup {NoWindow}
  BY DEF TypeOK, Stage
<1>2. HeldByPusher(q) \in Seq(Window)
  BY <1>1, HeldType DEF HeldByPusher
<1>3. Held(ev[q]) \in Seq(Window) /\ Held(ds[q]) \in Seq(Window)
  BY <1>1, HeldType
<1>4. InLine(HeldByPusher(q), gm[q], Held(ev[q]), gd[q], Held(ds[q]), gts[q])
  BY <1>1, <1>2, <1>3, SixInLine
<1>5. InFlight(q) = Line(q)
  BY <1>4 DEF InLine, InFlight, Line, AtPusher, AtEvaluator, AtDatasource
<1> QED
  BY <1>1, <1>2, <1>3, <1>5

LEMMA LineNext ==
  ASSUME TypeOK', NEW q \in Query
  PROVE  InFlight(q)' = Line(q)'
<1>1. /\ gm'[q] \in Seq(Window) /\ gd'[q] \in Seq(Window) /\ gts'[q] \in Seq(Window)
      /\ ev'[q].win \in Window \cup {NoWindow} /\ ds'[q].win \in Window \cup {NoWindow}
      /\ pu'[q].win \in Window \cup {NoWindow}
  BY DEF TypeOK, Stage
<1>2. HeldByPusher(q)' \in Seq(Window)
  <2>1. Held(pu'[q]) \in Seq(Window)
    BY <1>1, HeldType
  <2> QED
    BY <2>1 DEF HeldByPusher
<1>3. Held(ev'[q]) \in Seq(Window) /\ Held(ds'[q]) \in Seq(Window)
  BY <1>1, HeldType
<1>4. InLine(HeldByPusher(q)', gm'[q], Held(ev'[q]), gd'[q], Held(ds'[q]), gts'[q])
  BY <1>1, <1>2, <1>3, SixInLine
<1> QED
  BY <1>4 DEF InLine, InFlight, Line, AtPusher, AtEvaluator, AtDatasource

LEMMA DeliveredType ==
  ASSUME TypeOK, NEW q \in Query
  PROVE  Delivered(q) \in Seq(Window)
BY DEF TypeOK, Delivered

-----------------------------------------------------------------------------
(* The scheduler.                                                          *)

LEMMA SendGrows ==
  ASSUME TypeOK, TypeOK', NEW q \in Query, NEW w \in Window, Accept(q, w),
         UNCHANGED <<gd, gm, ds, ev, pu, remote>>
  PROVE  InFlight(q)' = Append(InFlight(q), w)
<1> DEFINE d == HeldByPusher(q) \o gm[q] \o Held(ev[q]) \o gd[q] \o Held(ds[q])
<1>1. d \in Seq(Window) /\ gts[q] \in Seq(Window)
  BY LineNow, ConcatProperties
<1>2. gts'[q] = Append(gts[q], w)
  BY DEF Accept, TypeOK
<1>3. Line(q) = d \o gts[q] /\ Line(q)' = d \o gts'[q]
  BY DEF Line, HeldByPusher, Stored
<1> HIDE DEF d
<1>4. PICK v : v = <<w>>
  OBVIOUS
<1>5. Append(gts[q], w) = gts[q] \o v /\ v \in Seq(Window)
  BY <1>1, <1>4, AppendConcat
<1>6. d \o (gts[q] \o v) = (d \o gts[q]) \o v
  BY <1>1, <1>5, Regroup
<1>7. d \o gts[q] \in Seq(Window)
  BY <1>1, ConcatProperties
<1>8. Line(q)' = Append(Line(q), w)
  BY <1>2, <1>3, <1>4, <1>5, <1>6, <1>7, AppendConcat, SMTT(60)
<1> QED
  BY <1>8, LineNow, LineNext

TakenUp(q, w) ==
  /\ w \in Awaiting(q) /\ w \in Window
  /\ Awaiting(q)' = Awaiting(q) \ {w}
  /\ Distinct(hist[q])'
  /\ UNCHANGED tick[q]

LEMMA TailElements ==
  ASSUME NEW s \in Seq(Window), s # <<>>, Distinct(s)
  PROVE  /\ Head(s) \in Elements(s)
         /\ Elements(Tail(s)) = Elements(s) \ {Head(s)}
         /\ Distinct(Tail(s))
<1> DEFINE t == Tail(s)
           m == Len(t)
<1>1. /\ Len(s) \in Nat /\ m \in Nat /\ Len(s) = m + 1 /\ Head(s) = s[1]
      /\ \A i \in 1..m : t[i] = s[i + 1]
  BY HeadTailProperties
<1> HIDE DEF t
<1>2. /\ 1 \in 1..Len(s)
      /\ \A i \in 1..m : i + 1 \in 1..Len(s) /\ i + 1 # 1
      /\ \A i \in 1..Len(s) : i # 1 => i - 1 \in 1..m /\ (i - 1) + 1 = i
  BY <1>1
<1>3. \A i, j \in 1..Len(s) : s[i] = s[j] => i = j
  BY DEF Distinct
<1>4. Head(s) \in Elements(s)
  BY <1>1, <1>2 DEF Elements
<1>5. Elements(t) \subseteq Elements(s) \ {Head(s)}
  <2> SUFFICES ASSUME NEW i \in 1..m PROVE t[i] \in Elements(s) /\ t[i] # Head(s)
    BY DEF Elements
  <2> QED
    BY <1>1, <1>2, <1>3 DEF Elements
<1>6. Elements(s) \ {Head(s)} \subseteq Elements(t)
  <2> SUFFICES ASSUME NEW i \in 1..Len(s), s[i] # Head(s) PROVE s[i] \in Elements(t)
    BY DEF Elements
  <2>1. i - 1 \in 1..m /\ t[i - 1] = s[i]
    BY <1>1, <1>2
  <2> QED
    BY <2>1 DEF Elements
<1>7. ASSUME NEW i \in 1..m, NEW j \in 1..m, t[i] = t[j]
      PROVE  i = j
  <2>1. i + 1 = j + 1
    BY <1>1, <1>2, <1>3, <1>7
  <2> QED
    BY <1>1, <2>1
<1> QED
  BY <1>4, <1>5, <1>6, <1>7 DEF t, Distinct

LEMMA SchedulerFlow ==
  ASSUME TypeOK, TypeOK', NEW q \in Query, QueryInv(q), AwaitingNew(q), SchedulerPuts(q)
  PROVE  \/ Scheduled(q) /\ Still(q)
         \/ \E w \in Awaiting(q) : TakenUp(q, w) /\ (Entered(q, w) \/ TurnedAway(q, w))
<1>0. UNCHANGED <<gd, gm, ds, ev, evaluated, unreported, pu, remote, lost>>
  BY DEF SchedulerPuts, dsVars, evVars, puVars
<1>1. /\ hist[q] \in Seq(Window) /\ gts[q] \in Seq(Window) /\ jobs[q] \subseteq Window
      /\ hist = [r \in Query |-> hist[r]] /\ jobs = [r \in Query |-> jobs[r]]
      /\ refused = [r \in Query |-> refused[r]]
  BY DEF TypeOK
<1>2. UNCHANGED Delivered(q)
  BY <1>0 DEF Delivered
<1>3. UNCHANGED refused => UNCHANGED GoneFrom(q)
  BY <1>0 DEF GoneFrom
<1>4. UNCHANGED gts => UNCHANGED InFlight(q)
  BY <1>0 DEF InFlight, AtPusher, AtEvaluator, AtDatasource, HeldByPusher, Stored
<1>5. CASE SendHistory(q)
  <2> DEFINE w == Head(hist[q])
  <2>1. /\ Accept(q, w) /\ UNCHANGED <<tick, jobs, refused>> /\ hist[q] # <<>>
        /\ hist'[q] = Tail(hist[q]) /\ jobs[q] = {} /\ w \in Window
    BY <1>1, <1>5, HeadTailProperties DEF SendHistory, QueryInv, SchedulerPhase
  <2>2. Entered(q, w)
    BY <1>0, <1>2, <1>3, <2>1, SendGrows DEF Entered
  <2>3. TakenUp(q, w) /\ w \in Awaiting(q)
    BY <1>1, <2>1, TailElements DEF TakenUp, Awaiting, AwaitingNew
  <2> QED
    BY <2>2, <2>3
<1>6. CASE Schedule(q)
  BY <1>2, <1>3, <1>4, <1>6 DEF Schedule, Scheduled, Still
<1>7. ASSUME NEW w \in jobs[q], CronPut(q, w)
      PROVE  TakenUp(q, w) /\ w \in Awaiting(q) /\ (Entered(q, w) \/ TurnedAway(q, w))
  <2>1. /\ w \in Window /\ UNCHANGED <<hist, tick>> /\ jobs'[q] = jobs[q] \ {w}
        /\ hist[q] = <<>>
    BY <1>1, <1>7 DEF CronPut, QueryInv, SchedulerPhase
  <2>2. TakenUp(q, w) /\ w \in Awaiting(q)
    BY <2>1 DEF TakenUp, Awaiting, AwaitingNew, Elements
  <2>3. CASE Accept(q, w) /\ UNCHANGED refused
    BY <1>0, <1>2, <1>3, <2>1, <2>2, <2>3, SendGrows DEF Entered
  <2>4. CASE /\ ~Room(gts[q], GTSSize[q], ds[q])
             /\ refused' = [refused EXCEPT ![q] = @ \cup {w}]
             /\ UNCHANGED <<gts, accepted>>
    <3>1. GoneFrom(q)' = GoneFrom(q) \cup {w}
      BY <1>0, <1>1, <2>4 DEF GoneFrom
    <3>2. Len(InFlight(q)) >= GTSSize[q]
      <4> DEFINE d == HeldByPusher(q) \o gm[q] \o Held(ev[q]) \o gd[q] \o Held(ds[q])
      <4>1. d \in Seq(Window)
        BY LineNow, ConcatProperties
      <4>2. InFlight(q) = d \o gts[q]
        BY LineNow DEF Line
      <4> HIDE DEF d
      <4>3. Len(InFlight(q)) = Len(d) + Len(gts[q]) /\ Len(d) \in Nat /\ Len(gts[q]) \in Nat
        BY <1>1, <4>1, <4>2, ConcatProperties
      <4>4. GTSSize[q] \in Nat /\ ~(Len(gts[q]) < GTSSize[q])
        BY <1>1, <2>4, SizeNat, RoomLeft
      <4> QED
        BY <4>3, <4>4
    <3> QED
      BY <1>2, <1>4, <2>2, <2>4, <3>1, <3>2 DEF TurnedAway
  <2> QED
    BY <1>7, <2>2, <2>3, <2>4 DEF CronPut
<1> QED
  BY <1>5, <1>6, <1>7 DEF SchedulerPuts, Awaiting

-----------------------------------------------------------------------------
(* The stages.                                                             *)

(* What a window that leaves the line from its middle leaves behind.       *)
LEMMA LeaveLine ==
  ASSUME NEW s \in Seq(Window), NEW w \in Window, NEW t \in Seq(Window)
  PROVE  /\ s \o <<w>> \o t = s \o (<<w>> \o t)
         /\ s \o <<>> \o t = s \o t
<1>1. PICK v : v = <<w>>
  OBVIOUS
<1>2. v \in Seq(Window)
  BY <1>1
<1>3. s \o (v \o t) = s \o v \o t
  BY <1>2, Regroup
<1>4. s \o <<>> = s
  BY ConcatEmptySeq
<1> QED
  BY <1>1, <1>3, <1>4

LEMMA DatasourceFlow ==
  ASSUME TypeOK, TypeOK', NEW q \in Query, DatasourceStep(q)
  PROVE  Scheduled(q) /\ (Still(q) \/ Dropped(q))
<1> DEFINE e == HeldByPusher(q) \o gm[q] \o Held(ev[q])
           p == e \o gd[q]
<1>0. UNCHANGED <<hist, jobs, tick, gm, ev, evaluated, unreported, pu, remote, refused>>
  BY DEF DatasourceStep, schedVars, evVars, puVars
<1>1. e \in Seq(Window) /\ p \in Seq(Window) /\ gd[q] \in Seq(Window) /\ gts[q] \in Seq(Window)
  BY LineNow, ConcatProperties
<1>2. /\ Line(q) = p \o Held(ds[q]) \o gts[q]
      /\ Line(q)' = e \o gd'[q] \o Held(ds'[q]) \o gts'[q]
  BY <1>0 DEF Line, HeldByPusher, Stored
<1>3. /\ ds = [r \in Query |-> ds[r]] /\ gts = [r \in Query |-> gts[r]]
      /\ gd = [r \in Query |-> gd[r]] /\ lost = [r \in Query |-> lost[r]]
  BY DEF TypeOK
<1>4. UNCHANGED Delivered(q) /\ Scheduled(q)
  BY <1>0 DEF Delivered, Scheduled
<1>5. Line(q)' = Line(q) /\ UNCHANGED lost => Still(q)
  BY <1>0, <1>4, LineNow, LineNext DEF Still, GoneFrom
<1> HIDE DEF e
<1>6. CASE DSGet(q)
  <2>1. /\ gts[q] # <<>> /\ gts'[q] = Tail(gts[q]) /\ gd'[q] = gd[q] /\ UNCHANGED lost
        /\ ds'[q].win = Head(gts[q]) /\ Head(gts[q]) \in Window /\ ds[q].win = NoWindow
    BY <1>1, <1>3, <1>6, InHand, HeadTailProperties DEF DSGet, Receiving, At
  <2>2. Held(ds[q]) = <<>> /\ Held(ds'[q]) = <<Head(gts[q])>>
    BY <2>1 DEF Held, Window
  <2>3. p \o <<>> \o gts[q] = p \o <<Head(gts[q])>> \o Tail(gts[q])
    BY <1>1, <2>1, TakeKeeps
  <2> QED
    BY <1>2, <1>4, <1>5, <2>1, <2>2, <2>3
<1>7. CASE DSPut(q)
  <2>1. /\ gd'[q] = Append(gd[q], ds[q].win) /\ gts'[q] = gts[q] /\ UNCHANGED lost
        /\ ds'[q].win = NoWindow /\ ds[q].win \in Window
    BY <1>3, <1>7, InHand DEF DSPut, Idle, At
  <2>2. Held(ds[q]) = <<ds[q].win>> /\ Held(ds'[q]) = <<>>
    BY <2>1 DEF Held, Window
  <2>3. e \o gd[q] \o <<ds[q].win>> = e \o Append(gd[q], ds[q].win) \o <<>>
    BY <1>1, <2>1, PutKeeps
  <2> QED
    BY <1>2, <1>4, <1>5, <2>1, <2>2, <2>3
<1>8. CASE DSPanic(q)
  <2> HIDE DEF p
  <2>1. /\ gd'[q] = gd[q] /\ gts'[q] = gts[q] /\ lost'[q] = lost[q] \cup {ds[q].win}
        /\ ds'[q].win = NoWindow /\ ds[q].win \in Window
    BY <1>3, <1>8, InHand DEF DSPanic, CountPanic, At
  <2>2. Held(ds[q]) = <<ds[q].win>> /\ Held(ds'[q]) = <<>>
    BY <2>1 DEF Held, Window
  <2>5. /\ Line(q) = p \o <<ds[q].win>> \o gts[q]
        /\ Line(q)' = p \o <<>> \o gts[q]
    BY <1>2, <2>1, <2>2 DEF p
  <2>3. /\ Line(q) = p \o (<<ds[q].win>> \o gts[q])
        /\ Line(q)' = p \o gts[q]
    BY <1>1, <2>1, <2>5, LeaveLine
  <2>4. GoneFrom(q)' = GoneFrom(q) \cup {ds[q].win}
    BY <1>0, <2>1 DEF GoneFrom
  <2> QED
    BY <1>1, <1>4, <2>1, <2>3, <2>4, LineNow, LineNext DEF Dropped
<1>9. CASE \/ DSWait(q) \/ DSStop(q) \/ DSQueryOk(q) \/ DSQueryError(q)
           \/ DSQueryGarbled(q) \/ DSAgain(q) \/ DSRestart(q)
  <2>1. gd'[q] = gd[q] /\ gts'[q] = gts[q] /\ ds'[q].win = ds[q].win /\ UNCHANGED lost
    BY <1>3, <1>9, InHand DEF DSWait, DSStop, DSQueryOk, DSQueryError, DSQueryGarbled,
       PassBlind, DSAgain, DSRestart, Idle, At
  <2> QED
    BY <1>2, <1>4, <1>5, <2>1 DEF Held
<1> QED
  BY <1>6, <1>7, <1>8, <1>9 DEF DatasourceStep

LEMMA EvaluatorFlow ==
  ASSUME TypeOK, TypeOK', NEW q \in Query, QueryInv(q), EvaluatorStep(q)
  PROVE  Scheduled(q) /\ (Still(q) \/ Dropped(q) \/ Shipped(q))
<1> DEFINE h == HeldByPusher(q)
           a == h \o gm[q]
<1>0. UNCHANGED <<hist, jobs, tick, gts, ds, pu, remote, refused>>
  BY DEF EvaluatorStep, schedVars, dsVars, puVars
<1>1. /\ h \in Seq(Window) /\ a \in Seq(Window) /\ gm[q] \in Seq(Window) /\ gd[q] \in Seq(Window)
      /\ Held(ds[q]) \in Seq(Window) /\ gts[q] \in Seq(Window)
  BY LineNow, ConcatProperties
<1>2. /\ Line(q) = a \o Held(ev[q]) \o gd[q] \o Held(ds[q]) \o gts[q]
      /\ Line(q)' = h \o gm'[q] \o Held(ev'[q]) \o gd'[q] \o Held(ds[q]) \o gts[q]
  BY <1>0 DEF Line, HeldByPusher, Stored
<1>3. /\ ev = [r \in Query |-> ev[r]] /\ gd = [r \in Query |-> gd[r]]
      /\ gm = [r \in Query |-> gm[r]] /\ lost = [r \in Query |-> lost[r]]
      /\ evaluated = [r \in Query |-> evaluated[r]]
      /\ unreported = [r \in Query |-> unreported[r]]
      /\ evaluated[q] \in Seq(Window)
  BY DEF TypeOK
<1>4. /\ Scheduled(q)
      /\ PushExport \/ evaluated'[q] = evaluated[q] => UNCHANGED Delivered(q)
  BY <1>0 DEF Delivered, Scheduled
<1>5. /\ UNCHANGED <<lost[q], unreported[q]>> => UNCHANGED GoneFrom(q)
      /\ Line(q)' = Line(q) /\ UNCHANGED <<Delivered(q), GoneFrom(q)>> => Still(q)
  BY <1>0, LineNow, LineNext DEF Still, GoneFrom
<1> HIDE DEF h
<1>6. CASE EVGet(q)
  <2>1. /\ gd[q] # <<>> /\ gd'[q] = Tail(gd[q]) /\ gm'[q] = gm[q]
        /\ evaluated'[q] = evaluated[q] /\ UNCHANGED <<lost[q], unreported[q]>>
        /\ ev'[q].win = Head(gd[q]) /\ Head(gd[q]) \in Window /\ ev[q].win = NoWindow
    BY <1>1, <1>3, <1>6, InHand, HeadTailProperties DEF EVGet, Receiving, At
  <2>2. Held(ev[q]) = <<>> /\ Held(ev'[q]) = <<Head(gd[q])>>
    BY <2>1 DEF Held, Window
  <2>3. a \o <<>> \o gd[q] = a \o <<Head(gd[q])>> \o Tail(gd[q])
    BY <1>1, <2>1, TakeKeeps
  <2>4. Line(q)' = Line(q)
    BY <1>2, <2>1, <2>2, <2>3
  <2> QED
    BY <1>4, <1>5, <2>1, <2>4
<1>7. CASE EVUpdate(q)
  <2>1. /\ ev[q].win \in Window /\ evaluated'[q] = Append(evaluated[q], ev[q].win)
        /\ gd'[q] = gd[q] /\ gm'[q] = gm[q] /\ UNCHANGED <<lost[q], unreported[q]>>
        /\ ev'[q].win = IF PushExport THEN ev[q].win ELSE NoWindow
    BY <1>3, <1>7, InHand DEF EVUpdate, Idle, At
  <2>2. CASE PushExport
    <3>1. Held(ev'[q]) = Held(ev[q])
      BY <2>1, <2>2 DEF Held
    <3> QED
      BY <1>2, <1>4, <1>5, <2>1, <2>2, <3>1
  <2>3. CASE ~PushExport
    <3>1. pu[q].win = NoWindow /\ gm[q] = <<>>
      BY <2>3, InHand DEF QueryInv, PullStopsAtMetrics
    <3>2. h = <<>>
      BY <3>1 DEF HeldByPusher, Held, h
    <3>3. Held(ev[q]) = <<ev[q].win>> /\ Held(ev'[q]) = <<>>
      BY <2>1, <2>3 DEF Held, Window
    <3>4. PICK z \in Seq(Window) : Joins(gd[q], Held(ds[q]), gts[q], z)
      BY <1>1, RegroupTail
    <3>5. PICK v : v = <<ev[q].win>>
      OBVIOUS
    <3>6. v \in Seq(Window) /\ <<>> \in Seq(Window)
      BY <2>1, <3>5
    <3>7. <<>> \o <<>> = <<>> /\ <<>> \o v = v /\ <<>> \o z = z
      BY <3>6, ConcatEmptySeq
    <3>8. /\ Line(q) = v \o gd[q] \o Held(ds[q]) \o gts[q]
          /\ Line(q)' = <<>> \o gd[q] \o Held(ds[q]) \o gts[q]
      BY <1>2, <2>1, <3>1, <3>2, <3>3, <3>5, <3>7
    <3>9. Line(q) = v \o z /\ Line(q)' = z
      BY <3>4, <3>6, <3>7, <3>8 DEF Joins
    <3>10. Delivered(q)' = Append(Delivered(q), ev[q].win) /\ UNCHANGED GoneFrom(q)
      BY <1>5, <2>1, <2>3 DEF Delivered
    <3>11. Shipped(q)
      BY <2>1, <3>5, <3>9, <3>10, LineNow, LineNext DEF Shipped
    <3> QED
      BY <1>4, <3>11
  <2> QED
    BY <2>2, <2>3
<1>8. CASE EVPut(q)
  <2>1. /\ gm'[q] = Append(gm[q], ev[q].win) /\ gd'[q] = gd[q]
        /\ evaluated'[q] = evaluated[q] /\ UNCHANGED <<lost[q], unreported[q]>>
        /\ ev'[q].win = NoWindow /\ ev[q].win \in Window
    BY <1>3, <1>8, InHand DEF EVPut, Idle, At
  <2>2. Held(ev[q]) = <<ev[q].win>> /\ Held(ev'[q]) = <<>>
    BY <2>1 DEF Held, Window
  <2>3. h \o gm[q] \o <<ev[q].win>> = h \o Append(gm[q], ev[q].win) \o <<>>
    BY <1>1, <2>1, PutKeeps
  <2>4. Line(q)' = Line(q)
    BY <1>2, <2>1, <2>2, <2>3
  <2> QED
    BY <1>4, <1>5, <2>1, <2>4
<1>9. CASE EVPanic(q) \/ EVSkip(q)
  <2>1. /\ gd'[q] = gd[q] /\ gm'[q] = gm[q] /\ evaluated'[q] = evaluated[q]
        /\ ev'[q].win = NoWindow /\ ev[q].win \in Window
    BY <1>3, <1>9, InHand DEF EVPanic, EVSkip, Idle, At
  <2>2. GoneFrom(q)' = GoneFrom(q) \cup {ev[q].win}
    BY <1>0, <1>3, <1>9 DEF EVPanic, EVSkip, CountPanic, GoneFrom
  <2>3. Held(ev[q]) = <<ev[q].win>> /\ Held(ev'[q]) = <<>>
    BY <2>1 DEF Held, Window
  <2>4. PICK z \in Seq(Window) : Joins(gd[q], Held(ds[q]), gts[q], z)
    BY <1>1, RegroupTail
  <2>5. PICK v, o : v = <<ev[q].win>> /\ o = <<>>
    OBVIOUS
  <2>6. a \o v \in Seq(Window) /\ a \o o \in Seq(Window)
    BY <1>1, <2>1, <2>5, ConcatProperties
  <2>7. /\ Line(q) = a \o v \o gd[q] \o Held(ds[q]) \o gts[q]
        /\ Line(q)' = a \o o \o gd[q] \o Held(ds[q]) \o gts[q]
    BY <1>2, <2>1, <2>3, <2>5
  <2>8. Line(q) = a \o v \o z /\ Line(q)' = a \o o \o z
    BY <2>4, <2>6, <2>7 DEF Joins
  <2>9. a \o <<ev[q].win>> \o z = a \o (<<ev[q].win>> \o z) /\ a \o <<>> \o z = a \o z
    BY <1>1, <2>1, LeaveLine
  <2>10. Line(q) = a \o (<<ev[q].win>> \o z) /\ Line(q)' = a \o z
    BY <2>5, <2>8, <2>9, Zenon
  <2>11. Dropped(q)
    BY <1>1, <1>4, <2>1, <2>2, <2>10, LineNow, LineNext DEF Dropped
  <2> QED
    BY <1>4, <2>11
<1>10. CASE EVWait(q) \/ EVGather(q) \/ EVRestart(q)
  <2>1. /\ gd'[q] = gd[q] /\ gm'[q] = gm[q] /\ evaluated'[q] = evaluated[q]
        /\ ev'[q].win = ev[q].win /\ UNCHANGED <<lost[q], unreported[q]>>
    BY <1>3, <1>10, InHand DEF EVWait, EVGather, EVRestart, Idle, At
  <2>2. Held(ev'[q]) = Held(ev[q])
    BY <2>1 DEF Held
  <2> QED
    BY <1>2, <1>4, <1>5, <2>1, <2>2
<1> QED
  BY <1>6, <1>7, <1>8, <1>9, <1>10 DEF EvaluatorStep

LEMMA HeadOfConcat ==
  ASSUME NEW s \in Seq(Window), NEW t \in Seq(Window), s # <<>>
  PROVE  s \o t \in Seq(Window) /\ s \o t # <<>> /\ Head(s \o t) = Head(s)
<1>1. /\ Len(s) \in Nat \ {0} /\ Len(t) \in Nat
      /\ s \o t \in Seq(Window) /\ Len(s \o t) = Len(s) + Len(t)
      /\ \A i \in 1..(Len(s) + Len(t)) : (s \o t)[i] = IF i <= Len(s) THEN s[i] ELSE t[i - Len(s)]
  BY ConcatProperties
<1>2. 1 \in 1..(Len(s) + Len(t)) /\ 1 <= Len(s)
  BY <1>1
<1>3. (s \o t)[1] = s[1] /\ s \o t # <<>>
  BY <1>1, <1>2
<1> QED
  BY <1>1, <1>3

(* A window in flight is not the last one that was stored.                 *)
LEMMA HeadNotStored ==
  ASSUME NEW s \in Seq(Window), NEW t \in Seq(Window), s # <<>>, t # <<>>,
         Distinct(s \o t)
  PROVE  s[Len(s)] # Head(t)
<1> DEFINE m == Len(s)
           n == Len(t)
           u == s \o t
<1>1. /\ m \in Nat \ {0} /\ n \in Nat \ {0} /\ Len(u) = m + n /\ Head(t) = t[1]
      /\ \A i \in 1..(m + n) : u[i] = IF i <= m THEN s[i] ELSE t[i - m]
  BY ConcatProperties
<1>2. \A i, j \in 1..Len(u) : u[i] = u[j] => i = j
  BY DEF Distinct
<1> HIDE DEF m, n, u
<1>3. /\ m \in 1..(m + n) /\ m + 1 \in 1..(m + n) /\ m <= m /\ ~(m + 1 <= m)
      /\ (m + 1) - m = 1 /\ m # m + 1
  BY <1>1
<1>4. u[m] = s[m] /\ u[m + 1] = t[1]
  BY <1>1, <1>3
<1> QED
  BY <1>1, <1>2, <1>3, <1>4 DEF m

LEMMA PushFlow ==
  ASSUME TypeOK, TypeOK', NEW q \in Query, QueryInv(q), PathDistinct(q), PushStep(q)
  PROVE  Scheduled(q) /\ (Still(q) \/ Dropped(q) \/ Shipped(q))
<1> DEFINE h == HeldByPusher(q)
           k == HeldByPusher(q)'
           w == pu[q].win
<1>0. UNCHANGED <<hist, jobs, tick, gts, gd, ds, ev, evaluated, unreported, refused>>
  BY DEF PushStep, schedVars, dsVars, evVars
<1>1. /\ h \in Seq(Window) /\ gm[q] \in Seq(Window) /\ Held(ev[q]) \in Seq(Window)
      /\ gd[q] \in Seq(Window) /\ Held(ds[q]) \in Seq(Window) /\ gts[q] \in Seq(Window)
  BY LineNow
<1>2. /\ Line(q) = h \o gm[q] \o Held(ev[q]) \o gd[q] \o Held(ds[q]) \o gts[q]
      /\ Line(q)' = k \o gm'[q] \o Held(ev[q]) \o gd[q] \o Held(ds[q]) \o gts[q]
  BY <1>0 DEF Line
<1>3. /\ gm = [r \in Query |-> gm[r]] /\ lost = [r \in Query |-> lost[r]]
      /\ pu = [r \in Query |-> pu[r]] /\ remote = [r \in Query |-> remote[r]]
      /\ remote[q] \in Seq(Window)
  BY DEF TypeOK
<1>4. /\ Scheduled(q)
      /\ remote'[q] = remote[q] => UNCHANGED Delivered(q)
      /\ lost'[q] = lost[q] => UNCHANGED GoneFrom(q)
  BY <1>0 DEF Delivered, Scheduled, GoneFrom
<1>5. Line(q)' = Line(q) /\ remote'[q] = remote[q] /\ lost'[q] = lost[q] => Still(q)
  BY <1>4, LineNow, LineNext DEF Still
<1>6. pu'[q].win = NoWindow => k = <<>>
  BY DEF HeldByPusher, Held
<1>7. PushExport
  BY <1>3 DEF PushStep, QueryInv, PullStopsAtMetrics, PUWait, PUGet, PUAck, PUError, PULostReply,
     PUAgain, PUPanic, PURestart, Sending
<1>8. ASSUME w \in Window, gm'[q] = gm[q], h = <<w>>, k = <<>>
      PROVE  \E z \in Seq(Window) : Line(q) = <<w>> \o z /\ Line(q)' = z
  <2>1. PICK x \in Seq(Window) : Joins(gm[q], Held(ev[q]), gd[q], x)
    BY <1>1, RegroupTail
  <2>2. PICK z \in Seq(Window) : Joins(x, Held(ds[q]), gts[q], z)
    BY <1>1, RegroupTail
  <2>3. PICK v, o : v = <<w>> /\ o = <<>>
    OBVIOUS
  <2>4. v \in Seq(Window) /\ o \in Seq(Window) /\ o \o z = z
    BY <1>8, <2>3, ConcatEmptySeq
  <2> HIDE DEF h, k, w
  <2>5. /\ Line(q) = v \o x \o Held(ds[q]) \o gts[q]
        /\ Line(q)' = o \o x \o Held(ds[q]) \o gts[q]
    BY <1>2, <1>8, <2>1, <2>3, <2>4 DEF Joins
  <2>6. Line(q) = v \o z /\ Line(q)' = o \o z
    BY <2>2, <2>4, <2>5 DEF Joins
  <2> QED
    BY <2>3, <2>4, <2>6
<1>9. CASE PUGet(q)
  <2>1. /\ gm[q] # <<>> /\ gm'[q] = Tail(gm[q]) /\ remote'[q] = remote[q] /\ lost'[q] = lost[q]
        /\ pu'[q].win = Head(gm[q]) /\ Head(gm[q]) \in Window /\ w = NoWindow
    BY <1>1, <1>3, <1>9, InHand, HeadTailProperties DEF PUGet, Receiving, Push
  <2>2. h = <<>>
    BY <2>1 DEF HeldByPusher, Held
  <2>3. <<>> \o gm[q] = gm[q] /\ gm[q] = <<Head(gm[q])>> \o Tail(gm[q])
    BY <1>1, <2>1, ConcatEmptySeq, HeadFirst
  <2>4. Stored(q)' = FALSE
    <3>1. PICK x \in Seq(Window) : Joins(Held(ev[q]), gd[q], Held(ds[q]), x)
      BY <1>1, RegroupTail
    <3>2. Line(q) = gm[q] \o x \o gts[q]
      BY <1>1, <1>2, <2>2, <2>3, <3>1 DEF Joins
    <3>3. gm[q] \o x \in Seq(Window) /\ Line(q) \in Seq(Window)
      BY <1>1, <3>1, <3>2, ConcatProperties
    <3>4. Line(q) # <<>> /\ Head(Line(q)) = Head(gm[q])
      <4>1. PICK y : y = gm[q] \o x
        OBVIOUS
      <4>2. y \in Seq(Window) /\ y # <<>> /\ Head(y) = Head(gm[q])
        BY <1>1, <2>1, <4>1, HeadOfConcat
      <4> QED
        BY <1>1, <3>2, <4>1, <4>2, HeadOfConcat
    <3>5. Distinct(remote[q] \o Line(q))
      BY <1>7, LineNow DEF PathDistinct, Path, Delivered
    <3>6. remote[q] # <<>> => remote[q][Len(remote[q])] # Head(gm[q])
      BY <1>3, <3>3, <3>4, <3>5, HeadNotStored
    <3> QED
      BY <2>1, <3>6 DEF Stored
  <2>5. k = <<Head(gm[q])>>
    BY <2>1, <2>4 DEF HeldByPusher, Held, Window
  <2>6. Line(q)' = Line(q)
    BY <1>2, <2>1, <2>2, <2>3, <2>5
  <2> QED
    BY <1>4, <1>5, <2>1, <2>6
<1>10. CASE Sending(q) /\ pu'[q].win = NoWindow /\ gm'[q] = gm[q] /\ remote'[q] = remote[q] /\ GiveUp(q)
  <2>1. w \in Window /\ k = <<>>
    BY <1>6, <1>10, InHand DEF Sending
  <2>2. CASE Stored(q)
    <3>1. h = <<>> /\ lost'[q] = lost[q]
      BY <1>3, <1>10, <2>2 DEF HeldByPusher, GiveUp
    <3> QED
      BY <1>2, <1>4, <1>5, <1>10, <2>1, <3>1
  <2>3. CASE ~Stored(q)
    <3>1. h = <<w>> /\ lost'[q] = lost[q] \cup {w}
      BY <1>3, <1>10, <2>1, <2>3 DEF HeldByPusher, Held, Window, GiveUp
    <3>2. PICK z \in Seq(Window) : Line(q) = <<w>> \o z /\ Line(q)' = z
      BY <1>8, <1>10, <2>1, <3>1
    <3>3. PICK o : o = <<>>
      OBVIOUS
    <3>4. o \in Seq(Window) /\ o \o (<<w>> \o z) = <<w>> \o z /\ o \o z = z
      <4>1. <<w>> \o z \in Seq(Window)
        BY <2>1, ConcatProperties
      <4> QED
        BY <3>3, <4>1, ConcatEmptySeq
    <3>5. GoneFrom(q)' = GoneFrom(q) \cup {w}
      BY <1>0, <3>1 DEF GoneFrom
    <3>6. /\ InFlight(q) = o \o (<<w>> \o z) /\ InFlight(q)' = o \o z
          /\ UNCHANGED Delivered(q)
      BY <1>4, <1>10, <3>2, <3>4, LineNow, LineNext
    <3> HIDE DEF w
    <3>7. Dropped(q)
      BY <2>1, <3>2, <3>4, <3>5, <3>6 DEF Dropped
    <3> QED
      BY <1>4, <3>7
  <2> QED
    BY <2>2, <2>3
<1>11. CASE /\ Sending(q) /\ pu'[q].win \in {NoWindow, w} /\ gm'[q] = gm[q]
            /\ lost'[q] = lost[q] /\ Store(q)
  <2>1. w \in Window
    BY <1>11, InHand DEF Sending
  <2>2. CASE Stored(q)
    <3>1. remote'[q] = remote[q]
      BY <1>3, <1>11, <2>2 DEF Store
    <3>2. h = <<>> /\ k = <<>>
      BY <1>6, <1>11, <2>2, <3>1 DEF HeldByPusher, Stored
    <3> QED
      BY <1>2, <1>4, <1>5, <1>11, <3>1, <3>2
  <2>3. CASE ~Stored(q)
    <3>1. remote'[q] = Append(remote[q], w)
      BY <1>3, <1>11, <2>3 DEF Store
    <3>2. remote'[q] # <<>> /\ remote'[q][Len(remote'[q])] = w
      BY <1>3, <2>1, <3>1
    <3>3. h = <<w>> /\ k = <<>>
      BY <1>6, <1>11, <2>1, <2>3, <3>2 DEF HeldByPusher, Held, Window, Stored
    <3>4. PICK z \in Seq(Window) : Line(q) = <<w>> \o z /\ Line(q)' = z
      BY <1>8, <1>11, <2>1, <3>3
    <3>5. Delivered(q)' = Append(Delivered(q), w) /\ UNCHANGED GoneFrom(q)
      BY <1>4, <1>7, <1>11, <3>1 DEF Delivered
    <3>6. Shipped(q)
      BY <2>1, <3>4, <3>5, LineNow, LineNext DEF Shipped
    <3> QED
      BY <1>4, <3>6
  <2> QED
    BY <2>2, <2>3
<1>12. CASE pu'[q].win = w /\ gm'[q] = gm[q] /\ remote'[q] = remote[q] /\ lost'[q] = lost[q]
  <2>1. k = h
    BY <1>12 DEF HeldByPusher, Stored, Held
  <2> QED
    BY <1>2, <1>4, <1>5, <1>12, <2>1
<1>13. CASE PUAck(q) \/ PULostReply(q)
  BY <1>3, <1>10, <1>11, <1>13 DEF PUAck, PULostReply, RetryLater, IdlePusher, Push
<1>14. CASE PUError(q) \/ PUPanic(q)
  BY <1>3, <1>10, <1>12, <1>14 DEF PUError, PUPanic, RetryLater, IdlePusher, Push
<1>15. CASE PUWait(q) \/ PUAgain(q) \/ PURestart(q)
  BY <1>3, <1>12, <1>15, InHand DEF PUWait, PUAgain, PURestart, IdlePusher, Push
<1> QED
  BY <1>9, <1>13, <1>14, <1>15 DEF PushStep

-----------------------------------------------------------------------------
(* The invariant: no window is in two places.                              *)

LEMMA DistinctAppend ==
  ASSUME NEW s \in Seq(Window), NEW w \in Window, Distinct(s), w \notin Elements(s)
  PROVE  /\ Distinct(Append(s, w))
         /\ Elements(Append(s, w)) = Elements(s) \cup {w}
<1> DEFINE a == Append(s, w)
           m == Len(s)
<1>1. /\ m \in Nat /\ Len(a) = m + 1 /\ a[m + 1] = w
      /\ \A i \in 1..m : a[i] = s[i]
  OBVIOUS
<1>2. /\ \A i, j \in 1..m : s[i] = s[j] => i = j
      /\ \A i \in 1..m : s[i] # w
  BY DEF Distinct, Elements
<1> HIDE DEF a, m
<1>3. \A i \in 1..Len(a) : i \in 1..m \/ i = m + 1
  BY <1>1
<1>4. Distinct(a)
  BY <1>1, <1>2, <1>3 DEF Distinct
<1>5. Elements(a) \subseteq Elements(s) \cup {w}
  BY <1>1, <1>3 DEF Elements, m
<1>6. Elements(s) \cup {w} \subseteq Elements(a)
  <2>1. m + 1 \in 1..Len(a) /\ \A i \in 1..m : i \in 1..Len(a)
    BY <1>1
  <2> QED
    BY <1>1, <2>1 DEF Elements, m
<1> QED
  BY <1>4, <1>5, <1>6 DEF a

LEMMA DistinctDrop ==
  ASSUME NEW s \in Seq(Window), NEW w \in Window, NEW t \in Seq(Window),
         Distinct(s \o (<<w>> \o t))
  PROVE  /\ Distinct(s \o t)
         /\ Elements(s \o t) \subseteq Elements(s \o (<<w>> \o t)) \ {w}
         /\ w \in Elements(s \o (<<w>> \o t))
<1>1. PICK u, v : u = s \o (<<w>> \o t) /\ v = s \o t
  OBVIOUS
<1>2. PICK k \in 1..Len(u) : u[k] = w /\ \E f : Picks(f, u, v, k)
  BY <1>1, DropOne
<1>3. PICK f : Picks(f, u, v, k)
  BY <1>2
<1>4. \A i, j \in 1..Len(u) : u[i] = u[j] => i = j
  BY <1>1 DEF Distinct
<1>5. v \in Seq(Window)
  BY <1>1, ConcatProperties
<1>6. ASSUME NEW i \in 1..Len(v), NEW j \in 1..Len(v), v[i] = v[j]
      PROVE  i = j
  <2>1. /\ f[i] \in 1..Len(u) /\ f[j] \in 1..Len(u)
        /\ u[f[i]] = v[i] /\ u[f[j]] = v[j]
    BY <1>3 DEF Picks
  <2>2. f[i] = f[j]
    BY <1>4, <1>6, <2>1
  <2>3. i < j \/ j < i \/ i = j
    BY <1>5
  <2>4. f[i] \in Nat /\ f[j] \in Nat
    BY <2>1
  <2> QED
    BY <1>3, <2>2, <2>3, <2>4 DEF Picks
<1>7. ASSUME NEW i \in 1..Len(v)
      PROVE  v[i] \in Elements(u) /\ v[i] # w
  BY <1>2, <1>3, <1>4, SMTT(60) DEF Picks, Elements
<1>8. Distinct(v)
  BY <1>6 DEF Distinct
<1>9. Elements(v) \subseteq Elements(u) \ {w}
  BY <1>7 DEF Elements
<1>10. w \in Elements(u)
  BY <1>2 DEF Elements
<1> QED
  BY <1>1, <1>8, <1>9, <1>10

LEMMA InFlightType ==
  ASSUME TypeOK, NEW q \in Query
  PROVE  InFlight(q) \in Seq(Window)
<1>1. Line(q) \in Seq(Window)
  BY LineNow, ConcatProperties DEF Line
<1> QED
  BY <1>1, LineNow

LEMMA EnterPath ==
  ASSUME TypeOK, NEW q \in Query, NEW w \in Window, Entered(q, w)
  PROVE  Path(q)' = Append(Path(q), w) /\ Path(q) \in Seq(Window)
<1>1. PICK d, f, v : d = Delivered(q) /\ f = InFlight(q) /\ v = <<w>>
  OBVIOUS
<1>2. d \in Seq(Window) /\ f \in Seq(Window)
  BY <1>1, DeliveredType, InFlightType
<1>3. Append(f, w) = f \o v /\ v \in Seq(Window) /\ d \o f \in Seq(Window)
  BY <1>1, <1>2, AppendConcat, ConcatProperties
<1>4. Append(d \o f, w) = (d \o f) \o v
  BY <1>1, <1>3, AppendConcat
<1>5. Grouped(d, f, v)
  BY <1>2, <1>3, GroupedSeq
<1> QED
  BY <1>1, <1>3, <1>4, <1>5 DEF Path, Entered, Grouped

LEMMA ShipPath ==
  ASSUME TypeOK, NEW q \in Query, Shipped(q)
  PROVE  Path(q)' = Path(q)
<1>1. PICK w \in Window, t \in Seq(Window) :
        /\ InFlight(q) = <<w>> \o t
        /\ InFlight(q)' = t
        /\ Delivered(q)' = Append(Delivered(q), w)
  BY DEF Shipped
<1>2. PICK d, v : d = Delivered(q) /\ v = <<w>>
  OBVIOUS
<1>3. d \in Seq(Window) /\ v \in Seq(Window) /\ Append(d, w) = d \o v
  BY <1>2, DeliveredType, AppendConcat
<1>4. Grouped(d, v, t)
  BY <1>3, GroupedSeq
<1> QED
  BY <1>1, <1>2, <1>3, <1>4 DEF Path, Grouped

LEMMA DropPath ==
  ASSUME TypeOK, NEW q \in Query, Dropped(q)
  PROVE  \E w \in Window, s, t \in Seq(Window) :
           /\ Path(q) = s \o (<<w>> \o t)
           /\ Path(q)' = s \o t
           /\ GoneFrom(q)' = GoneFrom(q) \cup {w}
<1>1. PICK w \in Window, s \in Seq(Window), t \in Seq(Window) :
        /\ InFlight(q) = s \o (<<w>> \o t)
        /\ InFlight(q)' = s \o t
        /\ Delivered(q)' = Delivered(q)
        /\ GoneFrom(q)' = GoneFrom(q) \cup {w}
  BY DEF Dropped
<1>2. PICK d, v : d = Delivered(q) /\ v = <<w>> \o t
  OBVIOUS
<1>3. d \in Seq(Window) /\ v \in Seq(Window) /\ d \o s \in Seq(Window)
  BY <1>2, DeliveredType, ConcatProperties
<1>4. Grouped(d, s, v) /\ Grouped(d, s, t)
  BY <1>3, GroupedSeq
<1> QED
  BY <1>1, <1>2, <1>3, <1>4 DEF Path, Grouped

LEMMA StageKeepsFlow ==
  ASSUME TypeOK, NEW q \in Query, PathDistinct(q), AwaitingNew(q), Scheduled(q),
         Still(q) \/ Dropped(q) \/ Shipped(q)
  PROVE  PathDistinct(q)' /\ AwaitingNew(q)'
<1>1. UNCHANGED <<Awaiting(q), hist[q], tick[q]>>
  BY DEF Scheduled, Awaiting
<1>2. CASE Path(q)' = Path(q) /\ GoneFrom(q)' = GoneFrom(q)
  BY <1>1, <1>2 DEF PathDistinct, AwaitingNew
<1>3. CASE Dropped(q)
  <2>1. PICK w \in Window, s \in Seq(Window), t \in Seq(Window) :
          /\ Path(q) = s \o (<<w>> \o t)
          /\ Path(q)' = s \o t
          /\ GoneFrom(q)' = GoneFrom(q) \cup {w}
    BY <1>3, DropPath
  <2>2. /\ Distinct(Path(q)')
        /\ Elements(Path(q)') \subseteq Elements(Path(q)) \ {w}
        /\ w \in Elements(Path(q))
    BY <2>1, DistinctDrop DEF PathDistinct
  <2>3. PathDistinct(q)'
    BY <2>1, <2>2 DEF PathDistinct
  <2> QED
    BY <1>1, <2>1, <2>2, <2>3 DEF AwaitingNew
<1>4. CASE Still(q)
  BY <1>2, <1>4 DEF Still, Path
<1>5. CASE Shipped(q)
  BY <1>2, <1>5, ShipPath DEF Shipped
<1> QED
  BY <1>3, <1>4, <1>5

LEMMA SchedulerKeepsFlow ==
  ASSUME TypeOK, TypeOK', NEW q \in Query, QueryInv(q), PathDistinct(q), AwaitingNew(q),
         SchedulerPuts(q)
  PROVE  PathDistinct(q)' /\ AwaitingNew(q)'
<1>1. CASE Scheduled(q) /\ Still(q)
  BY <1>1, StageKeepsFlow
<1>2. ASSUME NEW w \in Awaiting(q), TakenUp(q, w), Entered(q, w) \/ TurnedAway(q, w)
      PROVE  PathDistinct(q)' /\ AwaitingNew(q)'
  <2>1. /\ w \in Window /\ Awaiting(q)' = Awaiting(q) \ {w}
        /\ Distinct(hist[q])' /\ tick'[q] = tick[q]
        /\ w \notin Elements(Path(q)) /\ w \notin GoneFrom(q) /\ w \in 1..tick[q]
    BY <1>2 DEF TakenUp, AwaitingNew
  <2>2. CASE Entered(q, w)
    <3>1. /\ Path(q)' = Append(Path(q), w) /\ Path(q) \in Seq(Window)
          /\ GoneFrom(q)' = GoneFrom(q)
      BY <2>1, <2>2, EnterPath DEF Entered
    <3>2. Distinct(Path(q)') /\ Elements(Path(q)') = Elements(Path(q)) \cup {w}
      BY <2>1, <3>1, DistinctAppend DEF PathDistinct
    <3> QED
      BY <2>1, <3>1, <3>2 DEF PathDistinct, AwaitingNew
  <2>3. CASE TurnedAway(q, w)
    <3>1. Path(q)' = Path(q) /\ GoneFrom(q)' = GoneFrom(q) \cup {w}
      BY <2>3 DEF TurnedAway, Path
    <3> QED
      BY <2>1, <3>1 DEF PathDistinct, AwaitingNew
  <2> QED
    BY <1>2, <2>2, <2>3
<1> QED
  BY <1>1, <1>2, SchedulerFlow

LEMMA ClockKeepsFlow ==
  ASSUME TypeOK, NEW q \in Query, PathDistinct(q), AwaitingNew(q), Clock(q)
  PROVE  PathDistinct(q)' /\ AwaitingNew(q)' /\ Still(q)
<1>1. Still(q)
  BY DEF Clock, CronFire, dsVars, evVars, puVars, Still, Delivered, GoneFrom, InFlight,
     AtPusher, AtEvaluator, AtDatasource, HeldByPusher, Stored
<1>2. /\ tick'[q] = tick[q] + 1 /\ tick[q] \in Nat /\ UNCHANGED hist[q]
      /\ Awaiting(q)' = Awaiting(q) \cup {tick[q] + 1}
      /\ tick[q] < HistorySize(q) + MaxTick
  BY DEF Clock, CronFire, TypeOK, Awaiting
<1>3. Path(q)' = Path(q) /\ GoneFrom(q)' = GoneFrom(q)
  BY <1>1 DEF Still, Path
<1>4. /\ tick[q] + 1 \notin 1..tick[q]
      /\ 1..tick[q] \subseteq 1..(tick[q] + 1) /\ tick[q] + 1 \in 1..(tick[q] + 1)
      /\ tick[q] + 1 <= HistorySize(q) + MaxTick
  BY <1>2, SizeNat, BoundsAssumption
<1> QED
  BY <1>1, <1>2, <1>3, <1>4 DEF PathDistinct, AwaitingNew

FlowState(q) ==
  <<StateOf(q), tick[q], remote[q], evaluated[q], refused[q], lost[q], unreported[q]>>

LEMMA OthersKeepFlow ==
  ASSUME TypeOK, NEW q \in Query, NEW r \in Query, r # q, Moves(q)
  PROVE  UNCHANGED FlowState(r)
<1>1. UNCHANGED StateOf(r) /\ UNCHANGED <<tick[r], evaluated[r]>>
  BY OthersUnchanged, OthersKeepOrder DEF OrderState
<1>2. /\ remote = [s \in Query |-> remote[s]] /\ refused = [s \in Query |-> refused[s]]
      /\ lost = [s \in Query |-> lost[s]] /\ unreported = [s \in Query |-> unreported[s]]
  BY DEF TypeOK
<1>3. UNCHANGED <<remote[r], refused[r], lost[r], unreported[r]>>
  <2>1. CASE SchedulerPuts(q) \/ Clock(q)
    BY <1>2, <2>1 DEF SchedulerPuts, Clock, evVars, puVars, SendHistory, Schedule, CronFire, CronPut
  <2>2. CASE DatasourceStep(q)
    BY <1>2, <2>2 DEF DatasourceStep, evVars, puVars, DSWait, DSGet, DSStop, DSQueryOk,
       DSQueryError, DSQueryGarbled, DSAgain, DSPut, DSPanic, DSRestart, CountPanic
  <2>3. CASE EvaluatorStep(q)
    BY <1>2, <2>3 DEF EvaluatorStep, puVars, EVWait, EVGet, EVUpdate, EVGather, EVPut,
       EVSkip, EVPanic, EVRestart, CountPanic
  <2>4. CASE PushStep(q)
    BY <1>2, <2>4 DEF PushStep, evVars, PUWait, PUGet, PUAck, PUError, PULostReply,
       PUAgain, PUPanic, PURestart, GiveUp, Store
  <2> QED
    BY <2>1, <2>2, <2>3, <2>4 DEF Moves
<1> QED
  BY <1>1, <1>3 DEF FlowState

LEMMA UnseenElsewhere ==
  ASSUME NEW r \in Query, UNCHANGED FlowState(r)
  PROVE  Still(r) /\ UNCHANGED <<Path(r), hist[r], tick[r], Awaiting(r)>>
<1>1. Still(r)
  BY DEF FlowState, StateOf, Still, Delivered, GoneFrom, InFlight,
     AtPusher, AtEvaluator, AtDatasource, HeldByPusher, Stored
<1> QED
  BY <1>1 DEF FlowState, StateOf, Still, Path, Awaiting

LEMMA InitEmpty ==
  ASSUME Init, NEW q \in Query
  PROVE  InFlight(q) = <<>> /\ Delivered(q) = <<>> /\ GoneFrom(q) = {}
<1>1. /\ gm[q] = <<>> /\ gd[q] = <<>> /\ gts[q] = <<>>
      /\ HeldByPusher(q) = <<>> /\ Held(ev[q]) = <<>> /\ Held(ds[q]) = <<>>
  BY DEF Init, HeldByPusher, Stored, Held, Idle, IdlePusher, At, Push
<1>2. Line(q) = <<>>
  BY <1>1 DEF Line
<1> QED
  BY <1>2, InitType, LineNow DEF Init, Delivered, GoneFrom

LEMMA InitFlow == Init => FlowInv
<1> SUFFICES ASSUME Init, NEW q \in Query
             PROVE  PathDistinct(q) /\ AwaitingNew(q)
  BY DEF FlowInv
<1>1. Path(q) = <<>> /\ GoneFrom(q) = {}
  BY InitEmpty DEF Path
<1>2. Elements(Path(q)) = {} /\ Distinct(Path(q))
  BY <1>1 DEF Elements, Distinct
<1>3. /\ jobs[q] = {} /\ tick[q] = HistorySize(q) /\ hist[q] \in {<<>>, History(q)}
      /\ HistorySize(q) \in Nat /\ MaxTick \in Nat
  BY SizeNat, BoundsAssumption DEF Init
<1>4. Elements(hist[q]) \subseteq 1..tick[q] /\ Distinct(hist[q])
  BY <1>3 DEF Elements, Distinct, History
<1>5. tick[q] <= HistorySize(q) + MaxTick
  BY <1>3
<1> QED
  BY <1>1, <1>2, <1>3, <1>4, <1>5 DEF PathDistinct, AwaitingNew, Awaiting

LEMMA StepFlow ==
  ASSUME TypeOK, TypeOK', BoundInv, FlowInv, [Next]_vars
  PROVE  FlowInv'
<1> SUFFICES ASSUME NEW r \in Query
             PROVE  PathDistinct(r)' /\ AwaitingNew(r)'
  BY DEF FlowInv
<1>1. PathDistinct(r) /\ AwaitingNew(r) /\ QueryInv(r)
  BY DEF FlowInv, BoundInv
<1>2. UNCHANGED FlowState(r) => PathDistinct(r)' /\ AwaitingNew(r)'
  BY <1>1, UnseenElsewhere DEF Still, PathDistinct, AwaitingNew
<1>3. CASE UNCHANGED vars
  BY <1>2, <1>3 DEF FlowState, StateOf, vars, schedVars, dsVars, evVars, puVars
<1>4. CASE Moves(r)
  BY <1>1, <1>4, SchedulerKeepsFlow, ClockKeepsFlow, StageKeepsFlow, DatasourceFlow,
     EvaluatorFlow, PushFlow DEF Moves
<1>5. ASSUME NEW q \in Query, Moves(q)
      PROVE  PathDistinct(r)' /\ AwaitingNew(r)'
  BY <1>2, <1>4, <1>5, OthersKeepFlow
<1> QED
  BY <1>3, <1>5 DEF Next, Moves

-----------------------------------------------------------------------------
(* The simulation.                                                         *)

LEMMA HeadTailOfCons ==
  ASSUME NEW w \in Window, NEW t \in Seq(Window), NEW u, u = <<w>> \o t
  PROVE  u # <<>> /\ Head(u) = w /\ Tail(u) = t
<1>1. PICK v : v = <<w>>
  OBVIOUS
<1>2. v \in Seq(Window) /\ Len(v) = 1 /\ v[1] = w /\ Len(t) \in Nat /\ u = v \o t
  BY <1>1
<1>3. /\ u \in Seq(Window) /\ Len(u) = 1 + Len(t)
      /\ \A i \in 1..(1 + Len(t)) : u[i] = IF i <= 1 THEN v[i] ELSE t[i - 1]
  BY <1>2, ConcatProperties
<1>4. u # <<>> /\ 1 \in 1..(1 + Len(t))
  BY <1>2, <1>3
<1>5. /\ Head(u) = u[1] /\ Tail(u) \in Seq(Window) /\ Len(u) = Len(Tail(u)) + 1
      /\ \A i \in 1..Len(Tail(u)) : Tail(u)[i] = u[i + 1]
  BY <1>3, <1>4, HeadTailProperties
<1>6. Head(u) = w
  BY <1>2, <1>3, <1>4, <1>5
<1>7. Len(Tail(u)) = Len(t)
  BY <1>2, <1>3, <1>5
<1>8. ASSUME NEW i \in 1..Len(t)
      PROVE  Tail(u)[i] = t[i]
  <2>1. i + 1 \in 1..(1 + Len(t)) /\ ~(i + 1 <= 1) /\ (i + 1) - 1 = i
    BY <1>2
  <2> QED
    BY <1>3, <1>5, <1>7, <2>1
<1> QED
  BY <1>4, <1>5, <1>6, <1>7, <1>8, SeqEqual

LEMMA WithoutOne ==
  ASSUME NEW s \in Seq(Window), NEW w \in Window, NEW t \in Seq(Window),
         NEW x, x = s \o (<<w>> \o t), NEW k, k = Len(s) + 1
  PROVE  /\ k \in 1..Len(x)
         /\ x[k] = w
         /\ SubSeq(x, 1, k - 1) = s
         /\ SubSeq(x, k + 1, Len(x)) = t
<1> DEFINE u == s \o (<<w>> \o t)
           m == Len(s)
           n == Len(t)
<1>0. x = u /\ k = m + 1
  OBVIOUS
<1>1. <<w>> \in Seq(Window) /\ Len(<<w>>) = 1 /\ <<w>>[1] = w
  OBVIOUS
<1>2. /\ m \in Nat /\ n \in Nat
      /\ <<w>> \o t \in Seq(Window) /\ Len(<<w>> \o t) = 1 + n
      /\ \A i \in 1..(1 + n) : (<<w>> \o t)[i] = IF i <= 1 THEN <<w>>[i] ELSE t[i - 1]
  BY <1>1, ConcatProperties
<1>3. /\ u \in Seq(Window) /\ Len(u) = m + (1 + n)
      /\ \A i \in 1..(m + (1 + n)) : u[i] = IF i <= m THEN s[i] ELSE (<<w>> \o t)[i - m]
  BY <1>2, ConcatProperties
<1> HIDE DEF u
<1>4. m + 1 \in 1..Len(u) /\ u[m + 1] = w
  <2>1. m + 1 \in 1..(m + (1 + n)) /\ ~(m + 1 <= m) /\ (m + 1) - m = 1 /\ 1 \in 1..(1 + n)
    BY <1>2
  <2> QED
    BY <1>1, <1>2, <1>3, <2>1
<1>5. SubSeq(u, 1, m) = s
  <2>1. \A i \in 1..m : u[i] = s[i] /\ u[i] \in Window
    BY <1>2, <1>3
  <2>2. /\ SubSeq(u, 1, m) \in Seq(Window) /\ Len(SubSeq(u, 1, m)) = m
        /\ \A i \in 1..m : SubSeq(u, 1, m)[i] = u[i]
    BY <1>2, <1>3, <2>1, SubSeqProperties
  <2> QED
    BY <2>1, <2>2, SeqEqual
<1>6. SubSeq(u, m + 2, Len(u)) = t
  <2>1. \A i \in 1..n : u[(m + 2) + i - 1] = t[i]
    <3> SUFFICES ASSUME NEW i \in 1..n PROVE u[(m + 2) + i - 1] = t[i]
      OBVIOUS
    <3>1. /\ (m + 2) + i - 1 = m + i + 1 /\ m + i + 1 \in 1..(m + (1 + n))
          /\ ~(m + i + 1 <= m) /\ (m + i + 1) - m = i + 1
          /\ i + 1 \in 1..(1 + n) /\ ~(i + 1 <= 1) /\ (i + 1) - 1 = i
      BY <1>2
    <3>2. u[m + i + 1] = t[i]
      BY <1>2, <1>3, <3>1
    <3> QED
      BY <3>1, <3>2
  <2>2. \A j \in (m + 2)..Len(u) : u[j] \in Window
    <3>1. (m + 2)..Len(u) \subseteq 1..Len(u)
      BY <1>2, <1>3
    <3> QED
      BY <1>3, <3>1, ElementOfSeq
  <2>3. DEFINE y == SubSeq(u, m + 2, Len(u))
  <2>4. /\ y \in Seq(Window)
        /\ Len(y) = n
        /\ \A i \in 1..n : y[i] = u[(m + 2) + i - 1]
    <3>1. /\ m + 2 \in Int /\ Len(u) \in Int /\ Len(u) - (m + 2) + 1 = n
          /\ (IF m + 2 <= Len(u) THEN n ELSE 0) = n
      BY <1>2, <1>3
    <3> QED
      BY <2>2, <3>1, SubSeqProperties
  <2> HIDE DEF y
  <2>5. y = t
    BY <2>1, <2>4, SeqEqual
  <2> QED
    BY <2>5 DEF y
<1>7. (m + 1) - 1 = m /\ (m + 1) + 1 = m + 2
  BY <1>2
<1> QED
  BY <1>0, <1>4, <1>5, <1>6, <1>7

LEMMA ConcatElements ==
  ASSUME NEW s \in Seq(Window), NEW t \in Seq(Window)
  PROVE  Elements(s) \cup Elements(t) \subseteq Elements(s \o t)
<1> DEFINE m == Len(s)
           n == Len(t)
           u == s \o t
<1>1. /\ m \in Nat /\ n \in Nat /\ Len(u) = m + n
      /\ \A i \in 1..(m + n) : u[i] = IF i <= m THEN s[i] ELSE t[i - m]
  BY ConcatProperties
<1> HIDE DEF m, n, u
<1>2. ASSUME NEW i \in 1..m
      PROVE  s[i] \in Elements(u)
  <2>1. i \in 1..(m + n) /\ u[i] = s[i]
    BY <1>1
  <2> QED
    BY <1>1, <2>1 DEF Elements
<1>3. ASSUME NEW i \in 1..n
      PROVE  t[i] \in Elements(u)
  <2>1. m + i \in 1..(m + n) /\ ~(m + i <= m) /\ (m + i) - m = i
    BY <1>1
  <2>2. u[m + i] = t[i]
    BY <1>1, <2>1
  <2> QED
    BY <1>1, <2>1, <2>2 DEF Elements
<1>4. Elements(s) = {s[i] : i \in 1..m} /\ Elements(t) = {t[i] : i \in 1..n}
  BY DEF Elements, m, n
<1> QED
  BY <1>2, <1>3, <1>4 DEF u

LEMMA SimulateStep ==
  ASSUME TypeOK, TypeOK', BoundInv, FlowInv, InFlightBounded', [Next]_vars
  PROVE  [Flow!Next]_(Flow!flowVars)
<1>1. CASE UNCHANGED vars
  <2>1. \A r \in Query : UNCHANGED FlowState(r)
    BY <1>1 DEF FlowState, StateOf, vars, schedVars, dsVars, evVars, puVars
  <2>2. \A r \in Query : Still(r)
    BY <2>1, UnseenElsewhere
  <2> QED
    BY <2>2 DEF Still, GoneFrom, Flow!flowVars
<1>2. ASSUME NEW q \in Query, Moves(q)
      PROVE  [Flow!Next]_(Flow!flowVars)
  <2>0. PathDistinct(q) /\ AwaitingNew(q) /\ QueryInv(q)
    BY DEF FlowInv, BoundInv
  <2>1. \A r \in Query : r # q => Still(r)
    BY <1>2, OthersKeepFlow, UnseenElsewhere
  <2>2. CASE Still(q)
    BY <2>1, <2>2 DEF Still, GoneFrom, Flow!flowVars
  <2>3. CASE Shipped(q)
    <3>1. PICK w \in Window, t \in Seq(Window) :
            /\ InFlight(q) = <<w>> \o t
            /\ InFlight(q)' = t
            /\ Delivered(q)' = Append(Delivered(q), w)
            /\ GoneFrom(q)' = GoneFrom(q)
      BY <2>3 DEF Shipped
    <3>2. InFlight(q) # <<>> /\ Head(InFlight(q)) = w /\ Tail(InFlight(q)) = t
      BY <3>1, HeadTailOfCons
    <3>3. /\ InFlight(q)' = Tail(InFlight(q))
          /\ Delivered(q)' = Append(Delivered(q), Head(InFlight(q)))
          /\ GoneFrom(q)' = GoneFrom(q)
      BY <3>1, <3>2
    <3>4. Flow!Deliver(q)
      BY <2>1, <3>2, <3>3 DEF Still, GoneFrom, Flow!Deliver
    <3> QED
      BY <3>4 DEF Flow!Next
  <2>4. CASE Dropped(q)
    <3>1. PICK w \in Window, s \in Seq(Window), t \in Seq(Window) :
            /\ InFlight(q) = s \o (<<w>> \o t)
            /\ InFlight(q)' = s \o t
            /\ Delivered(q)' = Delivered(q)
            /\ GoneFrom(q)' = GoneFrom(q) \cup {w}
      BY <2>4 DEF Dropped
    <3>2. PICK i : i = Len(s) + 1
      OBVIOUS
    <3>3. /\ i \in 1..Len(InFlight(q)) /\ InFlight(q)[i] = w
          /\ Flow!Without(InFlight(q), i) = InFlight(q)'
      <4>1. /\ i \in 1..Len(InFlight(q)) /\ InFlight(q)[i] = w
            /\ SubSeq(InFlight(q), 1, i - 1) = s
            /\ SubSeq(InFlight(q), i + 1, Len(InFlight(q))) = t
        BY <3>1, <3>2, WithoutOne
      <4>2. Flow!Without(InFlight(q), i) = s \o t
        BY <4>1 DEF Flow!Without
      <4> QED
        BY <3>1, <4>1, <4>2
    <3>4. Flow!Drop(q, i)
      BY <2>1, <3>1, <3>3 DEF Still, GoneFrom, Flow!Drop
    <3> QED
      BY <3>3, <3>4 DEF Flow!Next
  <2>5. ASSUME NEW w \in Awaiting(q), TakenUp(q, w), Entered(q, w) \/ TurnedAway(q, w)
        PROVE  Flow!Next
    <3>1. w \in WindowsInUse
      <4>1. w \in 1..tick[q] /\ tick[q] <= HistorySize(q) + MaxTick
        BY <2>0 DEF AwaitingNew
      <4>2. tick[q] \in Nat
        BY DEF TypeOK
      <4>3. HistorySize(q) \in Nat /\ MaxTick \in Nat
        BY SizeNat, BoundsAssumption
      <4>4. w \in 1..(HistorySize(q) + MaxTick)
        BY <4>1, <4>2, <4>3
      <4> QED
        BY <4>4 DEF WindowsInUse
    <3>2. Flow!New(q, w)
      <4>1. Elements(Delivered(q)) \cup Elements(InFlight(q)) \subseteq Elements(Path(q))
        BY DeliveredType, InFlightType, ConcatElements DEF Path
      <4>2. w \notin Elements(InFlight(q)) \cup Elements(Delivered(q)) \cup GoneFrom(q)
        BY <2>0, <4>1 DEF AwaitingNew
      <4> QED
        BY <4>2 DEF Flow!New, Flow!Elements, Elements, GoneFrom
    <3>3. CASE Entered(q, w)
      <4>1. Len(InFlight(q)) < MostInFlight(q)
        <5>1. InFlight(q) \in Seq(Window) /\ w \in Window
          BY <2>5, InFlightType DEF TakenUp
        <5>2. Len(InFlight(q)') <= MostInFlight(q)
          BY DEF InFlightBounded
        <5>3. Len(InFlight(q)') = Len(InFlight(q)) + 1 /\ Len(InFlight(q)) \in Nat
          BY <3>3, <5>1 DEF Entered
        <5>4. MostInFlight(q) \in Nat
          BY SizeNat DEF MostInFlight
        <5> QED
          BY <5>2, <5>3, <5>4
      <4>2. Flow!Enter(q, w)
        BY <2>1, <3>2, <3>3, <4>1 DEF Entered, Still, GoneFrom, Flow!Enter
      <4> QED
        BY <3>1, <4>2 DEF Flow!Next
    <3>4. CASE TurnedAway(q, w)
      <4>1. Flow!TurnAway(q, w)
        BY <2>1, <3>2, <3>4 DEF TurnedAway, Still, GoneFrom, Flow!TurnAway
      <4> QED
        BY <3>1, <4>1 DEF Flow!Next
    <3> QED
      BY <2>5, <3>3, <3>4
  <2> QED
    BY <1>2, <2>0, <2>2, <2>3, <2>4, <2>5, SchedulerFlow, ClockKeepsFlow, DatasourceFlow,
       EvaluatorFlow, PushFlow DEF Moves
<1> QED
  BY <1>1, <1>2 DEF Next, Moves

(* The pipeline keeps the promise of WindowFlow, whatever the queries, the *)
(* capacities, the services and the retries.                               *)
THEOREM PipelineImplementsFlow == Spec => FlowSpec
<1>1. Init => Flow!Init
  BY InitEmpty DEF Flow!Init, GoneFrom
<1> QED
  BY <1>1, InitFlow, StepFlow, SimulateStep, TypeCorrect, Bounded, InvariantHolds, PTL
  DEF Spec, FlowSpec, Flow!Spec
=============================================================================
