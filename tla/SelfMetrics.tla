---------------------------- MODULE SelfMetrics ----------------------------
(***************************************************************************)
(* The metrics of the exporter about itself, on their way to the push      *)
(* target.  Every minute the cron starts a job in a goroutine of its own.  *)
(* The job gathers the self metrics, which stamps them with the time       *)
(* before it reads the values, and puts the copy into the self queue,      *)
(* without waiting: a full queue loses it.  One goroutine takes the copies *)
(* from the queue and pushes them, again and again if it is configured so; *)
(* if it panics, it is started again, which is counted among the panics.   *)
(* A retry sends the copy again, as the remote write does (Pipeline has    *)
(* the Victoria loop, whose retry sends nothing).                          *)
(*                                                                         *)
(* The metrics are one counter, which many goroutines raise, and the gauge *)
(* with the size of the self queue, which whoever used the queue sets      *)
(* afterwards, from a length read before.                                  *)
(***************************************************************************)
EXTENDS Integers, Sequences, FiniteSetsExt

CONSTANTS
  Jobs,              \* jobs of the cron that may run at the same time
  Settings,          \* records of
                     \*   capacity          general.gm-queue-self-mon-size
                     \*   pushRetry         general.push-retry
                     \*   disableTimestamp  flag: the copies carry no time, the
                     \*                     target stamps them
  MaxTime,           \* bound: the last moment stands for all later ones
  MaxObserved,       \* bound: what is counted
  MaxPanics          \* bound: panics of the push goroutine

VARIABLES
  setting,  \* the configuration
  time,
  total,    \* the counter
  job,      \* per job: its step, the copy it makes, the length it read
  queue,    \* copies in the self queue
  gauge,    \* queue_size of the self queue
  push,     \* the push goroutine likewise
  pushed,   \* the copy the target stored last
  panics

vars == <<setting, time, total, job, queue, gauge, push, pushed, panics>>

(* A copy: its time, its counter, and a ghost: the counter at that time.   *)
Nothing == [time |-> 0, value |-> 0, floor |-> 0]

Idle == [pc |-> "idle", copy |-> Nothing, seen |-> 0]

(* Every series is initialized with 0 before the goroutines start.         *)
Init ==
  /\ setting \in Settings
  /\ time = 0 /\ total = 0 /\ panics = 0
  /\ job = [j \in Jobs |-> Idle]
  /\ queue = <<>>
  /\ gauge = 0
  /\ push = [pc |-> "loop", copy |-> Nothing, seen |-> 0]
  /\ pushed = Nothing

Tick ==
  /\ time < MaxTime
  /\ time' = time + 1
  /\ UNCHANGED <<setting, total, job, queue, gauge, push, pushed, panics>>

(* Some goroutine counts an error, a match or a panic of its own.          *)
Observe ==
  /\ total < MaxObserved
  /\ total' = total + 1
  /\ UNCHANGED <<setting, time, job, queue, gauge, push, pushed, panics>>

-----------------------------------------------------------------------------
Fire(j) ==
  /\ job[j].pc = "idle"
  /\ job' = [job EXCEPT ![j].pc = "stamp"]
  /\ UNCHANGED <<setting, time, total, queue, gauge, push, pushed, panics>>

(* Collect takes the time first.                                           *)
Stamp(j) ==
  /\ job[j].pc = "stamp"
  /\ job' = [job EXCEPT ![j].pc = "read", ![j].copy = [time |-> time, value |-> 0, floor |-> total]]
  /\ UNCHANGED <<setting, time, total, queue, gauge, push, pushed, panics>>

Read(j) ==
  /\ job[j].pc = "read"
  /\ job' = [job EXCEPT ![j].pc = "put", ![j].copy.value = total]
  /\ UNCHANGED <<setting, time, total, queue, gauge, push, pushed, panics>>

(* A channel takes what fits, or what a waiting receiver takes at once.    *)
Room == Len(queue) < setting.capacity \/ (push.pc = "parked" /\ queue = <<>>)

Put(j) ==
  /\ job[j].pc = "put"
  /\ IF Room
     THEN /\ queue' = Append(queue, job[j].copy)
          /\ job' = [job EXCEPT ![j].pc = "length"]
     ELSE /\ job' = [job EXCEPT ![j] = Idle]
          /\ UNCHANGED queue
  /\ UNCHANGED <<setting, time, total, gauge, push, pushed, panics>>

(* What is handed to a waiting receiver is never in the channel.           *)
Length == Min({Len(queue), setting.capacity})

JobReadsLength(j) ==
  /\ job[j].pc = "length"
  /\ job' = [job EXCEPT ![j].pc = "gauge", ![j].seen = Length]
  /\ UNCHANGED <<setting, time, total, queue, gauge, push, pushed, panics>>

JobSetsGauge(j) ==
  /\ job[j].pc = "gauge"
  /\ gauge' = job[j].seen
  /\ job' = [job EXCEPT ![j] = Idle]
  /\ UNCHANGED <<setting, time, total, queue, push, pushed, panics>>

-----------------------------------------------------------------------------
Park ==
  /\ push.pc = "loop"
  /\ queue = <<>>
  /\ push' = [push EXCEPT !.pc = "parked"]
  /\ UNCHANGED <<setting, time, total, job, queue, gauge, pushed, panics>>

Get ==
  /\ push.pc \in {"loop", "parked"}
  /\ queue # <<>>
  /\ push' = [push EXCEPT !.pc = "length", !.copy = Head(queue)]
  /\ queue' = Tail(queue)
  /\ UNCHANGED <<setting, time, total, job, gauge, pushed, panics>>

PushReadsLength ==
  /\ push.pc = "length"
  /\ push' = [push EXCEPT !.pc = "gauge", !.seen = Length]
  /\ UNCHANGED <<setting, time, total, job, queue, gauge, pushed, panics>>

PushSetsGauge ==
  /\ push.pc = "gauge"
  /\ gauge' = push.seen
  /\ push' = [push EXCEPT !.pc = "send", !.seen = 0]
  /\ UNCHANGED <<setting, time, total, job, queue, pushed, panics>>

(* The target stores the copy: under its own time, or under that of the    *)
(* arrival.                                                                *)
Stored ==
  IF setting.disableTimestamp THEN [push.copy EXCEPT !.time = time] ELSE push.copy

Accept ==
  /\ push.pc = "send"
  /\ pushed' = Stored
  /\ push' = [push EXCEPT !.pc = "loop", !.copy = Nothing]
  /\ UNCHANGED <<setting, time, total, job, queue, gauge, panics>>

(* Mutant: a refused copy goes to the end of the queue.                    *)
RequeueOnError ==
  /\ push.pc = "send"
  /\ UNCHANGED pushed
  /\ queue' = IF setting.pushRetry /\ Room THEN Append(queue, push.copy) ELSE queue
  /\ push' = [push EXCEPT !.pc = "loop", !.copy = Nothing]
  /\ UNCHANGED <<setting, time, total, job, gauge, panics>>

(* An error, or an answer that is lost though the copy was stored.         *)
Error ==
  /\ push.pc = "send"
  /\ pushed' \in {pushed, Stored}
  /\ push' = IF setting.pushRetry THEN push ELSE [push EXCEPT !.pc = "loop", !.copy = Nothing]
  /\ UNCHANGED <<setting, time, total, job, queue, gauge, panics>>

(* The stack unwinds to the recover; the copy is lost.                     *)
Panic ==
  /\ push.pc = "send"
  /\ panics < MaxPanics
  /\ panics' = panics + 1
  /\ push' = [push EXCEPT !.pc = "restart", !.copy = Nothing]
  /\ UNCHANGED <<setting, time, total, job, queue, gauge, pushed>>

(* Mutant: the goroutine is not started again.                             *)
NoRestart == FALSE /\ UNCHANGED vars

(* Five seconds later the goroutine is started again, and that is counted. *)
Restart ==
  /\ push.pc = "restart"
  /\ push' = [push EXCEPT !.pc = "loop"]
  /\ total' = total + 1
  /\ UNCHANGED <<setting, time, job, queue, gauge, pushed, panics>>

JobStep(j) == Stamp(j) \/ Read(j) \/ Put(j) \/ JobReadsLength(j) \/ JobSetsGauge(j)

PushStep == Park \/ Get \/ PushReadsLength \/ PushSetsGauge \/ Accept \/ Error \/ Restart

Next ==
  \/ Tick \/ Observe
  \/ \E j \in Jobs : Fire(j) \/ JobStep(j)
  \/ PushStep \/ Panic

(* The cron fires every minute, no goroutine stops between two steps, and  *)
(* a target that is asked again and again accepts again and again.         *)
Fairness ==
  /\ \A j \in Jobs : WF_vars(Fire(j)) /\ WF_vars(JobStep(j))
  /\ WF_vars(PushStep)
  /\ SF_vars(Accept)

Spec == Init /\ [][Next]_vars /\ Fairness

-----------------------------------------------------------------------------
(* The series of a counter at the target never falls, and its samples come *)
(* in the order of their times, each with everything that was counted      *)
(* until its time: whatever was lost, retried, stored twice or dropped in  *)
(* between.                                                                *)
CounterNeverFalls ==
  [][/\ pushed'.value >= pushed.value
     /\ pushed'.time >= pushed.time
     /\ pushed'.value >= pushed'.floor]_vars

(* Whatever is counted is at the target in the end, though copies are lost *)
(* to a full queue, to errors and to panics: a later copy has it too.  The *)
(* panics of the push goroutine itself are included.  (The counter does    *)
(* not fall: this says that total >= n leads to pushed.value >= n.)        *)
CountArrives ==
  \A n \in 1..(MaxObserved + MaxPanics) : []<>(total < n \/ pushed.value >= n)
=============================================================================
