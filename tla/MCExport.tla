------------------------------ MODULE MCExport ------------------------------
(* Small instances, for TLC, of what leaves the process beside the push:   *)
(* the registries that are updated, scraped and copied, or the way of the  *)
(* self metrics to the push target.                                        *)
EXTENDS ExportPaths, Sequences, TLC

CONSTANTS q1, q2, m1, m2, m3     \* queries and their metrics

VARIABLE part     \* "registry" or "self"

(* Two metrics of one query and one of the other.                          *)
MetricsOfQuery == (q1 :> {m1, m2}) @@ (q2 :> {m3})

(* With retries and times of its own, and without, and without a buffer.   *)
MCSettings ==
  {[capacity |-> 2, pushRetry |-> TRUE, disableTimestamp |-> FALSE],
   [capacity |-> 0, pushRetry |-> FALSE, disableTimestamp |-> TRUE]}

selfVars == <<setting, time, total, job, queue, gauge, push, pushed, panics>>

(* No goroutine runs.                                                      *)
NoSelf ==
  /\ setting = <<>> /\ time = 0 /\ total = 0 /\ queue = <<>> /\ gauge = 0 /\ panics = 0
  /\ job = [j \in Jobs |-> [pc |-> "off"]]
  /\ push = [pc |-> "off"]
  /\ pushed = [time |-> 0, value |-> 0, floor |-> 0]

MCInit ==
  \/ part = "registry" /\ Init /\ NoSelf
  \/ part = "self" /\ Init /\ SM!Init

MCNext ==
  \/ part = "registry" /\ Next /\ UNCHANGED <<part, selfVars>>
  \/ part = "self" /\ SM!Next /\ UNCHANGED <<part, vars>>

(* What does not run has nothing that fairness could ask of it.            *)
MCSpec == MCInit /\ [][MCNext]_<<part, vars, selfVars>> /\ Fairness /\ SM!Fairness
=============================================================================
