---------------------------- MODULE ExportPaths -----------------------------
(***************************************************************************)
(* What leaves the process beside the push of the queries: the registries  *)
(* that are updated, scraped and copied (Registry), and the self metrics   *)
(* on their way to the push target (SelfMetrics, here SM).                 *)
(***************************************************************************)
EXTENDS Registry

CONSTANTS Jobs, Settings, MaxTime, MaxObserved, MaxSelfPanics     \* of SelfMetrics

VARIABLES setting, time, total, job, queue, gauge, push, pushed, panics

SM == INSTANCE SelfMetrics WITH MaxPanics <- MaxSelfPanics

(* The counter at the push target never falls and has what its time says   *)
(* (selfmonitor.Collect, promremotewriteprocessor.go).                     *)
CounterNeverFalls == SM!CounterNeverFalls

(* Everything counted is at the target in the end, over lost copies and    *)
(* panics of the pusher (selfmonitorscheduler.go).                         *)
CountArrives == SM!CountArrives
=============================================================================
