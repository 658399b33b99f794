---------------------------- MODULE PushContents ----------------------------
(***************************************************************************)
(* What a push carries: the metrics as the windows leave them in their     *)
(* collectors (MetricState, here C), and the samples that the push         *)
(* goroutines make of them (RemoteWrite).                                  *)
(***************************************************************************)
EXTENDS RemoteWrite

CONSTANTS None, Definitions, MaxCount, MaxWindows     \* of MetricState

VARIABLES metric, state, exported, answer, windows, upset, total

C == INSTANCE MetricState

(* The collectors export what all windows counted, at the end of the last  *)
(* (evaluator.go, metrics/customcounter.go and its like).                  *)
ExportedAsCounted == C!ExportedAsCounted

(* No record counts twice and no counter goes back, over panics of the     *)
(* update too (metricsevaluator.updateMetrics).                            *)
NeverAheadNorBack == C!NeverAheadNorBack
=============================================================================
