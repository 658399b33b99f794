------------------------------ MODULE Startup -------------------------------
(***************************************************************************)
(* The configuration of a start: its files on disk (ConfigFile), and the   *)
(* document in them (Configuration).                                       *)
(***************************************************************************)
EXTENDS ConfigFile

CONSTANTS Documents, Empty     \* of Configuration

VARIABLES doc, verdict, outcome, step, dsName, datasources, exports, left

Read == INSTANCE Configuration WITH pc <- step

(* A start that succeeds has completed from the environment the datasource *)
(* and the export that is written as push, whatever the order of the maps, *)
(* and the check called the same document able before                      *)
(* (enrichFromEnvironmentVariables, ValidateConfig).                       *)
StartedIsCompleted == Read!EnvironmentReaches /\ Read!StartedWasAble
=============================================================================
