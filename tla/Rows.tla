-------------------------------- MODULE Rows --------------------------------
(***************************************************************************)
(* What makes the rows of an answer: the tables of the datasource services *)
(* (ResponseTables, here Tables), the enrichers that append columns to     *)
(* them (Enrichment), and the score by which these replace ids in URIs     *)
(* (UriScore, here Uri).                                                   *)
(***************************************************************************)
EXTENDS Enrichment

CONSTANTS
  message, RESULT, Responses, LokiFields, FacetNames,   \* of ResponseTables
  Beginnings, MaxTail, Limit                            \* of UriScore

VARIABLES
  service, response, step, item, columns,                      \* of ResponseTables
  element, pos, state, counter, digitsAndOtherCounter, result  \* of UriScore

Tables == INSTANCE ResponseTables WITH Fields <- LokiFields
Uri == INSTANCE UriScore

(* A table has the records of the response, each value under its name, for *)
(* every order of the maps (lokiservice.go, newrelicservice.go).           *)
TableIsResponse == Tables!TableIsResponse

(* A path element has the score of the machine drawn in img/FSM.PNG, apart *)
(* from one that begins with a delimiter (utils.IsIdFSM).                  *)
ScoredAsDrawn == Uri!ScoredAsDrawn
=============================================================================
