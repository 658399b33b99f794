--------------------------- MODULE Configuration ---------------------------
(***************************************************************************)
(* Reading the configuration: the same document is first checked (option   *)
(* -check-config) and then started with.  A start completes it from the    *)
(* environment, validates it and fills in the hidden fields; the sections  *)
(* are maps, which Go iterates in any order, and a section's entry may be  *)
(* empty, which is a nil pointer.  The key and the encrypted password are  *)
(* in module ConfigFile, the labels of a metric in MetricLabels.           *)
(*                                                                         *)
(* A document is a record of                                               *)
(*   datasources  a function from names to an entry or Empty; an entry has *)
(*                a host, a type and says who gave its user                *)
(*   exports      likewise; an entry has a strategy, a consumer, a host, a *)
(*                port, and the host of the last timestamp (or "none")     *)
(*   metrics, queries, api, files   what the code tells apart of them      *)
(***************************************************************************)
EXTENDS Naturals, FiniteSets

CONSTANTS
  Documents,   \* documents that are read
  Empty        \* an entry that has nothing below its name

VARIABLES
  doc,          \* the document
  verdict,      \* what -check-config says of it
  outcome,      \* how the start ends
  pc,
  dsName,       \* appConfig.DsName, Empty without a datasource
  datasources,  \* appConfig.Datasources
  exports,      \* appConfig.Exports
  left          \* exports that enrichFromEnvironmentVariables has not seen

read == <<dsName, datasources, exports>>
vars == <<doc, verdict, outcome, pc, read, left>>

Init ==
  /\ doc \in Documents
  /\ verdict = "open" /\ outcome = "open"
  /\ pc = "check"
  /\ dsName = Empty
  /\ datasources = doc.datasources
  /\ exports = doc.exports
  /\ left = {}

-----------------------------------------------------------------------------
(* initDSName: the first datasource of the map.                            *)
InitDSName ==
  IF DOMAIN doc.datasources = {} THEN dsName' = Empty
  ELSE dsName' \in DOMAIN doc.datasources

Reread ==
  /\ InitDSName
  /\ datasources' = doc.datasources
  /\ exports' = doc.exports

Datasource(name) == name \in DOMAIN datasources /\ datasources[name] # Empty

Filled == {e \in DOMAIN exports : exports[e] # Empty}

(* The empty strategy is push: the validation writes it into the entry.    *)
StrategyOf(e) == IF exports[e].strategy = "" THEN "push" ELSE exports[e].strategy

Pushing == {e \in Filled : StrategyOf(e) = "push"}

Pulling == {e \in Filled : StrategyOf(e) = "pull"}

(* What keeps the exporter from starting.                                  *)
SectionErrors ==
  \/ doc.api \in {"old", "unreadable"}
  \/ doc.metrics = "none"
  \/ doc.queries = "none"

DatasourceErrors ==
  \/ Cardinality(DOMAIN datasources) # 1
  \/ \E d \in DOMAIN datasources : datasources[d] = Empty \/ datasources[d].host = "bad"

EntryErrors ==
  \/ Filled # DOMAIN exports
  \/ \E e \in Filled : StrategyOf(e) \notin {"push", "pull"}
  \/ \E e \in Pushing : exports[e].host = "bad" \/ exports[e].timestamps = "bad"
  \/ \E e \in Pulling : ~exports[e].port

(* Mutant: two push exports are not refused.                               *)
PushUncounted == EntryErrors \/ Cardinality(Pulling) > 1

ExportErrors == EntryErrors \/ Cardinality(Pulling) > 1 \/ Cardinality(Pushing) > 1

Blocked == SectionErrors \/ DatasourceErrors \/ ExportErrors

(* The checks of the queries read the type of the datasource without a     *)
(* test, before the errors found so far are reported.                      *)
ValidationPanics == ~Datasource(dsName)

(* ValidateConfig, with what becomes of it.                                *)
Validated == IF ValidationPanics THEN "panic" ELSE IF Blocked THEN "refused" ELSE "able"

-----------------------------------------------------------------------------
(* SimpleSilentRead and ValidateConfig: -check-config.                     *)
CheckRead ==
  /\ pc = "check"
  /\ Reread
  /\ pc' = "check validate"
  /\ UNCHANGED <<doc, verdict, outcome, left>>

CheckValidate ==
  /\ pc = "check validate"
  /\ verdict' = Validated
  /\ pc' = "read"
  /\ UNCHANGED <<doc, outcome, read, left>>

-----------------------------------------------------------------------------
End(result) ==
  /\ outcome' = result
  /\ pc' = "ended"

ReadDocument ==
  /\ pc = "read"
  /\ Reread
  /\ left' = DOMAIN doc.exports
  /\ pc' = IF DOMAIN doc.datasources = {} THEN "exports" ELSE "datasource"
  /\ UNCHANGED <<doc, verdict, outcome>>

WithUser(entry) == [entry EXCEPT !.user = IF @ = "absent" THEN "environment" ELSE @]

(* Only the first datasource of the map gets what the environment has.     *)
EnrichDatasource ==
  /\ pc = "datasource"
  /\ \E d \in DOMAIN datasources :
       IF datasources[d] = Empty
       THEN End("panic") /\ UNCHANGED datasources
       ELSE /\ datasources' = IF datasources[d].type = "known"
                              THEN [datasources EXCEPT ![d] = WithUser(@)]
                              ELSE datasources
            /\ pc' = "exports"
            /\ UNCHANGED outcome
  /\ UNCHANGED <<doc, verdict, dsName, exports, left>>

EnrichedExport(entry) ==
  LET own == IF entry.consumer = "known" THEN WithUser(entry) ELSE entry
  IN  [own EXCEPT !.timestampUser =
         IF entry.timestamps # "none" /\ @ = "absent" THEN "environment" ELSE @]

(* An export of another strategy is passed over, a push export is the last *)
(* that is looked at.                                                      *)
LeftAfter(e) == IF exports[e].strategy = "push" THEN {} ELSE left \ {e}

EnrichExport ==
  /\ pc = "exports"
  /\ \E e \in left :
       IF exports[e] = Empty
       THEN End("panic") /\ UNCHANGED <<exports, left>>
       ELSE /\ exports' = IF exports[e].strategy = "push"
                          THEN [exports EXCEPT ![e] = EnrichedExport(@)]
                          ELSE exports
            /\ left' = LeftAfter(e)
            /\ UNCHANGED <<outcome, pc>>
  /\ UNCHANGED <<doc, verdict, dsName, datasources>>

Validate ==
  /\ pc = "exports"
  /\ left = {}
  /\ IF Validated = "able"
     THEN /\ pc' = "hidden"
          /\ exports' = [e \in DOMAIN exports |-> [exports[e] EXCEPT !.strategy = StrategyOf(e)]]
          /\ UNCHANGED outcome
     ELSE End(Validated) /\ UNCHANGED exports
  /\ UNCHANGED <<doc, verdict, dsName, datasources, left>>

(* processHiddenFields writes into every metric and every query.           *)
ProcessHiddenFields ==
  /\ pc = "hidden"
  /\ IF "empty entry" \in {doc.metrics, doc.queries}
     THEN End("panic")
     ELSE pc' = "tls" /\ UNCHANGED outcome
  /\ UNCHANGED <<doc, verdict, read, left>>

(* The certificates are read; the host NONE stands for no last timestamp.  *)
ProcessTls ==
  /\ pc = "tls"
  /\ IF doc.files = "unreadable"
     THEN End("refused") /\ UNCHANGED exports
     ELSE /\ End("started")
          /\ exports' = [e \in DOMAIN exports |->
               [exports[e] EXCEPT !.timestamps = IF @ = "NONE" THEN "none" ELSE @]]
  /\ UNCHANGED <<doc, verdict, dsName, datasources, left>>

Next ==
  \/ CheckRead \/ CheckValidate
  \/ ReadDocument \/ EnrichDatasource \/ EnrichExport
  \/ Validate \/ ProcessHiddenFields \/ ProcessTls

Spec == Init /\ [][Next]_vars

-----------------------------------------------------------------------------
(* The environment completes the first datasource of a map in any order,   *)
(* and of the exports the first one with the strategy push that it meets.  *)
(* In a document that the validation lets start none is passed over, in    *)
(* whatever order: the datasource has its user, and the export that is     *)
(* written as push has its two (enrichFromEnvironmentVariables before      *)
(* ValidateConfig).  An export without a strategy is not claimed to have   *)
(* any: it is passed over, and only the validation makes it push.          *)
EnvironmentReaches ==
  outcome = "started" =>
    /\ \A d \in DOMAIN datasources : datasources[d].type = "known" => datasources[d].user # "absent"
    /\ \A e \in DOMAIN exports : doc.exports[e].strategy = "push" =>
         /\ exports[e].consumer = "known" => exports[e].user # "absent"
         /\ exports[e].timestamps # "none" => exports[e].timestampUser # "absent"

(* A start that the validation does not stop was called able by the check  *)
(* before: what the environment adds does not mend a document.             *)
StartedWasAble == outcome = "started" => verdict = "able"
=============================================================================
