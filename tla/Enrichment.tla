----------------------------- MODULE Enrichment -----------------------------
(***************************************************************************)
(* The enrichers of a query: one after the other they append columns to    *)
(* the answer, computed from a column the answer has or an earlier         *)
(* enricher appended.  The heading is extended first; then the rows are    *)
(* split between goroutines that extend their rows in place, and the       *)
(* enricher waits for all of them.  An enricher whose source column is     *)
(* missing, or whose expression did not compile, is left out.              *)
(*                                                                         *)
(* A value is the record it comes from and what was done to it.  A query   *)
(* is a record of                                                          *)
(*   enrich    its enrichers in the order of the configuration: source     *)
(*             column, json-path, regexp, whether it compiled, destination *)
(*             columns, which of them have their URIs processed, threads   *)
(*   matched   pairs of an enricher and a record its expression matches    *)
(*   maxRows   bound: rows of an answer                                    *)
(***************************************************************************)
EXTENDS Partition, SequencesExt

CONSTANTS
  Field,      \* field of the answer the enrichers start from
  Records,    \* records of the data source
  Unparsed,   \* records that are no JSON
  Queries     \* queries that are considered

EnricherType ==
  [source : STRING, json : BOOLEAN, regexp : BOOLEAN, compiled : BOOLEAN,
   dest : Seq(STRING) \ {<<>>}, uri : SUBSET STRING, threads : Int]

(* Field names are unique in a query, as the user guide demands.  An       *)
(* enricher without destination fields changes nothing and is left out.    *)
ASSUME QueriesAssumption ==
  /\ Field \in STRING
  /\ \A q \in Queries :
       /\ q.maxRows \in Nat
       /\ q.enrich \in Seq(EnricherType)
       /\ \A e \in DOMAIN q.enrich :
            /\ IsInjective(q.enrich[e].dest)
            /\ Field \notin Range(q.enrich[e].dest)
            /\ \A f \in DOMAIN q.enrich \ {e} :
                 Range(q.enrich[e].dest) \cap Range(q.enrich[f].dest) = {}

VARIABLES
  query,    \* the query
  pc,       \* "idle", "next" (between two enrichers), "work" or "done"
  stage,    \* enricher in work
  heading,  \* row 0 of the answer
  rows,     \* rows behind the heading: sequences of values
  workers   \* goroutines: row, destination column, end, whether it is done

vars == <<query, pc, stage, heading, rows, workers>>

Init ==
  /\ query \in Queries
  /\ pc = "idle"
  /\ stage = 0
  /\ heading = <<>>
  /\ rows = <<>>
  /\ workers = <<>>

Original(r) == [record |-> r, steps |-> <<>>]
Then(value, step) == [value EXCEPT !.steps = Append(@, step)]

(* An answer arrives; one without even a heading is not enriched.          *)
Arrive(records) ==
  /\ pc \in {"idle", "done"}
  /\ heading' = <<Field>>
  /\ rows' = [i \in 1..Len(records) |-> <<Original(records[i])>>]
  /\ stage' = 1
  /\ pc' = "next"
  /\ UNCHANGED <<query, workers>>

Enricher == query.enrich[stage]

(* Position of a field in the heading, 0 if it is not there.               *)
SourceIndex(name) ==
  IF \E i \in DOMAIN heading : heading[i] = name
    THEN CHOOSE i \in DOMAIN heading : heading[i] = name /\ \A j \in 1..(i - 1) : heading[j] # name
    ELSE 0

Applies ==
  /\ Enricher.regexp => Enricher.compiled
  /\ SourceIndex(Enricher.source) # 0

SkipEnricher ==
  /\ pc = "next"
  /\ stage <= Len(query.enrich)
  /\ ~Applies
  /\ stage' = stage + 1
  /\ UNCHANGED <<query, pc, heading, rows, workers>>

NewWorker(i, n, t) ==
  [row |-> Start(i, n, t), stop |-> Stop(i, n, t), k |-> 1, done |-> FALSE]

NewColumns == Enricher.dest

(* The heading grows before any row does.                                  *)
StartEnricher ==
  /\ pc = "next"
  /\ stage <= Len(query.enrich)
  /\ Applies
  /\ heading' = heading \o NewColumns
  /\ LET n == Len(rows)
         t == ThreadsNumber(Enricher.threads, n)
     IN  workers' = [w \in 1..t |-> NewWorker(w - 1, n, t)]
  /\ pc' = "work"
  /\ UNCHANGED <<query, stage, rows>>

(* The json-path yields a text of its own if the source is no JSON.        *)
ProcessJson(value) ==
  Then(value, IF value.record \in Unparsed THEN "JSON_NOT_PARSED" ELSE "json")

(* Mutant: the json path is not applied.                                   *)
ContentRaw(value) == value

Content(value) == IF Enricher.json THEN ProcessJson(value) ELSE value

RemoveIDs(value) == Then(value, "uri")

Processed(dest, value) == IF dest \in Enricher.uri THEN RemoveIDs(value) ELSE value

(* With an expression: the template of the destination, expanded, or the   *)
(* default if the content does not match; without: the content.            *)
DestValue(dest, content) ==
  IF ~Enricher.regexp THEN Processed(dest, content)
  ELSE IF <<stage, content.record>> \in query.matched THEN Processed(dest, Then(content, dest))
  ELSE Then(content, "NOT_MATCHED")

Working(w) == pc = "work" /\ w \in DOMAIN workers /\ workers[w].row < workers[w].stop

NextField(worker) ==
  IF worker.k < Len(Enricher.dest)
    THEN [worker EXCEPT !.k = @ + 1]
    ELSE [worker EXCEPT !.k = 1, !.row = @ + 1]

(* One destination field of one row.                                       *)
AppendValue(w) ==
  /\ Working(w)
  /\ LET worker == workers[w]
         content == Content(rows[worker.row][SourceIndex(Enricher.source)])
         value == DestValue(Enricher.dest[worker.k], content)
     IN  /\ rows' = [rows EXCEPT ![worker.row] = Append(@, value)]
         /\ workers' = [workers EXCEPT ![w] = NextField(@)]
  /\ UNCHANGED <<query, pc, stage, heading>>

(* A goroutine is through with its rows: it reports to the channel.        *)
FinishWorker(w) ==
  /\ pc = "work"
  /\ w \in DOMAIN workers
  /\ ~workers[w].done
  /\ workers[w].row >= workers[w].stop
  /\ workers' = [workers EXCEPT ![w].done = TRUE]
  /\ UNCHANGED <<query, pc, stage, heading, rows>>

AllDone == \A w \in DOMAIN workers : workers[w].done

(* The enricher waits for its goroutines.                                  *)
EndEnricher ==
  /\ pc = "work"
  /\ AllDone
  /\ workers' = <<>>
  /\ stage' = stage + 1
  /\ pc' = "next"
  /\ UNCHANGED <<query, heading, rows>>

Finish ==
  /\ pc = "next"
  /\ stage > Len(query.enrich)
  /\ pc' = "done"
  /\ UNCHANGED <<query, stage, heading, rows, workers>>

Next ==
  \/ \E records \in BoundedSeq(Records, query.maxRows) : Arrive(records)
  \/ SkipEnricher \/ StartEnricher \/ EndEnricher \/ Finish
  \/ \E w \in DOMAIN workers : AppendValue(w) \/ FinishWorker(w)

Spec == Init /\ [][Next]_vars

-----------------------------------------------------------------------------
(* What the user guide says a destination field is: json-path first, then  *)
(* the expression on its result, then the processing of URIs.              *)
Described(e, name, record, source) ==
  LET enricher == query.enrich[e]
      content == CASE ~enricher.json -> source
                   [] enricher.json /\ record \in Unparsed -> Then(source, "JSON_NOT_PARSED")
                   [] OTHER -> Then(source, "json")
      plain == IF enricher.regexp THEN Then(content, name) ELSE content
  IN  IF enricher.regexp /\ <<e, record>> \notin query.matched THEN Then(content, "NOT_MATCHED")
      ELSE IF name \in enricher.uri THEN Then(plain, "uri") ELSE plain

(* An enricher is of use if its expression compiled and its source is a    *)
(* column of the record.                                                   *)
Usable(e, columns) ==
  /\ query.enrich[e].regexp => query.enrich[e].compiled
  /\ query.enrich[e].source \in DOMAIN columns

(* The columns of a record after one enricher more.                        *)
Enriched(e, record, columns) ==
  IF Usable(e, columns)
    THEN [name \in DOMAIN columns \cup Range(query.enrich[e].dest) |->
            IF name \in DOMAIN columns THEN columns[name]
            ELSE Described(e, name, record, columns[query.enrich[e].source])]
    ELSE columns

(* The columns of all records after the first e enrichers, one by one.     *)
ColumnsAfter[e \in 0..Len(query.enrich)] ==
  [record \in Records |->
     IF e = 0 THEN [name \in {Field} |-> Original(record)]
     ELSE Enriched(e, record, ColumnsAfter[e - 1][record])]

(* The answer has the columns of the usable enrichers and no others, every *)
(* row has a value for each of them, and however the goroutines interleave *)
(* it is the one the guide describes for its record and column, along the  *)
(* chain of the enrichers.                                                 *)
ColumnsAreSequential ==
  pc = "done" =>
    LET columns == ColumnsAfter[Len(query.enrich)]
    IN  /\ \A record \in Records : Range(heading) = DOMAIN columns[record]
        /\ \A i \in DOMAIN rows :
             /\ Len(rows[i]) = Len(heading)
             /\ \A j \in DOMAIN heading : rows[i][j] = columns[rows[i][1].record][heading[j]]
=============================================================================
