-------------------------- MODULE ResponseTables --------------------------
(***************************************************************************)
(* From the JSON of a datasource to the table that the evaluation reads: a *)
(* heading, and rows whose values are found by the place of their name in  *)
(* the heading.  Loki answers with streams, which have labels and lines;   *)
(* New Relic with events, or with facets, whose rows are taken as they     *)
(* come.  The labels of a stream and the attributes of an event are Go     *)
(* maps: every pass goes through them in an order of its own.              *)
(***************************************************************************)
EXTENDS Integers, SequencesExt, FiniteSetsExt

CONSTANTS
  Responses,  \* the responses considered, sequences of items: a function from
              \* the services "loki", "events" and "facets"
  Fields,     \* fields_in_order of the query, for Loki, without repetition
  FacetNames, \* the attributes of the facet
  message,    \* the name of the column with the line
  RESULT      \* the name of the column with the count

VARIABLES
  service,   \* what answers
  response,
  step,      \* "heading", "rows" or "done"
  item,      \* the item of the response that is next
  heading,
  columns,   \* keyListSet: the column of a name
  rows

vars == <<service, response, step, item, heading, columns, rows>>

Empty == "empty"   \* the value of a column without one
Short == "short"   \* a line of Loki without a time or a text

-----------------------------------------------------------------------------
(* A list without the elements that are x, gone through once.              *)
Without(list, x) ==
  LET kept[k \in 0..Len(list)] ==
        IF k = 0 THEN <<>>
        ELSE IF list[k] = x THEN kept[k - 1] ELSE Append(kept[k - 1], list[k])
  IN  kept[Len(list)]

(* What the heading begins with.                                           *)
FirstNames ==
  CASE service = "loki" -> <<message>> \o Without(Fields, message)
    [] service = "events" -> <<>>
    [] OTHER -> FacetNames \o <<RESULT>>

(* The column of every name of a heading.                                  *)
ColumnsOf(names) == [n \in Range(names) |-> CHOOSE c \in DOMAIN names : names[c] = n]

Init ==
  /\ service \in DOMAIN Responses
  /\ response \in Responses[service]
  /\ step = IF service = "facets" THEN "rows" ELSE "heading"
  /\ item = 1
  /\ heading = FirstNames
  /\ columns = ColumnsOf(FirstNames)
  /\ rows = <<>>

(* First pass: the names of an item that have no column yet.               *)
AddNames ==
  /\ step = "heading"
  /\ item <= Len(response)
  /\ \E new \in SetToSeqs(DOMAIN response[item].labels \ DOMAIN columns) :
       /\ heading' = heading \o new
       /\ columns' = ColumnsOf(heading')
  /\ item' = item + 1
  /\ UNCHANGED <<service, response, step, rows>>

HeadingDone ==
  /\ step = "heading"
  /\ item > Len(response)
  /\ step' = "rows"
  /\ item' = 1
  /\ UNCHANGED <<service, response, heading, columns, rows>>

-----------------------------------------------------------------------------
(* The values of an item in their columns, the others are empty.           *)
Template(labels) ==
  [c \in 1..Len(heading) |->
    IF \E n \in DOMAIN labels : columns[n] = c
    THEN labels[CHOOSE n \in DOMAIN labels : columns[n] = c]
    ELSE Empty]

(* Lines without both their values are passed over.                        *)
Lines(i) == Without(i.lines, Short)

(* Mutant: all rows of a stream are the template itself.                   *)
RowsShareTemplate(i) ==
  [k \in 1..Len(Lines(i)) |-> [Template(i.labels) EXCEPT ![1] = Last(Lines(i))]]

(* Every line has a row of its own, a copy of the template.                *)
StreamRows(i) ==
  [k \in 1..Len(Lines(i)) |-> [Template(i.labels) EXCEPT ![1] = Lines(i)[k]]]

EventRows(i) == <<Template(i.labels)>>

(* A facet without a result has no row; of several results the first one   *)
(* counts.  A name of another length than the facet's is only logged.      *)
FacetRows(i) == IF i.counts = <<>> THEN <<>> ELSE <<i.name \o <<i.counts[1]>>>>

AddRows ==
  /\ step = "rows"
  /\ item <= Len(response)
  /\ rows' = rows \o CASE service = "loki" -> StreamRows(response[item])
                       [] service = "events" -> EventRows(response[item])
                       [] OTHER -> FacetRows(response[item])
  /\ item' = item + 1
  /\ UNCHANGED <<service, response, step, heading, columns>>

(* A response without any item yields no table, for Loki not even the      *)
(* heading: the evaluation then has no rows.                               *)
TableDone ==
  /\ step = "rows"
  /\ item > Len(response)
  /\ step' = "done"
  /\ UNCHANGED <<service, response, item, heading, columns, rows>>

Next == AddNames \/ HeadingDone \/ AddRows \/ TableDone

Spec == Init /\ [][Next]_vars

-----------------------------------------------------------------------------
(* What the evaluation finds: FindStringIndexInArray takes the first place *)
(* of the name in the heading.                                             *)
Found(row, n) ==
  LET places == {c \in DOMAIN heading : heading[c] = n}
  IN IF places = {} THEN Empty ELSE row[Min(places)]

(* The records of the response, each a function from names to values.      *)
Meant(i) ==
  CASE service = "loki" ->
         [k \in 1..Len(Lines(i)) |->
           [n \in DOMAIN i.labels \cup {message} |->
             IF n = message THEN Lines(i)[k] ELSE i.labels[n]]]
    [] service = "events" -> <<i.labels>>
    [] OTHER ->
         IF i.counts = <<>> THEN <<>>
         ELSE <<[n \in Range(FacetNames) \cup {RESULT} |->
                  IF n = RESULT THEN i.counts[1]
                  ELSE i.name[CHOOSE c \in DOMAIN FacetNames : FacetNames[c] = n]]>>

RecordsOf[i \in 0..Len(response)] ==
  IF i = 0 THEN <<>> ELSE RecordsOf[i - 1] \o Meant(response[i])

AnswerRecords == RecordsOf[Len(response)]

(* The finished table has exactly the records of the response, in their    *)
(* order; read by name each has its values, and nothing where it has none: *)
(* whatever order the maps were gone through in.  The rows are as long as  *)
(* the heading: the evaluation indexes them without a check.  For Loki a   *)
(* configured field has a column in every table, also in a window in which *)
(* no stream has it as a label, in front of the labels that were found.    *)
TableIsResponse ==
  step = "done" =>
    /\ Len(rows) = Len(AnswerRecords)
    /\ \A k \in DOMAIN rows :
         /\ Len(rows[k]) = Len(heading)
         /\ \A n \in Range(heading) \cup DOMAIN AnswerRecords[k] :
              Found(rows[k], n) = IF n \in DOMAIN AnswerRecords[k] THEN AnswerRecords[k][n] ELSE Empty
    /\ service = "loki" =>
         Range(Fields) \cup {message} = Range(SubSeq(heading, 1, Cardinality(Range(Fields) \cup {message})))
=============================================================================
