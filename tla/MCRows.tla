------------------------------- MODULE MCRows -------------------------------
(* Small instances, for TLC, of what makes the rows of an answer.          *)
EXTENDS Rows

CONSTANTS
  host, level, pod,   \* names of columns
  r1, r2, r3          \* records

UpTo(n, S) == UNION {[1..k -> S] : k \in 1..n}
Maps(names, values) == UNION {[d -> values] : d \in SUBSET names}

(* Up to two streams, three events or three facets.                        *)
MCResponses ==
  [loki |-> UpTo(2, [labels : Maps({host, level, pod, message}, {"v"}),
                     lines : {<<>>, <<"x">>, <<"x", "y">>, <<"short", "y">>}]),
   events |-> UpTo(3, [labels : Maps({host, level}, {"v", "w"})]),
   facets |-> UpTo(3, [name : {<<"v", "w">>, <<"w", "v">>}, counts : {<<>>, <<"1">>, <<"1", "2">>}])]

EnricherOf(source, json, regexp, compiled, dest, uri, threads) ==
  [source |-> source, json |-> json, regexp |-> regexp, compiled |-> compiled,
   dest |-> dest, uri |-> uri, threads |-> threads]

(* Two columns from the JSON of a record, one from the first of them.      *)
Chain ==
  [enrich |-> << EnricherOf("message", TRUE, TRUE, TRUE, <<"method", "uri">>, {"uri"}, 2),
                 EnricherOf("uri", FALSE, FALSE, TRUE, <<"path">>, {"path"}, 3) >>,
   matched |-> {<<1, r1>>, <<1, r2>>},
   maxRows |-> 4]

(* Enrichers that cannot be used, and one that depends on them.            *)
Broken ==
  [enrich |-> << EnricherOf("absent", FALSE, TRUE, TRUE, <<"a">>, {}, 1),
                 EnricherOf("message", FALSE, TRUE, FALSE, <<"b">>, {}, 1),
                 EnricherOf("b", FALSE, TRUE, TRUE, <<"c">>, {}, 2),
                 EnricherOf("message", TRUE, FALSE, TRUE, <<"d">>, {}, 2),
                 EnricherOf("d", FALSE, TRUE, TRUE, <<"e">>, {}, 1) >>,
   matched |-> {<<3, r1>>, <<5, r1>>, <<5, r3>>},
   maxRows |-> 2]

MCQueries == {Chain, Broken}

(* Short path elements, and some about the length that the bonus starts at.*)
MCBeginnings == {<<>>, [i \in 1..13 |-> "lower"]}

MCFields == <<level, message>>
MCFacetNames == <<host, level>>

VARIABLE part

tableVars == <<service, response, step, item, columns>>
enricherVars == <<query, pc, stage, workers>>
uriVars == <<element, pos, state, counter, digitsAndOtherCounter, result>>
MCvars == <<part, tableVars, vars, uriVars>>

NoRows == heading = <<>> /\ rows = <<>>
NoTable == service = "loki" /\ response = <<>> /\ step = "rows" /\ item = 1 /\ columns = <<>>
NoEnricher == query = <<>> /\ pc = "idle" /\ stage = 0 /\ workers = <<>>
NoElement ==
  /\ element = <<>> /\ pos = 0 /\ state = "start"
  /\ counter = 0 /\ digitsAndOtherCounter = 0 /\ result = "reading"

MCInit ==
  \/ part = "tables" /\ Tables!Init /\ NoEnricher /\ NoElement
  \/ part = "enrichers" /\ Init /\ NoTable /\ NoElement
  \/ part = "uri" /\ Uri!Init /\ NoRows /\ NoTable /\ NoEnricher

MCNext ==
  \/ part = "tables" /\ Tables!Next /\ UNCHANGED <<part, enricherVars, uriVars>>
  \/ part = "enrichers" /\ Next /\ UNCHANGED <<part, tableVars, uriVars>>
  \/ part = "uri" /\ Uri!Next /\ UNCHANGED <<part, vars, tableVars>>

MCSpec == MCInit /\ [][MCNext]_MCvars
=============================================================================
