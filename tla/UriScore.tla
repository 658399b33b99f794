------------------------------ MODULE UriScore ------------------------------
(***************************************************************************)
(* The score of a URI path element, by which an element is taken for an id *)
(* and replaced.  The element is read character by character; every change *)
(* between classes of characters costs points, and so do the length and    *)
(* the lack of digits at the end.                                          *)
(*                                                                         *)
(* A character is its class; "wide" stands for one of class "other" that   *)
(* takes two bytes, which the length counts.                               *)
(***************************************************************************)
EXTENDS Integers, SequencesExt

CONSTANTS
  Beginnings, \* beginnings of path elements
  MaxTail,    \* bound: characters behind the beginning
  Limit       \* fsm-replacer-limit

Char == {"lower", "upper", "digit", "delimiter", "other", "wide"}

Elements == {prefix \o tail : prefix \in Beginnings, tail \in BoundedSeq(Char, MaxTail)}

Bytes(s) == Len(s) + Cardinality({i \in DOMAIN s : s[i] = "wide"})

VARIABLES
  element,               \* the path element
  pos,                   \* characters read
  state,                 \* class of the last character, or "start"
  counter,               \* points
  digitsAndOtherCounter, \* characters that are digits or other
  result                 \* "reading", "id" or "plain"

vars == <<element, pos, state, counter, digitsAndOtherCounter, result>>

Init ==
  /\ element \in Elements
  /\ pos = 0
  /\ state = "start"
  /\ counter = 0
  /\ digitsAndOtherCounter = 0
  /\ result = "reading"

Take(class) ==
  /\ result = "reading"
  /\ pos < Len(element)
  /\ element[pos + 1] \in (IF class = "other" THEN {"other", "wide"} ELSE {class})
  /\ pos' = pos + 1
  /\ state' = class
  /\ UNCHANGED <<element, result>>

Lower ==
  /\ Take("lower")
  /\ counter' = counter + CASE state = "upper" -> 1
                            [] state \in {"digit", "other"} -> 2
                            [] OTHER -> 0
  /\ UNCHANGED digitsAndOtherCounter

Upper ==
  /\ Take("upper")
  /\ counter' = counter + CASE state = "lower" -> 1
                            [] state \in {"digit", "other"} -> 2
                            [] OTHER -> 0
  /\ UNCHANGED digitsAndOtherCounter

(* Mutant: the first character costs as any other.                         *)
DigitCostNoStart ==
  CASE state \in {"upper", "lower", "delimiter"} -> 1
    [] state = "digit" -> 2
    [] OTHER -> 3

DigitCost ==
  CASE state \in {"upper", "lower", "delimiter"} -> 1
    [] state = "digit" -> 2
    [] state = "start" -> 5
    [] OTHER -> 3

Digit ==
  /\ Take("digit")
  /\ counter' = counter + DigitCost
  /\ digitsAndOtherCounter' = digitsAndOtherCounter + 1

Delimiter ==
  /\ Take("delimiter")
  /\ counter' = counter + CASE state \in {"lower", "upper"} -> 0
                            [] state = "digit" -> 1
                            [] state \in {"start", "other"} -> 3
                            [] state = "delimiter" -> 2
  /\ UNCHANGED digitsAndOtherCounter

Other ==
  /\ Take("other")
  /\ counter' = counter + 3
  /\ digitsAndOtherCounter' = digitsAndOtherCounter + 1

LengthBonus(size) == IF size >= 16 /\ size % 4 = 0 THEN 1 ELSE 0

EndCost == IF state \in {"other", "delimiter"} THEN 1 ELSE 0

(* The element is read: the end, the lack of digits and the length count.  *)
Finish ==
  /\ result = "reading"
  /\ pos = Len(element)
  /\ counter' = counter + EndCost - (IF digitsAndOtherCounter = 0 THEN 5 ELSE 0)
                        + LengthBonus(Bytes(element))
  /\ result' = IF counter' >= Limit THEN "id" ELSE "plain"
  /\ UNCHANGED <<element, pos, state, digitsAndOtherCounter>>

Next == Lower \/ Upper \/ Digit \/ Delimiter \/ Other \/ Finish

Spec == Init /\ [][Next]_vars

-----------------------------------------------------------------------------
(* The costs drawn in img/FSM.PNG of the user guide, by the classes of two *)
(* neighbours; the start and the end of the element are classes of theirs. *)
Class(c) == IF c = "wide" THEN "other" ELSE c

Drawn(from, to) ==
  LET arrow(c) == <<from, to>> \in c
      letters == {"lower", "upper"}
  IN  CASE arrow({<<"lower", "upper">>, <<"upper", "lower">>, <<"digit", "delimiter">>,
                  <<"delimiter", "digit">>, <<"delimiter", "end">>, <<"other", "end">>}
                 \cup letters \X {"digit"}) -> 1
        [] arrow({"digit", "other"} \X letters) -> 2
        [] arrow({<<"digit", "digit">>, <<"delimiter", "delimiter">>, <<"start", "delimiter">>}) -> 2
        [] to = "other" -> 3
        [] arrow({"other"} \X {"digit", "delimiter"}) -> 3
        [] arrow({<<"start", "digit">>}) -> 5
        [] OTHER -> 0

ClassAt(i) ==
  IF i = 0 THEN "start" ELSE IF i > Len(element) THEN "end" ELSE Class(element[i])

(* The points of the path up to place i.                                   *)
DrawnPoints[i \in 0..Len(element) + 1] ==
  IF i = 0 THEN 0 ELSE DrawnPoints[i - 1] + Drawn(ClassAt(i - 1), ClassAt(i))

(* The other heuristics the guide mentions: digits, and the length.        *)
Heuristics ==
  LET size == Bytes(element)
  IN  (IF size >= 16 /\ size % 4 = 0 THEN 1 ELSE 0)
      - (IF \E i \in DOMAIN element : Class(element[i]) \in {"digit", "other"} THEN 0 ELSE 5)

(* An element that does not begin with a delimiter is replaced if the path *)
(* through the drawn machine and the heuristics give it enough points.     *)
ScoredAsDrawn ==
  result # "reading" /\ (element = <<>> \/ Head(element) # "delimiter") =>
    /\ counter = DrawnPoints[Len(element) + 1] + Heuristics
    /\ result = "id" <=> counter >= Limit
=============================================================================
