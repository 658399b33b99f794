----------------------------- MODULE WindowFlow -----------------------------
(***************************************************************************)
(* What the pipeline promises about the time windows of a query, whatever  *)
(* the stages between the scheduler and the monitoring system.             *)
(*                                                                         *)
(* A window enters at most once and is turned away only under a backlog.   *)
(* At most Capacity[q] windows are in flight.  They are delivered in the   *)
(* order they entered, none twice; a window may be dropped on the way, and *)
(* then it is accounted for and never delivered.                           *)
(***************************************************************************)
EXTENDS Naturals, Sequences

CONSTANTS Query, Window, Capacity, Backlog

VARIABLES
  inFlight,   \* windows on their way, in the order they entered
  delivered,  \* windows that reached the monitoring system
  gone        \* windows turned away or dropped

flowVars == <<inFlight, delivered, gone>>

Elements(s) == {s[i] : i \in 1..Len(s)}

Without(s, i) == SubSeq(s, 1, i - 1) \o SubSeq(s, i + 1, Len(s))

Init ==
  /\ inFlight = [q \in Query |-> <<>>]
  /\ delivered = [q \in Query |-> <<>>]
  /\ gone = [q \in Query |-> {}]

New(q, w) == w \notin Elements(inFlight[q]) \cup Elements(delivered[q]) \cup gone[q]

Enter(q, w) ==
  /\ New(q, w)
  /\ Len(inFlight[q]) < Capacity[q]
  /\ inFlight' = [inFlight EXCEPT ![q] = Append(@, w)]
  /\ UNCHANGED <<delivered, gone>>

TurnAway(q, w) ==
  /\ New(q, w)
  /\ Len(inFlight[q]) >= Backlog[q]
  /\ gone' = [gone EXCEPT ![q] = @ \cup {w}]
  /\ UNCHANGED <<inFlight, delivered>>

Deliver(q) ==
  /\ inFlight[q] # <<>>
  /\ inFlight' = [inFlight EXCEPT ![q] = Tail(@)]
  /\ delivered' = [delivered EXCEPT ![q] = Append(@, Head(inFlight[q]))]
  /\ UNCHANGED gone

Drop(q, i) ==
  /\ inFlight' = [inFlight EXCEPT ![q] = Without(@, i)]
  /\ gone' = [gone EXCEPT ![q] = @ \cup {inFlight[q][i]}]
  /\ UNCHANGED delivered

Next ==
  \E q \in Query :
    \/ \E w \in Window : Enter(q, w) \/ TurnAway(q, w)
    \/ Deliver(q)
    \/ \E i \in 1..Len(inFlight[q]) : Drop(q, i)

Spec == Init /\ [][Next]_flowVars
=============================================================================
