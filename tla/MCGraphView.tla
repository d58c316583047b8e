---------------------------- MODULE MCGraphView ----------------------------
(***************************************************************************)
(* An instance of GraphView for TLC.                                       *)
(***************************************************************************)
EXTENDS GraphView

CONSTANTS o1, o2, m1, m2, m3

\* Alerts and commands are about vehicle 1.
AboutOne == [x \in Alerts \cup Commands |-> 1]

\* Two messages come from one operator, the third from the other.
Senders == m1 :> o1 @@ m3 :> o1 @@ m2 :> o2

\* Both operators have the same callsign; the payload of message m1 contains
\* the id of message m2.
LooksLike == (Operators \X { System(x) : x \in Operators }) \cup {<<m2, Event(m1)>>}

=============================================================================
