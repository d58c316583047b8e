--------------------------- MODULE MCCsapiBridge ---------------------------
(***************************************************************************)
(* Instances of CsapiBridge for TLC.                                       *)
(***************************************************************************)
EXTENDS CsapiBridge

\* Every alert and every command is about vehicle 1.
AboutOne == [x \in Alerts \cup Commands |-> 1]

\* One message names an operator that may not be in the store; with no
\* operators, a message has a system of its own.
FromOperator ==
    [m \in Messages |-> IF Operators = {} THEN m ELSE CHOOSE o \in Operators : TRUE]
=============================================================================
