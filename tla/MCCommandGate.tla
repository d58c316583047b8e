--------------------------- MODULE MCCommandGate ---------------------------
(***************************************************************************)
(* Instances of CommandGate for TLC.                                       *)
(***************************************************************************)
EXTENDS CommandGate

\* The request of fast.go, spelled the way an operator might.
Valid ==
    [mode |-> "Simulator", profile |-> "simulator-readback-v1",
     verb |-> "Request_Autopilot_Version", entity |-> "uav", by |-> "operator",
     sender |-> TRUE, target |-> "uav", wired |-> TRUE, attempts |-> 2, sequence |-> 1,
     confirmed |-> Confirmations]

\* Requests that depart from it in one place.
Departures ==
    { [Valid EXCEPT !.mode = "HARDWARE "], [Valid EXCEPT !.mode = ""],
      [Valid EXCEPT !.profile = "unlisted"], [Valid EXCEPT !.verb = "arm"],
      [Valid EXCEPT !.entity = ""], [Valid EXCEPT !.by = ""],
      [Valid EXCEPT !.sender = FALSE], [Valid EXCEPT !.target = None],
      [Valid EXCEPT !.wired = FALSE],
      [Valid EXCEPT !.attempts = 0], [Valid EXCEPT !.attempts = 3] }
    \cup { [Valid EXCEPT !.confirmed = Confirmations \ {x}] : x \in Confirmations }

\* The same for the other vehicle of the link.
Second == [Valid EXCEPT !.target = "rover", !.attempts = 1]

SomeRequests == {Valid, Second} \cup Departures

ASSUME AttemptsFitByte
=============================================================================
