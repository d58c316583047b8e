-------------------------- MODULE MCOperatorWrites --------------------------
(***************************************************************************)
(* An instance of OperatorWrites for TLC.                                  *)
(***************************************************************************)
EXTENDS OperatorWrites, TLC

CONSTANTS udp, tcp, u, v, s1, s2

\* v is heard over UDP and over TCP, u over UDP only.
SharedUid == [k \in Carriers |-> IF k = udp THEN {u, v} ELSE {v}]

\* Two spellings of vehicle 1, a target without a vehicle, one out of range,
\* and a blank verb.
SomeRequests ==
    { [target |-> "uav-001", sys |-> 1, verb |-> "hold"],
      [target |-> "uav-1", sys |-> 1, verb |-> "hold"],
      [target |-> "ugv-1", sys |-> 0, verb |-> "hold"],
      [target |-> "uav-256", sys |-> 256, verb |-> "hold"],
      [target |-> "uav-001", sys |-> 1, verb |-> None] }

\* A vehicle seen, one not seen yet, one without a token, and alerts: active, cleared, and one
\* about a vehicle that is not in the snapshot.
SomeFleet ==
    { [uid |-> "uav-001", id |-> 1, seen |-> TRUE],
      [uid |-> "uav-002", id |-> 2, seen |-> FALSE],
      [uid |-> None, id |-> 4, seen |-> TRUE] }
SomeAlerts ==
    { [uid |-> "semlink-alert-1", subject |-> 1, active |-> TRUE],
      [uid |-> "semlink-alert-2", subject |-> 2, active |-> FALSE],
      [uid |-> "semlink-alert-3", subject |-> 3, active |-> TRUE] }
\* Requests are alike.
Alike == Permutations({s1, s2})
=============================================================================
