--------------------------- MODULE CsapiResources ---------------------------
(***************************************************************************)
(* The CS API resources that describe vehicles, operators, alerts,         *)
(* commands, markers and messages: what internal/csapi/bridge.go publishes *)
(* and internal/gcs/graph_view.go reads back.                              *)
(***************************************************************************)
EXTENDS Integers, FiniteSets

CONSTANTS
    Vehicles,    \* system ids
    Metrics,     \* keys of telemetryMetrics
    Operators,   \* TAK operators
    Alerts, Commands, Markers, Messages,
    Subject,     \* the vehicle an alert or a command is about
    Sender,      \* the operator a message names, or the message itself
    MaxTime      \* bound on the times of observations

ASSUME ResourcesAssumption ==
    /\ Vehicles \subseteq Nat /\ MaxTime \in Nat
    /\ Subject \in [Alerts \cup Commands -> Vehicles]
    /\ Sender \in [Messages -> Operators \cup Messages]

\* Items of different kinds are different things.
ASSUME KindsAssumption ==
    /\ Vehicles \cap (Operators \cup Alerts \cup Commands \cup Markers \cup Messages) = {}
    /\ Operators \cap (Alerts \cup Commands \cup Markers \cup Messages) = {}
    /\ Alerts \cap (Commands \cup Markers \cup Messages) = {}
    /\ Commands \cap (Markers \cup Messages) = {}
    /\ Markers \cap Messages = {}

Tracks == Vehicles \cup Operators
Facts == Alerts \cup Markers \cup Messages
StreamsOf(x) == {x} \X (IF x \in Vehicles THEN Metrics ELSE {"position"})
Streams == UNION { StreamsOf(x) : x \in Tracks }

-----------------------------------------------------------------------------
(* Resources: <<kind, what it describes, time (observations only)>>.       *)

System(x)         == <<"system", x, 0>>
Datastream(s)     == <<"datastream", s, 0>>
Observation(s, t) == <<"observation", s, t>>
ControlStream(v)  == <<"controlstream", v, 0>>
CommandOf(c)      == <<"command", c, 0>>
Event(x)          == <<"event", x, 0>>
Feature(k)        == <<"feature", k, 0>>

\* The resource that publishes a fact.
Published(x) == IF x \in Markers THEN Feature(x) ELSE Event(x)

\* The resources a POST names in its path or its body.
Parents(p) ==
    CASE p[1] = "datastream"    -> {System(p[2][1])}
      [] p[1] = "observation"   -> {Datastream(p[2])}
      [] p[1] = "controlstream" -> {System(p[2])}
      [] p[1] = "command"       -> {ControlStream(Subject[p[2]])}
      [] p[1] = "event"         ->
            {System(IF p[2] \in Alerts THEN Subject[p[2]] ELSE Sender[p[2]])}
      [] OTHER                  -> {}

Resources ==
    { System(x) : x \in Tracks \cup Messages }
    \cup { Datastream(s) : s \in Streams }
    \cup { Observation(s, t) : s \in Streams, t \in 1..MaxTime }
    \cup { ControlStream(v) : v \in Vehicles }
    \cup { CommandOf(c) : c \in Commands }
    \cup { Event(x) : x \in Alerts \cup Messages }
    \cup { Feature(k) : k \in Markers }
=============================================================================
