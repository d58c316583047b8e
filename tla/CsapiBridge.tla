---------------------------- MODULE CsapiBridge ----------------------------
(***************************************************************************)
(* The SemConnect / CS API bridge (internal/csapi/bridge.go) over the GCS   *)
(* store (internal/gcs/store.go) it publishes.                             *)
(*                                                                         *)
(* A Sync takes one snapshot of the store and walks it item by item:       *)
(* vehicles, alerts, commands, operators, markers, messages. Every item    *)
(* needs a few resources on the CS API server, parents first; a resource   *)
(* is posted unless the bridge remembers that it was, and the first POST   *)
(* that fails ends the Sync. A POST whose reply is lost may still reach    *)
(* the server, then or later. The process may crash: the store and the     *)
(* bridge's memory are gone, the server's resources are not.               *)
(*                                                                         *)
(* The server is external: it answers 201 or 409 with the resource's id,   *)
(* and both count as success in decodePostResult.                          *)
(***************************************************************************)
EXTENDS CsapiResources, Sequences, SequencesExt

CONSTANTS
    Interval,    \* ObservationInterval
    MaxCommands, \* the store keeps this many commands (20)
    MaxFaults,   \* bound on failed POSTs and on crashes
    None

ASSUME ConstantsAssumption ==
    /\ Interval \in Nat /\ MaxFaults \in Nat /\ MaxCommands \in Nat \ {0}

VARIABLES
    seen,             \* store: LastSeen of a vehicle or an operator, 0: not there
    known,            \* store: alerts, markers and messages
    commands,         \* store: commands, newest first
    submitted,        \* commands submitted so far (ids are not reused)
    view,             \* the snapshot of the Sync under way, or None
    posted,           \* bridge: resources it remembers the server has
    lastObservations, \* bridge: time of a stream's last observation, 0: none
    server,           \* CS API server: its resources
    late,             \* POSTs given up by the bridge that may still arrive
    faults

store == <<seen, known, commands, submitted>>
bridge == <<posted, lastObservations>>
vars == <<store, view, bridge, server, late, faults>>

Readable == INSTANCE CsapiServer

\* Fault: an observation need not wait for its datastream.
Stage_Unordered(p) == IF p[1] = "system" THEN 1 ELSE 2

\* The order of the POSTs of one item.
Stage(p) ==
    CASE p[1] = "system" -> 1
      [] p[1] \in {"datastream", "controlstream"} -> 2
      [] OTHER -> 3

-----------------------------------------------------------------------------
(* What a Sync posts.                                                      *)

\* What a vehicle or an operator of the snapshot needs: its system, its
\* datastreams and its current reading in each.
TrackNeeds(x) ==
    {System(x)} \cup { Datastream(s) : s \in StreamsOf(x) }
    \cup { Observation(s, view.seen[x]) : s \in StreamsOf(x) }

AlertNeeds(a) == {System(Subject[a]), Event(a)}

CommandNeeds(c) == {System(Subject[c]), ControlStream(Subject[c]), CommandOf(c)}

\* A sender that is no operator of the store gets a system all the same.
MessageNeeds(m) == {System(Sender[m]), Event(m)}

ItemNeeds(x) ==
    IF x \in Tracks THEN TrackNeeds(x)
    ELSE IF x \in Alerts THEN AlertNeeds(x)
    ELSE IF x \in Commands THEN CommandNeeds(x)
    ELSE IF x \in Markers THEN {Feature(x)}
    ELSE MessageNeeds(x)

\* Vehicles and operators in the snapshot, facts, and commands; an alert or
\* a command is left out while its vehicle is not in the snapshot.
Items ==
    { x \in Tracks : view.seen[x] # 0 }
    \cup { x \in view.known : x \in Alerts => view.seen[Subject[x]] # 0 }
    \cup { x \in ToSet(view.commands) : view.seen[Subject[x]] # 0 }

\* Fault: commands are remembered by their vehicle.
Due_PerVehicle(p) ==
    CASE p[1] = "observation" ->
            \/ lastObservations[p[2]] = 0
            \/ p[3] > lastObservations[p[2]] + Interval
      [] p[1] = "command" ->
            \A q \in posted : q[1] = "command" => Subject[q[2]] # Subject[p[2]]
      [] OTHER -> p \notin posted

\* Fault: an interval one too long.
Due_TooRare(p) ==
    IF p[1] = "observation"
        THEN \/ lastObservations[p[2]] = 0
             \/ p[3] > lastObservations[p[2]] + Interval + 1
        ELSE p \notin posted

Due(p) ==
    IF p[1] = "observation"
        THEN \/ lastObservations[p[2]] = 0
             \/ p[3] > lastObservations[p[2]] + Interval
        ELSE p \notin posted

\* The item loops of Sync, in their order.
Loop(x) ==
    CASE x \in Vehicles  -> 1
      [] x \in Alerts    -> 2
      [] x \in Commands  -> 3
      [] x \in Operators -> 4
      [] x \in Markers   -> 5
      [] OTHER           -> 6

\* Within a loop: vehicles by system id, commands newest first; the others
\* are sorted by fields left out here, so in any order.
Earlier(x, y) ==
    \/ Loop(x) < Loop(y)
    \/ x \in Vehicles /\ y \in Vehicles /\ x < y
    \/ /\ x \in Commands /\ y \in Commands
       /\ \E i, j \in 1..Len(view.commands) :
              i < j /\ view.commands[i] = x /\ view.commands[j] = y

\* The POST with which an item goes on: parents come first.
ItemNext(x) ==
    { p \in ItemNeeds(x) :
        /\ Due(p)
        /\ \A q \in ItemNeeds(x) : Due(q) => Stage(p) <= Stage(q) }

\* The POST the Sync makes next, if any is left.
NextPosts ==
    IF view = None THEN {}
    ELSE UNION { ItemNext(x) : x \in
        { y \in Items : \A z \in Items : Earlier(z, y) => ItemNext(z) = {} } }

-----------------------------------------------------------------------------
Init ==
    /\ seen = [x \in Tracks |-> 0]
    /\ known = {}
    /\ commands = <<>>
    /\ submitted = {}
    /\ view = None
    /\ posted = {}
    /\ lastObservations = [s \in Streams |-> 0]
    /\ server = {}
    /\ late = {}
    /\ faults = 0

(* The store. Times need not grow: an operator's is its own clock's, and a  *)
(* late projector snapshot puts an older vehicle state back.               *)

Report(x) ==
    /\ \E t \in 1..MaxTime : seen' = [seen EXCEPT ![x] = t]
    /\ UNCHANGED <<known, commands, submitted, view, bridge, server, late, faults>>

Appear(f) ==
    /\ f \in Facts \ known
    /\ f \in Alerts => seen[Subject[f]] # 0
    /\ known' = known \cup {f}
    /\ UNCHANGED <<seen, commands, submitted, view, bridge, server, late, faults>>

\* Fault: the list is cut one command too late.
AddCommand_OneTooMany(c) ==
    /\ c \notin submitted
    /\ submitted' = submitted \cup {c}
    /\ commands' = IF Len(commands) < MaxCommands + 1 THEN <<c>> \o commands
                   ELSE SubSeq(<<c>> \o commands, 1, MaxCommands + 1)
    /\ UNCHANGED <<seen, known, view, bridge, server, late, faults>>

AddCommand(c) ==
    /\ c \notin submitted
    /\ submitted' = submitted \cup {c}
    /\ commands' = IF Len(commands) < MaxCommands THEN <<c>> \o commands
                   ELSE SubSeq(<<c>> \o commands, 1, MaxCommands)
    /\ UNCHANGED <<seen, known, view, bridge, server, late, faults>>

(* The bridge.                                                             *)

\* The ticker fires: Sync starts from one consistent snapshot.
StartSync ==
    /\ view = None
    /\ view' = [seen |-> seen, known |-> known, commands |-> commands]
    /\ UNCHANGED <<store, bridge, server, late, faults>>

\* The server answers 201, or 409 for what it already has; both make the
\* bridge remember the resource.
Post(p) ==
    /\ server' = server \cup {p}
    /\ IF p[1] = "observation"
           THEN /\ lastObservations' = [lastObservations EXCEPT ![p[2]] = p[3]]
                /\ posted' = posted
           ELSE /\ posted' = posted \cup {p}
                /\ lastObservations' = lastObservations
    /\ UNCHANGED <<store, view, late, faults>>

\* Fault: the resource is remembered before its POST is answered.
PostFails_Remembers(p) ==
    /\ faults < MaxFaults
    /\ view' = None
    /\ faults' = faults + 1
    /\ late' \in {late, late \cup {p}}
    /\ posted' = IF p[1] = "observation" THEN posted ELSE posted \cup {p}
    /\ UNCHANGED <<store, lastObservations, server>>

\* An error, an unexpected status or a timeout: Sync returns. The request
\* may still reach the server.
PostFails(p) ==
    /\ faults < MaxFaults
    /\ view' = None
    /\ faults' = faults + 1
    /\ late' \in {late, late \cup {p}}
    /\ UNCHANGED <<store, bridge, server>>

EndSync ==
    /\ view # None
    /\ NextPosts = {}
    /\ view' = None
    /\ UNCHANGED <<store, bridge, server, late, faults>>

(* The network and the process.                                            *)

Arrive(p) ==
    /\ late' = late \ {p}
    /\ server' = server \cup {p}
    /\ UNCHANGED <<store, view, bridge, faults>>

Crash ==
    /\ faults < MaxFaults
    /\ faults' = faults + 1
    /\ seen' = [x \in Tracks |-> 0]
    /\ known' = {}
    /\ commands' = <<>>
    /\ view' = None
    /\ posted' = {}
    /\ lastObservations' = [s \in Streams |-> 0]
    /\ UNCHANGED <<submitted, server, late>>

StoreStep ==
    \/ \E x \in Tracks : Report(x)
    \/ \E f \in Facts : Appear(f)
    \/ \E c \in Commands : AddCommand(c)

SyncStep ==
    \/ StartSync
    \/ \E p \in NextPosts : Post(p)
    \/ EndSync

Next ==
    \/ StoreStep
    \/ SyncStep
    \/ \E p \in NextPosts : PostFails(p)
    \/ \E p \in late : Arrive(p)
    \/ Crash

Spec == Init /\ [][Next]_vars

\* The ticker keeps firing and every POST ends within RequestTimeout.
FairSpec == Spec /\ WF_vars(SyncStep)

-----------------------------------------------------------------------------
TypeOK ==
    /\ seen \in [Tracks -> 0..MaxTime]
    /\ known \subseteq Facts
    /\ commands \in Seq(Commands) /\ Len(commands) <= MaxCommands
    /\ submitted \subseteq Commands
    /\ \/ view = None
       \/ view \in [seen : [Tracks -> 0..MaxTime], known : SUBSET Facts,
                    commands : Seq(Commands)]
    /\ posted \subseteq Resources
    /\ lastObservations \in [Streams -> 0..MaxTime]
    /\ server \subseteq Resources /\ late \subseteq Resources
    /\ faults \in 0..MaxFaults

\* Whatever was lost, delayed or repeated, and however often the process
\* restarted, no resource reaches the server before the resource it refers
\* to (bridge.go: the ensure calls before every POST of a child).
ParentsFirst ==
    \A p \in server : Parents(p) \subseteq server

\* Whatever fails, its readers see a server on which resources only appear,
\* one by one and parents first: the bridge implements CsapiServer.
PublishesInOrder == Readable!ServerSpec

\* What the bridge remembers is on the server, so nothing is given up for
\* published that is not.
MemoryIsTrue ==
    /\ posted \subseteq server
    /\ \A s \in Streams :
           lastObservations[s] # 0 => Observation(s, lastObservations[s]) \in server

\* An alert, a marker or a message of the store reaches the server, unless a
\* crash takes it from the store first: an aborted Sync is resumed, not
\* restarted behind the same obstacle.
FactsArrive ==
    \A f \in Facts :
        f \in known ~> Published(f) \in server \/ f \notin known

\* So does a command for a known vehicle, unless newer commands push it out
\* of the store's list before a Sync gets to it.
CommandsArriveOrAgeOut ==
    \A c \in Commands :
        c \in ToSet(commands) /\ seen[Subject[c]] # 0
            ~> CommandOf(c) \in server \/ c \notin ToSet(commands)

\* A vehicle or an operator that stops reporting leaves the server with an
\* observation no more than Interval behind its last report.
ReadingsCatchUp ==
    \A x \in Tracks : \A t \in 1..MaxTime : \A s \in StreamsOf(x) :
        seen[x] = t ~>
            \/ seen[x] # t
            \/ \E u \in 1..MaxTime :
                   Observation(s, u) \in server /\ u + Interval >= t

\* The observation interval is "minimum interval between CS API observations
\* per datastream" (cmd/semgcs-demo/main.go:34).
ObservationsSpaced ==
    \A s \in Streams : \A t, u \in 1..MaxTime :
        /\ t < u
        /\ Observation(s, t) \in server
        /\ Observation(s, u) \in server
        => u - t > Interval
=============================================================================
