----------------------------- MODULE GraphView -----------------------------
(***************************************************************************)
(* One GET /api/graph of the GCS (internal/gcs/graph_view.go) over a CS    *)
(* API server that goes on changing.                                       *)
(*                                                                         *)
(* The handler takes one snapshot of the store, queries the graph for the  *)
(* SemLink lens and then puts the CS API lens together from a chain of     *)
(* GETs: the item it wants by the id it should have, then, where that      *)
(* fails, by a search of the whole collection. Every GET sees the server   *)
(* as it is then, and any may fail (error, status, 2 s timeout). Requests  *)
(* share nothing but what they read, so one at a time is all there is.     *)
(***************************************************************************)
EXTENDS CsapiServer, Sequences, FiniteSetsExt, SequencesExt

CONSTANTS
    Alike,      \* <<x, resource>>: the resource's name or id matches x's
    GraphFacts, \* triples shown of a vehicle (8)
    LensFacts,  \* facts a lens takes before it stops (10)
    MaxFacts,   \* facts of a lens (12)
    MaxLater,   \* bound on the resources that appear during one request
    MaxServer,  \* bound on the resources of the server
    None

Targets == Tracks \cup Markers \cup Messages

ASSUME ViewAssumption ==
    /\ Alike \subseteq Targets \X Resources
    /\ {GraphFacts, LensFacts, MaxFacts, MaxLater, MaxServer} \subseteq Nat
    /\ GraphFacts <= MaxFacts /\ LensFacts + 2 <= MaxFacts /\ 6 <= MaxFacts
    /\ None \notin Resources

\* A vehicle has a few metrics, and a store keeps finitely many items.
ASSUME StoreAssumption ==
    /\ Metrics # {} /\ IsFiniteSet(Metrics) /\ IsFiniteSet(Alerts \cup Commands)

VARIABLES
    endpoint,   \* the configured CS API URL: "none", "invalid" or "valid"
    view,       \* the request under way, or None
    later       \* resources that appeared since it began

vars == <<server, endpoint, view, later>>

-----------------------------------------------------------------------------
(* Collections and what the lens selects of them.                          *)

Collection(kind) == { p \in server : p[1] = kind }

AppendUnique(items, p) ==
    IF p \in ToSet(items) THEN items ELSE Append(items, p)

AppendAll(items, set) == items \o SetToSeq(set \ ToSet(items))

\* The resource a view of x starts from: its system, or its feature.
Root(x) ==
    IF x \in Markers THEN Feature(x)
    ELSE System(IF x \in Messages THEN Sender[x] ELSE x)

\* The first GETs of streams: by the ids the bridge gives them.
StreamsById(x) == AppendAll(<<>>, { Datastream(s) : s \in StreamsOf(x) })

OfSystem(items, system) == { p \in items : system \in Parents(p) }

\* Fault: the events of every system.
EventsOf_Any(system) == Collection("event")

EventsOf(system) == OfSystem(Collection("event"), system)

\* Commands in the collection that one of the control streams takes.
CommandsFor(controls) ==
    { p \in Collection("command") : Parents(p) \cap ToSet(controls) # {} }

\* An operator's streams: its system's, else any operator's position.
OperatorStreams(system) ==
    LET own == OfSystem(Collection("datastream"), system)
    IN  IF own # {} THEN own
        ELSE { p \in Collection("datastream") : p[2][2] = "position" }

\* The events a message may be: its own or one whose payload contains its
\* entity id, else the GeoChats of its sender.
MessageEvents(m, system) ==
    LET named == { p \in Collection("event") : p = Event(m) \/ <<m, p>> \in Alike }
    IN  IF named # {} \/ system = None THEN named
        ELSE { p \in EventsOf(system) : p[2] \in Messages }

\* What a search of the systems or the features may find: x's own by its id
\* or uid, else one with a matching name or id, else nothing.
Matches(x) ==
    LET alike == { p \in Collection(Root(x)[1]) : <<x, p>> \in Alike }
    IN  IF Root(x) \in server THEN {Root(x)}
        ELSE IF alike # {} THEN alike ELSE {None}

-----------------------------------------------------------------------------
(* The request: view is a record of the lens so far.                       *)

AtPhase(ph) == view # None /\ view.phase = ph

\* A GET of one item: it may fail although the item is there.
Answers(p) == IF p \in server THEN BOOLEAN ELSE {FALSE}

Failed(ok, there) == view.missed \/ (there /\ ~ok)

AfterRoot == IF view.target \in Markers THEN "done" ELSE "stream"

AfterHistories == IF view.target \in Vehicles THEN "event list" ELSE "done"

\* Fault: a vehicle without streams ends the lens.
AfterStreams_Ends(streams) == IF streams = <<>> THEN "done" ELSE "history"

AfterStreams(streams) == IF streams = <<>> THEN AfterHistories ELSE "history"

\* Fault: the limit is looked at before each kind of fact, not each fact.
Fill_PerKind(facts, n, limit) == IF facts >= limit THEN facts ELSE facts + n

\* Fills a list of facts up to a limit.
Fill(facts, n, limit) == IF facts >= limit THEN facts ELSE Min({facts + n, limit})

\* What the store or the graph may know of x.
AlertsAndCommands(x) == { y \in Alerts \cup Commands : Subject[y] = x }

\* The facts of the SemLink lens: of the n triples the graph has, if it
\* answers, else a few of the snapshot; what the snapshot lists about a
\* vehicle fills up the rest.
VehicleFacts(n, listed) ==
    LET own == Min({n, GraphFacts})
    IN  Fill(IF own = 0 THEN 3 ELSE own, Cardinality(listed), MaxFacts)

COPFacts(n) == IF n = 0 THEN 6 ELSE Min({n, MaxFacts})

SemLinkFacts(x, n, listed) ==
    IF x \in Vehicles THEN VehicleFacts(n, listed) ELSE COPFacts(n)

\* BuildGraphView: a snapshot of the store has the entity and some commands
\* about it; no CS API URL, or one that does not parse, ends the lens at once.
Begin(x) ==
    /\ view = None
    /\ \E listed \in SUBSET (AlertsAndCommands(x) \cap Commands) :
          view' = [ target   |-> x,
                    phase    |-> IF endpoint = "valid" THEN "root" ELSE "done",
                    status   |-> CASE endpoint = "none"    -> "disabled"
                                   [] endpoint = "invalid" -> "unavailable"
                                   [] OTHER                -> "live",
                    listed   |-> listed,
                    root     |-> None,
                    streams  |-> <<>>, histories |-> {}, events |-> <<>>,
                    controls |-> <<>>, commands  |-> <<>>,
                    todo     |-> <<>>,
                    missed   |-> FALSE,
                    before   |-> server ]
    /\ later' = 0
    /\ UNCHANGED <<server, endpoint>>

\* The system, or the feature, by its id.
FetchRoot ==
    /\ AtPhase("root")
    /\ \E ok \in Answers(Root(view.target)) :
          view' = [view EXCEPT
              !.root   = IF ok THEN Root(view.target) ELSE None,
              !.todo   = IF view.target \in Tracks THEN StreamsById(view.target) ELSE <<>>,
              !.missed = Failed(ok, Root(view.target) \in server),
              !.phase  = IF view.target \in Messages THEN "event"
                         ELSE IF ok THEN AfterRoot ELSE "root list"]
    /\ UNCHANGED <<server, endpoint, later>>

\* Fault: an error is taken for an empty collection.
ListRoots_ErrorIsEmpty ==
    /\ AtPhase("root list")
    /\ \E found \in Matches(view.target) \cup {None} :
          view' = [view EXCEPT
              !.root   = found,
              !.status = IF found = None THEN "pending" ELSE "live",
              !.phase  = IF found = None THEN "done" ELSE AfterRoot]
    /\ UNCHANGED <<server, endpoint, later>>

\* Fault: an error starts the search over.
ListRoots_Retries ==
    /\ AtPhase("root list")
    /\ \/ view' = [view EXCEPT !.phase = "root", !.missed = TRUE]
       \/ \E found \in Matches(view.target) :
             view' = [view EXCEPT
                 !.root   = found,
                 !.status = IF found = None THEN "pending" ELSE "live",
                 !.phase  = IF found = None THEN "done" ELSE AfterRoot]
    /\ UNCHANGED <<server, endpoint, later>>

\* The search: an error ends the lens, nothing found leaves it pending.
ListRoots ==
    /\ AtPhase("root list")
    /\ \/ view' = [view EXCEPT !.status = "unavailable", !.phase = "done", !.missed = TRUE]
       \/ \E found \in Matches(view.target) :
             view' = [view EXCEPT
                 !.root   = found,
                 !.status = IF found = None THEN "pending" ELSE "live",
                 !.phase  = IF found = None THEN "done" ELSE AfterRoot]
    /\ UNCHANGED <<server, endpoint, later>>

(* Vehicles and operators: datastreams and their histories.                *)

\* A vehicle's streams one by one by id; an operator's one stream, which, if
\* found, is all it shows.
FetchStream ==
    /\ AtPhase("stream")
    /\ LET p == Head(view.todo) IN \E ok \in Answers(p) :
          LET found == IF ok THEN AppendUnique(view.streams, p) ELSE view.streams
              only  == ok /\ view.target \in Operators
          IN  view' = [view EXCEPT
                  !.streams = found,
                  !.missed  = Failed(ok, p \in server),
                  !.todo    = IF only THEN found ELSE Tail(@),
                  !.phase   = IF only THEN "history"
                              ELSE IF Tail(view.todo) = <<>> THEN "stream list" ELSE @]
    /\ UNCHANGED <<server, endpoint, later>>

ListStreams ==
    /\ AtPhase("stream list")
    /\ \E ok \in BOOLEAN :
          LET listed == IF ~ok THEN {}
                        ELSE IF view.target \in Operators THEN OperatorStreams(view.root)
                        ELSE OfSystem(Collection("datastream"), view.root)
              found  == AppendAll(view.streams, listed)
          IN  view' = [view EXCEPT
                  !.streams = found,
                  !.todo    = found,
                  !.missed  = Failed(ok, TRUE),
                  !.phase   = AfterStreams(found)]
    /\ UNCHANGED <<server, endpoint, later>>

\* The number of observations of one stream; a stream whose count cannot be
\* had has no history.
FetchHistory ==
    /\ AtPhase("history")
    /\ LET p == Head(view.todo) IN \E ok \in Answers(p) :
          view' = [view EXCEPT
              !.histories = IF ok THEN @ \cup {p} ELSE @,
              !.missed    = Failed(ok, TRUE),
              !.todo      = Tail(@),
              !.phase     = IF Tail(view.todo) = <<>> THEN AfterHistories ELSE @]
    /\ UNCHANGED <<server, endpoint, later>>

(* Vehicles: events, control streams and commands.                         *)

ListEvents ==
    /\ AtPhase("event list") /\ view.target \in Vehicles
    /\ \E ok \in BOOLEAN :
          view' = [view EXCEPT
              !.events = IF ok THEN AppendAll(<<>>, EventsOf(view.root)) ELSE <<>>,
              !.missed = Failed(ok, TRUE),
              !.phase  = "control list"]
    /\ UNCHANGED <<server, endpoint, later>>

ListControls ==
    /\ AtPhase("control list")
    /\ \E ok \in BOOLEAN :
          view' = [view EXCEPT
              !.controls = IF ok THEN AppendAll(<<>>,
                              OfSystem(Collection("controlstream"), view.root)) ELSE <<>>,
              !.missed   = Failed(ok, TRUE),
              !.phase    = "command list"]
    /\ UNCHANGED <<server, endpoint, later>>

ListCommands ==
    /\ AtPhase("command list")
    /\ \E ok \in BOOLEAN :
          view' = [view EXCEPT
              !.commands = IF ok THEN AppendAll(<<>>, CommandsFor(view.controls)) ELSE <<>>,
              !.missed   = Failed(ok, TRUE),
              !.todo     = AppendAll(<<>>, { CommandOf(c) : c \in view.listed }),
              !.phase    = IF view.listed = {} THEN "done" ELSE "command"]
    /\ UNCHANGED <<server, endpoint, later>>

\* Each command of the snapshot by its id, whether its control stream is
\* shown or not.
FetchCommand ==
    /\ AtPhase("command")
    /\ LET p == Head(view.todo) IN \E ok \in Answers(p) :
          view' = [view EXCEPT
              !.commands = IF ok THEN AppendUnique(@, p) ELSE @,
              !.missed   = Failed(ok, p \in server),
              !.todo     = Tail(@),
              !.phase    = IF Tail(view.todo) = <<>> THEN "done" ELSE @]
    /\ UNCHANGED <<server, endpoint, later>>

(* Messages: the event, then the system that sent it.                      *)

SystemOf(event) == CHOOSE p \in Parents(event) : TRUE

AfterEvents(events) ==
    IF events = <<>> \/ view.root # None THEN "done" ELSE "sender"

FetchEvent ==
    /\ AtPhase("event")
    /\ LET p == Event(view.target) IN \E ok \in Answers(p) :
          LET found == IF ok THEN <<p>> ELSE <<>>
          IN  view' = [view EXCEPT
                  !.events = found,
                  !.missed = Failed(ok, p \in server),
                  !.phase  = IF ok THEN AfterEvents(found) ELSE "event list"]
    /\ UNCHANGED <<server, endpoint, later>>

\* No event found, or no answer: the lens is left pending.
SearchEvents ==
    /\ AtPhase("event list") /\ view.target \in Messages
    /\ \E ok \in BOOLEAN :
          LET found == IF ok THEN AppendAll(<<>>, MessageEvents(view.target, view.root))
                       ELSE <<>>
          IN  view' = [view EXCEPT
                  !.events = found,
                  !.status = IF found = <<>> THEN "pending" ELSE @,
                  !.missed = Failed(ok, TRUE),
                  !.phase  = AfterEvents(found)]
    /\ UNCHANGED <<server, endpoint, later>>

\* The system the first event names.
FetchSender ==
    /\ AtPhase("sender")
    /\ LET p == SystemOf(Head(view.events)) IN \E ok \in Answers(p) :
          view' = [view EXCEPT
              !.root   = IF ok THEN p ELSE None,
              !.missed = Failed(ok, p \in server),
              !.phase  = IF ok THEN "done" ELSE "sender list"]
    /\ UNCHANGED <<server, endpoint, later>>

\* A search of the systems by uid and name, then by the id the event names.
SearchSender ==
    /\ AtPhase("sender list")
    /\ \/ view' = [view EXCEPT !.status = "unavailable", !.phase = "done", !.missed = TRUE]
       \/ \E found \in Matches(view.target) :
             LET named == SystemOf(Head(view.events))
             IN  view' = [view EXCEPT
                    !.root  = IF found # None THEN found
                              ELSE IF named \in server THEN named ELSE None,
                    !.phase = "done"]
    /\ UNCHANGED <<server, endpoint, later>>

Reply ==
    /\ AtPhase("done")
    /\ view' = None
    /\ later' = 0
    /\ UNCHANGED <<server, endpoint>>

\* The server gets another resource, possibly while a request is under way.
Appear(p) ==
    /\ p \notin server /\ Cardinality(server) < MaxServer /\ Materialize(p)
    /\ IF view = None THEN later' = later
       ELSE view.phase # "done" /\ later < MaxLater /\ later' = later + 1
    /\ UNCHANGED <<endpoint, view>>

-----------------------------------------------------------------------------
(* The lens that is shown.                                                 *)

History(p) == <<"history", p, 0>>

\* Fault: commands are shown whether or not their control stream is.
ShownCommands_All == ToSet(view.commands)

ShownCommands ==
    { p \in ToSet(view.commands) : Parents(p) \cap ToSet(view.controls) # {} }

Nodes ==
    IF view.status # "live" THEN {}
    ELSE ({view.root} \ {None})
         \cup ToSet(view.streams) \cup { History(p) : p \in view.histories }
         \cup ToSet(view.events) \cup ToSet(view.controls) \cup ShownCommands

Edges ==
    IF view.status # "live" THEN {}
    ELSE ({view.root} \X (ToSet(view.streams) \cup ToSet(view.controls)))
         \cup { <<IF view.root = None THEN SystemOf(p) ELSE view.root, p>> :
                    p \in ToSet(view.events) }
         \cup { <<p, History(p)>> : p \in view.histories }
         \cup { <<ControlStream(Subject[p[2]]), p>> : p \in ShownCommands }

\* The facts of the CS API lens; each event of a message adds three.
CsapiFacts ==
    LET streams   == Fill(IF view.target \in Vehicles THEN 1 ELSE 2,
                          Len(view.streams), LensFacts)
        histories == Fill(streams, Cardinality(view.histories), MaxFacts)
        events    == Fill(histories, Len(view.events), LensFacts)
        chats     == { n \in 1..Len(view.events) : 3 * n - 2 < LensFacts }
    IN  CASE view.target \in Vehicles  -> Fill(events, Cardinality(ShownCommands), LensFacts)
          [] view.target \in Operators -> streams
          [] view.target \in Markers   -> 3
          [] OTHER                     -> 1 + 3 * Cardinality(chats)

-----------------------------------------------------------------------------
Init ==
    /\ ServerInit
    /\ endpoint \in {"none", "invalid", "valid"}
    /\ view = None
    /\ later = 0

Handle ==
    \/ FetchRoot \/ ListRoots
    \/ FetchStream \/ ListStreams \/ FetchHistory
    \/ ListEvents \/ ListControls \/ ListCommands \/ FetchCommand
    \/ FetchEvent \/ SearchEvents \/ FetchSender \/ SearchSender
    \/ Reply

Next ==
    \/ \E x \in Targets : Begin(x)
    \/ Handle
    \/ \E p \in Resources : Appear(p)

Spec == Init /\ [][Next]_vars

\* Every GET ends within the client's timeout and the handler goes on.
FairSpec == Spec /\ WF_vars(Handle)

-----------------------------------------------------------------------------
TypeOK ==
    /\ server \subseteq Resources
    /\ endpoint \in {"none", "invalid", "valid"}
    /\ later \in 0..MaxLater
    /\ view # None =>
        /\ view.target \in Targets
        /\ view.status \in {"disabled", "unavailable", "pending", "live"}
        /\ view.root \in Resources \cup {None}
        /\ \A items \in {view.streams, view.events, view.controls, view.commands} :
               items \in Seq(Resources)
        /\ CsapiFacts <= MaxFacts
        /\ \A n \in 0..MaxFacts + 1, listed \in SUBSET AlertsAndCommands(view.target) :
               SemLinkFacts(view.target, n, listed) <= MaxFacts

\* What the lens of x is about.
About(x) ==
    LET own == {Root(x)} \cup (IF x \in Messages THEN {Event(x)} ELSE {})
    IN  IF x \notin Tracks THEN own
        ELSE own \cup { p \in Resources :
                  \/ p[1] \in {"datastream", "controlstream", "event"} /\ Root(x) \in Parents(p)
                         /\ (x \in Operators => p[1] = "datastream")
                  \/ p[1] = "command" /\ x = Subject[p[2]] }

\* What must be there for x to be shown as materialized: for a message its
\* event, for an operator also its stream.
OwnResource(x) ==
    IF x \in Messages THEN {Event(x)}
    ELSE {Root(x)} \cup (IF x \in Operators THEN { Datastream(s) : s \in StreamsOf(x) } ELSE {})

\* The events whose payload names a message.
NamedBy(m) == { p \in Resources : p[1] = "event" /\ m \in Messages /\ <<m, p>> \in Alike }

\* However the GETs fail and whatever appears meanwhile, no edge of the lens
\* hangs in the air: a command is drawn only with its control stream, an
\* event whose system was not found by its id gets one from a search.
EdgesJoinNodes ==
    AtPhase("done") => \A e \in Edges : e[1] \in Nodes /\ e[2] \in Nodes

\* When no GET failed, a live lens shows all that was on the server about the
\* entity when the request began, though it is read in a dozen steps.
CompleteUnlessMissed ==
    AtPhase("done") /\ view.status = "live" /\ ~view.missed
        => About(view.target) \cap view.before \subseteq Nodes

\* "Not materialized yet" is never said of what was there, except of a
\* message when the search for its event failed too.
PendingMeansAbsent ==
    AtPhase("done") /\ view.status = "pending"
        => IF view.target \in Messages
               THEN Event(view.target) \in view.before => view.missed
               ELSE Root(view.target) \notin view.before

\* Once the bridge has published the entity, its lens never falls back to
\* the resources of another one, whichever GETs fail, but for an event whose
\* payload names it and the system that sent that event.
OwnOnceMaterialized ==
    AtPhase("done") /\ OwnResource(view.target) \subseteq view.before
        => \A p \in Nodes :
               \/ p \in About(view.target)
               \/ p[1] = "history" /\ p[2] \in About(view.target)
               \/ \E e \in NamedBy(view.target) : p = e \/ p \in Parents(e)

\* Every request is answered, however many of its GETs fail.
Answered == view # None ~> view = None
=============================================================================
