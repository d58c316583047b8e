--------------------------- MODULE OperatorWrites ---------------------------
(***************************************************************************)
(* What operators put into the system: TAK events that arrive over UDP and *)
(* over any number of TCP connections (internal/tak/bridge.go, translated  *)
(* by internal/cop and internal/cot), and commands submitted over HTTP     *)
(* (internal/gcs/commands.go). Every UDP or TCP reader and every request   *)
(* is a goroutine; all of them write to the graph and to the GCS store,    *)
(* one call at a time and with nothing held in between.                    *)
(*                                                                         *)
(* The graph is external: a call of UpsertProjection writes and returns    *)
(* the revision, or fails, and what failed may still be written later      *)
(* (GraphWrites.tla). A write is an entity and the operation it comes from. *)
(***************************************************************************)
EXTENDS Naturals, Sequences, FiniteSets, SequencesExt

CONSTANTS
    Carriers,     \* inbound readers: the UDP socket and each TCP connection
    Uids,         \* UIDs of TAK events
    Carries,      \* the UIDs that arrive over a carrier
    Submitters,   \* HTTP requests under way at a time
    Requests,     \* command requests: target entity, its system id, verb
    Fleet,        \* vehicles of the store's snapshot
    Raised,       \* its alerts
    MaxCommands,  \* the store keeps this many commands (20)
    MaxTime,      \* bound: milliseconds
    MaxBegun,     \* bound: operations begun
    MaxFailures,  \* bound: graph writes that fail
    None

Goroutines == Carriers \cup Submitters

ASSUME OperatorAssumption ==
    /\ Carriers \cap Submitters = {}
    /\ IsFiniteSet(Carriers) /\ Carries \in [Carriers -> SUBSET Uids]
    /\ \A r \in Requests : r.sys \in Nat
    /\ MaxCommands \in Nat \ {0}
    /\ MaxTime \in Nat /\ MaxBegun \in Nat /\ MaxFailures \in Nat

VARIABLES
    now,       \* the clock, in milliseconds
    begun,     \* operations begun; the last one's number
    job,       \* what a goroutine is doing
    views,     \* Store.operators, markers and messages
    commands,  \* Store.commands, newest first
    counts,    \* Store.metrics: ProjectedWrites, GraphWrites, GraphErrors
    written,   \* writes the graph took, in the order of their revisions
    failed,    \* writes that failed
    late       \* those of them that may still be written

vars == <<now, begun, job, views, commands, counts, written, failed, late>>
graphVars == <<written, failed, late>>

-----------------------------------------------------------------------------
(* TAK events: a type (its prefix is what the code looks at), whether there *)
(* is a point, a chat element with a text, and remarks. A malformed event  *)
(* is one without a type: both are refused.                                *)

EventTypes == {"air", "alert", "operator", "chat", "marker", "other", "blank"}
Event(uid, type, point, remarks) ==
    [uid |-> uid, type |-> type, point |-> point, chat |-> FALSE, remarks |-> remarks]

Valid(ev) == ev.uid # None /\ ev.type # "blank"

\* On the wire a chat text is repeated as the remarks, and the remarks of a
\* chat event without a text are its text.
Marshal(ev) == [ev EXCEPT !.remarks = @ \/ ev.chat]
Unmarshal(ev) == [ev EXCEPT !.chat = @ \/ (ev.type = "chat" /\ ev.remarks)]

OperatorKind(ev) == IF ev.point THEN "operator" ELSE "refused"
MarkerKind(ev) == IF ev.point THEN "marker" ELSE "refused"
MessageKind(ev) == IF ev.chat \/ ev.remarks THEN "message" ELSE "refused"

\* Fault: only the alert type the bridge itself sends is known for an alert.
KindOf_AlertsArePoints(ev) ==
    CASE ev.type = "air" -> "ignored"
      [] ev.type = "operator" -> OperatorKind(ev)
      [] ev.type = "chat" \/ (ev.type \in {"marker", "other"} /\ ev.chat) -> MessageKind(ev)
      [] ~ev.chat /\ (ev.type = "marker" \/ (ev.type \in {"alert", "other"} /\ ev.point)) ->
            MarkerKind(ev)
      [] OTHER -> "ignored"

\* Translator.Apply: the kind of COP entity an event becomes. Vehicle tracks
\* and alerts come first, then operators, then anything with a text, then
\* anything with a point.
KindOf(ev) ==
    LET text == ev.type = "chat" \/ ev.chat
        spot == ev.type = "marker" \/ ev.point
    IN  CASE ev.type \in {"air", "alert"} -> "ignored"
          [] ev.type = "operator" -> OperatorKind(ev)
          [] ev.type \notin {"air", "alert", "operator"} /\ text -> MessageKind(ev)
          [] ev.type \notin {"air", "alert", "operator"} /\ ~text /\ spot -> MarkerKind(ev)
          [] OTHER -> "ignored"

Kinds == {"operator", "marker", "message"}
CopEntity(ev) == <<KindOf(ev), ev.uid>>
CopEntities == Kinds \X (Uids \cup {v.uid : v \in Fleet} \cup {a.uid : a \in Raised})

\* EventsFromSnapshot: a track for every vehicle that was seen, an alert for
\* every active one about a vehicle of the snapshot.
EventsFromSnapshot ==
    { Event(v.uid, "air", TRUE, FALSE) : v \in {w \in Fleet : w.seen} }
    \cup { Event(a.uid, "alert", TRUE, TRUE) :
              a \in {b \in Raised : b.active /\ \E v \in Fleet : v.id = b.subject} }

\* runOutbound: what is multicast and sent to every TCP client.
Sent == { Marshal(ev) : ev \in {e \in EventsFromSnapshot : Valid(e)} }

\* What a carrier may bring: events of its UIDs, without one, and, from a
\* multicast group or a TAK server, what the bridge itself has sent.
Inputs(k) ==
    { [uid |-> u, type |-> t, point |-> p, chat |-> c, remarks |-> r] :
          u \in Carries[k] \cup {None}, t \in EventTypes,
          p \in BOOLEAN, c \in BOOLEAN, r \in BOOLEAN }
    \cup Sent

\* The COP entities that come of it.
Heard == [k \in Carriers |->
    { CopEntity(Unmarshal(ev)) : ev \in { i \in Inputs(k) :
          Valid(i) /\ KindOf(Unmarshal(i)) \in Kinds } }]

-----------------------------------------------------------------------------
Idle == [pc |-> "idle", entity |-> None, n |-> 0, target |-> None, revision |-> 0]

Init ==
    /\ now = 0
    /\ begun = 0
    /\ job = [g \in Goroutines |-> Idle]
    /\ views = [e \in CopEntities |-> None]
    /\ commands = <<>>
    /\ counts = [projected |-> 0, writes |-> 0, errors |-> 0]
    /\ written = <<>>
    /\ failed = {}
    /\ late = {}

Tick ==
    /\ now < MaxTime
    /\ now' = now + 1
    /\ UNCHANGED <<begun, job, views, commands, counts, graphVars>>

Begin(g, entity, target) ==
    /\ job[g] = Idle
    /\ begun < MaxBegun
    /\ begun' = begun + 1
    /\ job' = [job EXCEPT ![g] = [pc |-> "writing", entity |-> entity, n |-> begun',
                                  target |-> target, revision |-> 0]]

\* ViewFromPayload: what a view shows is the operation it comes from.
ViewFromPayload(n) == [n |-> n, revision |-> 0]

\* ApplyCOPView: the new view keeps the revision of the one it replaces.
ApplyCOPView(e, view) ==
    [views EXCEPT ![e] = IF @ = None THEN view ELSE [view EXCEPT !.revision = views[e].revision]]

\* handleInbound up to its graph write: an event that decodes and becomes a
\* COP entity is in the store and counted before the graph is asked. The two
\* store calls are one step: nothing reads a view and the count together.
Receive(k, e) ==
    /\ Begin(k, e, None)
    /\ views' = ApplyCOPView(e, ViewFromPayload(begun'))
    /\ counts' = [counts EXCEPT !.projected = @ + 1]
    /\ UNCHANGED <<now, commands, graphVars>>

\* CommandEntityID: verb, system and millisecond. Targets that are spelled in
\* different ways but name the same system share ids.
CommandEntity(r, t) == <<r.verb, r.sys, t>>
CommandEntities == { CommandEntity(r, t) : r \in Requests, t \in 0..MaxTime }

\* systemIDFromEntity and normalizeCommand: the rest is refused and leaves no
\* trace.
Acceptable(r) == r.sys \in 1..255 /\ r.verb # None

\* Fault: nothing is dropped when the list is full.
Newest_All(list) == list

Newest(list) == SubSeq(list, 1, IF Len(list) < MaxCommands THEN Len(list) ELSE MaxCommands)

\* Fault: the command is listed, and then written.
Submit_ListsFirst(g, r) ==
    /\ Acceptable(r)
    /\ Begin(g, CommandEntity(r, now), r.target)
    /\ commands' = Newest(<<[entity |-> CommandEntity(r, now), n |-> begun',
                             target |-> r.target, revision |-> 0]>> \o commands)
    /\ UNCHANGED <<now, views, counts, graphVars>>

\* Submit up to its graph write, which is named after the time.
Submit(g, r) ==
    /\ Acceptable(r)
    /\ Begin(g, CommandEntity(r, now), r.target)
    /\ UNCHANGED <<now, views, commands, counts, graphVars>>

-----------------------------------------------------------------------------
(* UpsertProjection, bounded by a two-second context.                      *)

Write(g) ==
    /\ job[g].pc = "writing"
    /\ written' = Append(written, <<job[g].entity, job[g].n>>)
    /\ job' = [job EXCEPT ![g].pc = "wrote", ![g].revision = Len(written')]
    /\ UNCHANGED <<now, begun, views, commands, counts, failed, late>>

\* An inbound event is counted as an error and dropped, its view stays; the
\* submitter of a command hears of it.
WriteFails(g) ==
    /\ job[g].pc = "writing"
    /\ Cardinality(failed) < MaxFailures
    /\ failed' = failed \cup {<<job[g].entity, job[g].n>>}
    /\ late' \in {late, late \cup {<<job[g].entity, job[g].n>>}}
    /\ counts' = IF g \in Carriers THEN [counts EXCEPT !.errors = @ + 1] ELSE counts
    /\ job' = [job EXCEPT ![g] = Idle]
    /\ UNCHANGED <<now, begun, views, commands, written>>

LateWrite(w) ==
    /\ late' = late \ {w}
    /\ written' = Append(written, w)
    /\ UNCHANGED <<now, begun, job, views, commands, counts, failed>>

-----------------------------------------------------------------------------
(* What follows a write.                                                   *)

\* AddCommand, before the revision is recorded.
AddCommand(g) ==
    /\ g \in Submitters /\ job[g].pc = "wrote"
    /\ commands' = Newest(<<[entity |-> job[g].entity, n |-> job[g].n,
                             target |-> job[g].target, revision |-> job[g].revision]>>
                          \o commands)
    /\ job' = [job EXCEPT ![g].pc = "added"]
    /\ UNCHANGED <<now, begun, views, counts, graphVars>>

\* Fault: the loop over the commands ends at the first that has the id.
RevisedCommands_First(e, revision) ==
    [i \in DOMAIN commands |->
        IF commands[i].entity = e /\ \A h \in 1..(i - 1) : commands[h].entity # e
        THEN [commands[i] EXCEPT !.revision = revision] ELSE commands[i]]

RevisedCommands(e, revision) ==
    [i \in DOMAIN commands |->
        IF commands[i].entity = e THEN [commands[i] EXCEPT !.revision = revision]
        ELSE commands[i]]

\* Fault: views are found by UID.
RevisedViews_ByUid(e, revision) ==
    [x \in CopEntities |->
        IF views[x] # None /\ e \in CopEntities /\ x[2] = e[2]
        THEN [views[x] EXCEPT !.revision = revision] ELSE views[x]]

\* Fault: a view that has a revision keeps it.
RevisedViews_Once(e, revision) ==
    [x \in CopEntities |->
        IF views[x] # None /\ x = e /\ views[x].revision = 0
        THEN [views[x] EXCEPT !.revision = revision] ELSE views[x]]

RevisedViews(e, revision) ==
    [x \in CopEntities |->
        IF views[x] # None /\ x = e THEN [views[x] EXCEPT !.revision = revision] ELSE views[x]]

\* Store.RecordGraphWrite, the last call of handleInbound and of Submit: it
\* counts the write and sets the revision of whatever has the entity's id.
RecordGraphWrite(g) ==
    /\ job[g].pc = IF g \in Carriers THEN "wrote" ELSE "added"
    /\ counts' = [counts EXCEPT !.writes = @ + 1]
    /\ views' = RevisedViews(job[g].entity, job[g].revision)
    /\ commands' = RevisedCommands(job[g].entity, job[g].revision)
    /\ job' = [job EXCEPT ![g] = Idle]
    /\ UNCHANGED <<now, begun, graphVars>>

Next ==
    \/ Tick
    \/ \E k \in Carriers : \E e \in Heard[k] : Receive(k, e)
    \/ \E g \in Submitters, r \in Requests : Submit(g, r)
    \/ \E g \in Goroutines : \/ Write(g) \/ WriteFails(g)
                             \/ AddCommand(g) \/ RecordGraphWrite(g)
    \/ \E w \in late : LateWrite(w)

Spec == Init /\ [][Next]_vars

-----------------------------------------------------------------------------
(* Properties.                                                             *)

Entities == CopEntities \cup CommandEntities
Writes == Entities \X (1..MaxBegun)

\* A goroutine is idle, or has an operation of its own under way.
TypeOK ==
    /\ now \in 0..MaxTime /\ begun \in 0..MaxBegun
    /\ job \in [Goroutines ->
          [pc : {"idle", "writing", "wrote", "added"}, entity : Entities \cup {None},
           n : 0..MaxBegun, target : {r.target : r \in Requests} \cup {None},
           revision : Nat]]
    /\ views \in [CopEntities -> {None} \cup [n : 1..MaxBegun, revision : Nat]]
    /\ commands \in Seq([entity : CommandEntities, n : 1..MaxBegun,
                         target : {r.target : r \in Requests}, revision : Nat])
    /\ Len(commands) <= MaxCommands
    /\ counts \in [projected : Nat, writes : Nat, errors : Nat]
    /\ written \in Seq(Writes) /\ failed \subseteq Writes /\ late \subseteq failed

Busy == {g \in Goroutines : job[g] # Idle}

\* The latest revision of an entity, 0 if it was never written.
LatestOf(e) ==
    LET revisions == {r \in DOMAIN written : written[r][1] = e}
    IN  IF revisions = {} THEN 0
        ELSE CHOOSE r \in revisions : \A q \in revisions : q <= r

\* The events of the UID all come over one carrier.
OneCarrier(uid) == Cardinality({k \in Carriers : uid \in Carries[k]}) = 1

\* A UID heard over one connection only, none of whose writes failed, is the
\* same in the store and in the graph, revision included, as soon as nothing
\* of it is under way: readers handle one event after the other.
StoreAgreesWithGraph ==
    \A e \in CopEntities :
        /\ OneCarrier(e[2])
        /\ \A w \in failed : w[1] # e
        /\ \A g \in Busy : job[g].entity # e
        /\ views[e] # None
        => /\ views[e].revision = LatestOf(e)
           /\ written[LatestOf(e)] = <<e, views[e].n>>

\* Whatever the order of arrival, a revision the store shows was given to a
\* write of that very entity: an operator, a marker and a message that share
\* a UID are told apart, and so are commands.
RevisionsAreReal ==
    /\ \A e \in CopEntities :
          views[e] # None /\ views[e].revision # 0 => written[views[e].revision][1] = e
    /\ \A i \in DOMAIN commands :
          commands[i].revision # 0 => written[commands[i].revision][1] = commands[i].entity

\* The list shows commands that reached the graph; a request that was refused
\* or failed is not on it.
ListedAreWritten ==
    \A i \in DOMAIN commands : Contains(written, <<commands[i].entity, commands[i].n>>)

\* Commands with one verb and vehicle in one millisecond have one id: the list
\* shows each of them, and one revision for all once their requests are done.
TwinsAgree ==
    (Busy \cap Submitters = {}) =>
        \A i, j \in DOMAIN commands :
            commands[i].entity = commands[j].entity =>
                commands[i].revision = commands[j].revision

\* What the bridge multicasts and hears again never becomes a COP entity of
\* its own: the bridge's tracks and alerts are all of types that are ignored.
NoEcho ==
    \A e \in CopEntities : e[2] \notin Uids => views[e] = None
=============================================================================
