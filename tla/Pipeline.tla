------------------------------ MODULE Pipeline ------------------------------
(***************************************************************************)
(* The demo pipeline (internal/gcs/demo.go): a telemetry source fills a    *)
(* bounded buffer; the projector goroutine drains it through the Projector *)
(* (internal/projector) into the graph and the Store; the link monitor     *)
(* goroutine looks for silent vehicles and writes to the same three.       *)
(*                                                                         *)
(* Projector and Store have a lock each, taken for one call at a time, and *)
(* the graph is a service: what a goroutine computed under one lock is     *)
(* written later, while the other goroutine runs. An action here is one    *)
(* call, with whatever the goroutine does by itself around it.             *)
(*                                                                         *)
(* A telemetry field is a payload's sample; the ones kept are those the    *)
(* pipeline decides on: link, battery and the time last seen. A revision   *)
(* is reduced to whether there is one (GraphClient.tla has the numbers).   *)
(***************************************************************************)
EXTENDS Naturals, Sequences, FiniteSets, SequencesExt

CONSTANTS
    Vehicles,        \* MAVLink system ids
    Levels,          \* battery levels SYS_STATUS may report
    Threshold,       \* Config.LowBatteryThreshold
    FullBattery,     \* the level assumed before the first SYS_STATUS
    LostAfter,       \* Config.LostLinkAfter
    Capacity,        \* DemoConfig.BufferCapacity
    BatchSize,       \* the 256 of ReadBatch
    MaxFrames,       \* bound: frames of the source
    MaxFailures,     \* bound: projection writes that fail
    MaxTime,         \* bound: the clock stops there
    None             \* a vehicle the projector or the store does not know

ASSUME ConfigAssumption ==
    /\ IsFiniteSet(Vehicles)
    /\ Levels \subseteq Nat /\ Threshold \in Nat \ {0} /\ FullBattery \in Nat
    /\ LostAfter \in Nat \ {0} /\ Capacity \in Nat \ {0} /\ BatchSize \in Nat \ {0}
ASSUME NoneAssumption == None \notin Nat \union [raised : Nat, revision : BOOLEAN]
ASSUME PipelineBounds == MaxFrames \in Nat /\ MaxFailures \in Nat /\ MaxTime \in Nat

Goroutines == {"projector", "monitor"}
AlertKinds == {"lost-link", "low-battery"}
Alerts == AlertKinds \X Vehicles
VehicleEntity(v) == <<"vehicle", v>>
Entities == Alerts \union {VehicleEntity(v) : v \in Vehicles}

VARIABLES
    now,        \* the wall clock
    source,     \* where recordRawFrame is
    buffer,     \* the raw frames, oldest first
    dropped,    \* the buffer's own Stats().Drops()
    stats,      \* what Stats() has told the source and the projector goroutine
    counts,     \* MetricsView.RawFrames, DecodedFrames, DecodeErrors, BufferDrops
    states,     \* Projector.states
    alerts,     \* Projector.alerts: when raised
    job,        \* what a goroutine is doing
    graph,      \* what the graph says of an entity, and since when
    failures,   \* failed writes so far
    late,       \* writes that timed out and may still reach the graph
    store,      \* Store.vehicles
    storeAlerts \* Store.alerts

vars == <<now, source, buffer, dropped, stats, counts, states, alerts, job, graph,
          failures, late, store, storeAlerts>>
graphVars == <<graph, failures, late>>
bufferVars == <<buffer, dropped>>
sourceVars == <<source, bufferVars, stats>>
storeVars == <<store, storeAlerts>>

NoShot == [states |-> None, alerts |-> None]
IdleJob == [pc |-> "idle", batch |-> <<>>, todo |-> <<>>, wrote |-> FALSE, shot |-> NoShot]
NoStats == [source |-> 0, projector |-> 0]
NoAlerts == [a \in Alerts |-> None]

Init ==
    /\ now = 0
    /\ source = "idle"
    /\ buffer = <<>>
    /\ dropped = 0
    /\ stats = NoStats
    /\ counts = [raw |-> 0, decoded |-> 0, errors |-> 0, drops |-> 0]
    /\ states = [v \in Vehicles |-> None]
    /\ alerts = NoAlerts
    /\ job = [g \in Goroutines |-> IdleJob]
    /\ graph = [e \in Entities |-> None]
    /\ failures = 0
    /\ late = {}
    /\ store = [v \in Vehicles |-> None]
    /\ storeAlerts = NoAlerts

Tick ==
    /\ now < MaxTime
    /\ now' = now + 1
    /\ UNCHANGED <<sourceVars, counts, states, alerts, job, graphVars, storeVars>>

-----------------------------------------------------------------------------
(* The source: runSimulator, runUDPSource, recordRawFrame.                 *)

\* A SYS_STATUS with a battery level, a heartbeat or position, a message the
\* projector has no case for, or a frame that does not decode.
FrameKinds == {"heartbeat", "status", "other", "bad"}
Frames == {[vehicle |-> v, kind |-> k, level |-> FullBattery, at |-> now] :
              v \in Vehicles, k \in FrameKinds \ {"status"}}
          \union
          {[vehicle |-> v, kind |-> "status", level |-> l, at |-> now] :
              v \in Vehicles, l \in Levels}

\* Fault: no overflow policy.
Kept_All == buffer

\* What a full buffer keeps for another frame: DropOldest.
Kept == IF Len(buffer) = Capacity THEN Tail(buffer) ELSE buffer

\* buffer.Write, and a frame that makes room is counted by the buffer.
BufferWrite(f) ==
    /\ source = "idle"
    /\ counts.raw < MaxFrames
    /\ source' = "written"
    /\ buffer' = Append(Kept, f)
    /\ dropped' = dropped + Len(buffer) - Len(Kept)
    /\ UNCHANGED <<now, stats, counts, states, alerts, job, graphVars, storeVars>>

RecordRawFrame ==
    /\ source = "written"
    /\ source' = "counted"
    /\ counts' = [counts EXCEPT !.raw = @ + 1]
    /\ UNCHANGED <<now, bufferVars, stats, states, alerts, job, graphVars, storeVars>>

\* buffer.Stats after a frame, and once more after all frames of a simulator's
\* tick.
SourceStats ==
    /\ source \in {"idle", "counted"}
    /\ source' = "stats"
    /\ stats' = [stats EXCEPT !.source = dropped]
    /\ UNCHANGED <<now, bufferVars, counts, states, alerts, job, graphVars, storeVars>>

\* RecordBuffer: the store shows what Stats had told the caller.
SourceRecordBuffer ==
    /\ source = "stats"
    /\ source' = "idle"
    /\ counts' = [counts EXCEPT !.drops = stats.source]
    /\ stats' = [stats EXCEPT !.source = 0]
    /\ UNCHANGED <<now, bufferVars, states, alerts, job, graphVars, storeVars>>

-----------------------------------------------------------------------------
(* The Projector.                                                          *)

\* A graph write: the entity and what it is made to say.
Projection(e, says) == [entity |-> e, says |-> says]

VehicleProjection(v, state) == Projection(VehicleEntity(v), state.link)

AlertProjection(kind, v) == Projection(<<kind, v>>, "active")

StateFor(v) ==
    IF states[v] = None THEN [link |-> "online", seen |-> 0, battery |-> FullBattery]
    ELSE states[v]

LowBattery(state) == state.battery > 0 /\ state.battery <= Threshold

\* The state after Apply of a decoded frame.
Applied(f) ==
    [StateFor(f.vehicle) EXCEPT !.link = "online", !.seen = f.at,
        !.battery = IF f.kind = "status" THEN f.level ELSE @]

\* Silence of a vehicle the projector knows.
Silent(v) == states[v] # None /\ now - states[v].seen > LostAfter

-----------------------------------------------------------------------------
(* Steps both goroutines take.                                             *)

\* writeProjections: the graph takes the write; the caller has yet to record
\* its revision.
WriteProjection(g) ==
    /\ job[g].todo # <<>> /\ ~job[g].wrote
    /\ graph' = [graph EXCEPT ![Head(job[g].todo).entity] = Head(job[g].todo).says]
    /\ job' = [job EXCEPT ![g].wrote = TRUE]
    /\ UNCHANGED <<now, sourceVars, counts, states, alerts, failures, late, storeVars>>

\* RecordGraphWrite: the store notes the revision if it has the entity.
RecordGraphWrite(g) ==
    LET e == Head(job[g].todo).entity
    IN  /\ job[g].wrote
        /\ job' = [job EXCEPT ![g].wrote = FALSE, ![g].todo = Tail(@)]
        /\ store' = [v \in Vehicles |->
              IF e = VehicleEntity(v) /\ store[v] # None
              THEN [store[v] EXCEPT !.revision = TRUE] ELSE store[v]]
        /\ storeAlerts' = [a \in Alerts |->
              IF e = a /\ storeAlerts[a] # None
              THEN [storeAlerts[a] EXCEPT !.revision = TRUE] ELSE storeAlerts[a]]
        /\ UNCHANGED <<now, sourceVars, counts, states, alerts, graphVars>>

\* The write fails and is dropped; it may still reach the graph.
FailProjection(g) ==
    /\ job[g].todo # <<>> /\ ~job[g].wrote
    /\ failures < MaxFailures
    /\ failures' = failures + 1
    /\ late' \in {late, late \union {Head(job[g].todo)}}
    /\ job' = [job EXCEPT ![g].todo = Tail(@)]
    /\ UNCHANGED <<now, sourceVars, counts, states, alerts, graph, storeVars>>

LateWrite ==
    \E p \in late :
        /\ late' = late \ {p}
        /\ graph' = [graph EXCEPT ![p.entity] = p.says]
        /\ UNCHANGED <<now, sourceVars, counts, states, alerts, job, failures, storeVars>>

\* Fault: the link monitor leaves the store to the projector goroutine.
TakeSnapshot_ProjectorOnly(g) ==
    /\ job[g].pc = "run" /\ job[g].todo = <<>> /\ job[g].batch = <<>>
    /\ job' = IF g = "monitor" THEN [job EXCEPT ![g] = IdleJob]
              ELSE [job EXCEPT ![g].pc = "shot",
                               ![g].shot = [states |-> states, alerts |-> alerts]]
    /\ UNCHANGED <<now, sourceVars, counts, states, alerts, graphVars, storeVars>>

\* Projector.Snapshot, once everything is written.
TakeSnapshot(g) ==
    /\ job[g].pc = "run" /\ job[g].todo = <<>> /\ job[g].batch = <<>>
    /\ job' = [job EXCEPT ![g].pc = "shot",
                          ![g].shot = [states |-> states, alerts |-> alerts]]
    /\ UNCHANGED <<now, sourceVars, counts, states, alerts, graphVars, storeVars>>

\* ApplyProjectorSnapshot: vehicles and alerts keep their revisions. The
\* projector goroutine has the buffer's metrics yet to record.
ApplySnapshot(g) ==
    LET shot == job[g].shot
    IN  /\ job[g].pc = "shot"
        /\ job' = [job EXCEPT ![g] =
              [IdleJob EXCEPT !.pc = IF g = "projector" THEN "applied" ELSE "idle"]]
        /\ store' = [v \in Vehicles |->
              IF shot.states[v] = None THEN store[v]
              ELSE [state |-> shot.states[v],
                    revision |-> store[v] # None /\ store[v].revision]]
        /\ storeAlerts' = [a \in Alerts |->
              IF shot.alerts[a] = None THEN storeAlerts[a]
              ELSE [raised |-> shot.alerts[a],
                    revision |-> storeAlerts[a] # None /\ storeAlerts[a].revision]]
        /\ UNCHANGED <<now, sourceVars, counts, states, alerts, graphVars>>

-----------------------------------------------------------------------------
(* runProjector.                                                           *)

ReadBatch ==
    LET n == IF Len(buffer) < BatchSize THEN Len(buffer) ELSE BatchSize
    IN  /\ job["projector"].pc = "idle"
        /\ buffer # <<>>
        /\ buffer' = SubSeq(buffer, n + 1, Len(buffer))
        /\ job' = [job EXCEPT !["projector"].pc = "run",
                              !["projector"].batch = SubSeq(buffer, 1, n)]
        /\ UNCHANGED <<now, source, dropped, stats, counts, states, alerts, graphVars, storeVars>>

\* Fault: a frame that does not decode goes on to be counted as decoded.
Counted_NoReturn(f) ==
    IF f.kind = "bad" THEN [counts EXCEPT !.errors = @ + 1, !.decoded = @ + 1]
    ELSE [counts EXCEPT !.decoded = @ + 1]

Counted(f) ==
    IF f.kind = "bad" THEN [counts EXCEPT !.errors = @ + 1]
    ELSE [counts EXCEPT !.decoded = @ + 1]

\* A low battery is raised again with every sample that has a projection.
RaisesLow(f) == f.kind \in {"heartbeat", "status"} /\ LowBattery(Applied(f))

FrameProjections(f) ==
    (IF f.kind \in {"heartbeat", "status"}
     THEN <<VehicleProjection(f.vehicle, Applied(f))>> ELSE <<>>) \o
    (IF RaisesLow(f) THEN <<AlertProjection("low-battery", f.vehicle)>> ELSE <<>>)

\* handleFrame up to its writes: publish the raw frame (a failure is counted
\* and nothing else), decode it, apply it. A message the projector has no case
\* for updates the vehicle all the same and projects nothing.
HandleFrame ==
    LET f == Head(job["projector"].batch)
    IN  /\ job["projector"].batch # <<>> /\ job["projector"].todo = <<>>
        /\ counts' = Counted(f)
        /\ states' = IF f.kind = "bad" THEN states
                     ELSE [states EXCEPT ![f.vehicle] = Applied(f)]
        /\ alerts' = IF RaisesLow(f)
                     THEN [alerts EXCEPT ![<<"low-battery", f.vehicle>>] = f.at] ELSE alerts
        /\ job' = [job EXCEPT !["projector"].batch = Tail(@),
                              !["projector"].todo = FrameProjections(f)]
        /\ UNCHANGED <<now, sourceVars, graphVars, storeVars>>

\* Fault: the statistics are read before the batch.
ProjectorStats_BeforeBatch ==
    \/ /\ job["projector"].pc = "idle"
       /\ stats' = [stats EXCEPT !.projector = dropped]
       /\ UNCHANGED <<now, source, bufferVars, counts, states, alerts, job, graphVars, storeVars>>
    \/ /\ job["projector"].pc = "applied"
       /\ job' = [job EXCEPT !["projector"].pc = "stats"]
       /\ UNCHANGED <<now, sourceVars, counts, states, alerts, graphVars, storeVars>>

\* buffer.Stats after a batch. The source writes on before it is recorded.
ProjectorStats ==
    /\ job["projector"].pc = "applied"
    /\ job' = [job EXCEPT !["projector"].pc = "stats"]
    /\ stats' = [stats EXCEPT !.projector = dropped]
    /\ UNCHANGED <<now, source, bufferVars, counts, states, alerts, graphVars, storeVars>>

ProjectorRecordBuffer ==
    /\ job["projector"].pc = "stats"
    /\ job' = [job EXCEPT !["projector"] = IdleJob]
    /\ counts' = [counts EXCEPT !.drops = stats.projector]
    /\ stats' = [stats EXCEPT !.projector = 0]
    /\ UNCHANGED <<now, source, bufferVars, states, alerts, graphVars, storeVars>>

-----------------------------------------------------------------------------
(* runLinkMonitor.                                                         *)

\* Fault: a vehicle already known to be lost is passed over.
Overdue_Once == {v \in Vehicles : Silent(v) /\ states[v].link # "lost"}

Overdue == {v \in Vehicles : Silent(v)}

\* Fault: lost-link alerts are written to the graph only.
Raised_NotKept == alerts

Raised == [a \in Alerts |-> IF a[1] = "lost-link" /\ a[2] \in Overdue THEN now ELSE alerts[a]]

\* For each vehicle its state, then its alert.
LostProjections(order) ==
    [i \in 1..(2 * Len(order)) |->
        IF i % 2 = 1 THEN Projection(VehicleEntity(order[(i + 1) \div 2]), "lost")
        ELSE AlertProjection("lost-link", order[i \div 2])]

\* CheckLinkTimeouts marks every silent vehicle lost and raises its alert,
\* again on every tick as long as it is silent.
CheckLinkTimeouts ==
    /\ job["monitor"].pc = "idle"
    /\ \E order \in SetToSeqs(Overdue) :
          job' = [job EXCEPT !["monitor"].pc = "run",
                             !["monitor"].todo = LostProjections(order)]
    /\ states' = [v \in Vehicles |->
          IF v \in Overdue THEN [states[v] EXCEPT !.link = "lost"] ELSE states[v]]
    /\ alerts' = Raised
    /\ UNCHANGED <<now, sourceVars, counts, graphVars, storeVars>>

-----------------------------------------------------------------------------

Next ==
    \/ Tick
    \/ \E f \in Frames : BufferWrite(f)
    \/ RecordRawFrame \/ SourceStats \/ SourceRecordBuffer
    \/ ReadBatch
    \/ HandleFrame
    \/ ProjectorStats \/ ProjectorRecordBuffer
    \/ CheckLinkTimeouts
    \/ \E g \in Goroutines : \/ WriteProjection(g) \/ RecordGraphWrite(g)
                             \/ FailProjection(g)
                             \/ TakeSnapshot(g) \/ ApplySnapshot(g)
    \/ LateWrite

Spec == Init /\ [][Next]_vars

\* Tickers fire and goroutines run. Neither the clock nor the source is fair:
\* the properties below do not need more telemetry. A write is bounded by its
\* two-second context, so it ends, one way or the other.
Fairness ==
    /\ WF_vars(ReadBatch) /\ WF_vars(HandleFrame)
    /\ WF_vars(ProjectorStats) /\ WF_vars(ProjectorRecordBuffer)
    /\ WF_vars(CheckLinkTimeouts)
    /\ \A g \in Goroutines :
          /\ WF_vars(WriteProjection(g) \/ FailProjection(g))
          /\ WF_vars(RecordGraphWrite(g))
          /\ WF_vars(TakeSnapshot(g)) /\ WF_vars(ApplySnapshot(g))

FairSpec == Spec /\ Fairness
-----------------------------------------------------------------------------
(* Properties.                                                             *)

VehicleState == [link : {"online", "lost"}, seen : 0..MaxTime, battery : Nat]
TypeOK ==
    /\ now \in 0..MaxTime
    /\ source \in {"idle", "written", "counted", "stats"}
    /\ Len(buffer) <= Capacity
    /\ dropped \in Nat /\ stats \in [source : Nat, projector : Nat]
    /\ counts \in [raw : Nat, decoded : Nat, errors : Nat, drops : Nat]
    /\ states \in [Vehicles -> {None} \union VehicleState]
    /\ store \in [Vehicles -> {None} \union [state : VehicleState, revision : BOOLEAN]]
    /\ alerts \in [Alerts -> {None} \union 0..now]
    /\ storeAlerts \in [Alerts -> {None} \union [raised : 0..now, revision : BOOLEAN]]
    /\ graph \in [Entities -> {"online", "lost", "active", None}]
    /\ failures \in 0..MaxFailures

\* The metrics and the buffer's own statistics account for every raw frame: it
\* was dropped, is buffered or in the projector's hands, or was counted as
\* decoded or as an error, once.
FramesAccounted ==
    counts.raw + (IF source = "written" THEN 1 ELSE 0) =
        dropped + Len(buffer) + Len(job["projector"].batch)
            + counts.decoded + counts.errors

\* BufferDrops is set by two goroutines from statistics each has read earlier,
\* so it lags and may go back; but it is never left behind the buffer: a source
\* or a projector that has it yet to record, or a frame for another batch.
DropsShownOrComing ==
    counts.drops # dropped =>
        \/ source # "idle" \/ buffer # <<>>
        \/ job["projector"].pc \in {"run", "shot", "applied"}
        \/ job["projector"].pc = "stats" /\ stats.projector = dropped

\* An operator who sees a vehicle lost sees its alert too, whichever of the
\* goroutines' snapshots was applied last.
LostHasAlert ==
    \A v \in Vehicles :
        store[v] # None /\ store[v].state.link = "lost" =>
            storeAlerts[<<"lost-link", v>>] # None

\* A snapshot taken before the other goroutine's and applied after it makes the
\* store older, but not for good: the store ends up with the projector's state.
StoreSettles ==
    <>[](\A v \in Vehicles :
            states[v] # None => store[v] # None /\ store[v].state = states[v])

\* Neither a failed write nor an "online" written by the slower goroutine, or
\* arriving late, hides a silent vehicle from the graph for good.
SilenceReachesGraph ==
    <>[](\A v \in Vehicles :
            Silent(v) => /\ graph[VehicleEntity(v)] = "lost"
                         /\ graph[<<"lost-link", v>>] = "active")

\* The revision of an entity's first write is recorded before the store has
\* the entity, and so lost; a silent vehicle and its alert get one all the same.
LostShowsRevision ==
    <>[](\A v \in Vehicles :
            Silent(v) => /\ store[v] # None /\ store[v].revision
                         /\ storeAlerts[<<"lost-link", v>>] # None
                         /\ storeAlerts[<<"lost-link", v>>].revision)

\* Frames of a vehicle the projector has yet to apply.
Waiting(v) ==
    {f \in Range(buffer) \union Range(job["projector"].batch) :
        f.vehicle = v /\ f.kind # "bad"}

\* "Silence is the signal" (projector.go:118): a lost-link alert is raised only
\* for a vehicle that has produced no telemetry for LostLinkAfter.
SilenceIsTheSignal ==
    [][\A v \in Vehicles :
          alerts'[<<"lost-link", v>>] # alerts[<<"lost-link", v>>] =>
              \A f \in Waiting(v) : now - f.at > LostAfter]_vars
=============================================================================
