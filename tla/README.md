# SemLink: TLA+ specifications and proofs

SemLink puts a ground-control demo (`semgcs-demo`) and a companion-node mesh
(`semlink-demo`) on top of an entity graph. This directory holds TLA+ models of
the parts whose correctness depends on the order in which things happen, the
TLC configurations that check them on small instances, and TLAPS proofs about
them. Paths below are relative to `internal/` unless they start otherwise.

    tlc -config MeshSync_relay.cfg MCMeshSync     # one run
    tlapm MeshSyncProofs.tla                      # one module of proofs

## 1. The system

| Component | State it keeps | Operations | Talks to |
|---|---|---|---|
| **Mesh index and anti-entropy** `mesh/sync.go`, `http_transport.go` | `SummaryIndex.items`, one summary per origin cell and entity, in memory | `Upsert`, `Watermarks`, `Diff`, `PullFrom`, `handleDiff` | peers over HTTP |
| **Mesh envelope** `mesh/envelope.go` | none | `Validate`, replication policy | index |
| **Graph client** `semstreams/client.go` | `known`, the entity ids believed to exist | `UpsertProjection` (create, update, one fallback each way), `QueryEntity` | graph-ingest over NATS request-reply |
| **Telemetry pipeline** `gcs/demo.go`, `projector/` | buffer; projector's `states` and `alerts`; link monitor | `recordRawFrame`, `runProjector`, `handleFrame`, `runLinkMonitor`, `writeProjections` | source, graph client, store |
| **Store** `gcs/store.go` | vehicles, alerts, COP views, commands (20), traces (50), gate results (50), metrics | `Apply*`, `Record*`, `Add*`, `Snapshot` | every producer and view |
| **CS API bridge** `csapi/bridge.go` | ids of what it has posted, time of the last observation of each stream | `Sync` on a ticker | store snapshot, CS API server |
| **TAK bridge and COP** `tak/`, `cop/`, `cot/` | outbound TCP clients | outbound ticker, inbound UDP and TCP readers, translation of events | store, graph client |
| **Command service** `gcs/commands.go` | none | `Submit`, one goroutine a request | graph client, store |
| **Command gate** `commandgate/` | none between calls | `Check`, `Transmit` with retries, hardware blocker | simulator link, store |
| **Rules** `rules/` | none | threshold evaluation | projector output |
| **Runtime** `semstreams/runtime.go` | embedded NATS server, client, graph services | start, stop | everything |
| **MAVLink** `mavlink/` | none; a UDP socket | decode, simulate, frame datagrams | pipeline |
| **Companion, hand-off, read-back** `companion/`, `handoff/`, `semops/` | none between calls | fixtures, configuration checks, HTTP read-back | |
| **Graph view** `gcs/graph_view.go`, `gcs/server.go` | none between requests | `BuildGraphView`: a lens on the graph and one put together from a chain of GETs | store, graph client, CS API server |
| **Evidence view** `gcs/evidence.go` | none | snapshot to JSON | store |
| **End-to-end drivers** `e2e/`, wiring in `cmd/`, `blueos/`, `sitl/` | | | |

How they interact. A telemetry source fills a `DropOldest` buffer. The projector
goroutine drains it through the projector into the graph and then the store; the
link-monitor goroutine reads the same projector for silent vehicles and writes
to the same graph and store. The store's snapshot feeds the user interface, the
CS API bridge and the TAK bridge; TAK events and operator commands come back
into the store and the graph. The graph view reads store, graph and the CS API
server, which the bridge goes on filling meanwhile. On a companion node, selected facts become mesh
summaries, filed in the node's index and pulled by its peers.

What is hard, and what makes each part correct:

* **Mesh.** Nothing is retried but the next pull; answers to overlapping pulls
  are applied late, in pieces and in any order; watermarks are stale when they
  are judged; clocks tie; an index dies with its process. Correct means: no node
  goes back to an older fact, nothing is invented, raw frames stay home, "nothing
  to send" is never a mistake, and nodes that keep pulling catch up.
* **Graph client.** Two goroutines share a cache that may be wrong; requests
  that timed out land later. Correct means: one call writes at most once,
  reports only its own write, and hides races with other writers.
* **Pipeline and store.** What one goroutine computed under one lock it writes
  under another, later, while the other goroutine runs. Correct means: store
  and graph end up with the projector's truth, a lost vehicle comes with its
  alert, and frames are accounted for.
* **CS API bridge.** A sync is many POSTs and stops at the first that fails; a
  failed one may have succeeded. Correct means: children after parents, memory
  that is true, and nothing given up.
* **Command gate.** Retries and late acknowledgements; what is sent is cleared
  first; what is reported accepted has evidence.
* **TAK events and commands.** Readers of one UID and requests in one
  millisecond interleave; a write that failed may land later; the bridge hears
  what it has sent. Correct means: every revision shown is that entity's own,
  listed commands were written, commands of one id show one revision, store and
  graph agree where one connection orders the events, and echoes come to
  nothing.
* **Graph view.** A lens is read in a dozen GETs, any of which may fail, from a
  server that changes between two of them. Correct means: nothing hangs in the
  air, nothing is called pending that is there, nothing of another entity is
  shown for one that is published, and what was there is shown if no GET failed.

`PROJECT.json` lists every hazard at the line where it bites, with the
properties that cover it, or the reason why none does.

## 2. Modules

| Module | Role |
|---|---|
| `MeshOrder` | the pure functions of `sync.go`: order of versions, `Upsert`, watermarks, `Diff` |
| `MeshSync` | nodes that publish, pull, lose messages and restart (EXTENDS `MeshOrder`) |
| `MeshRegisters` | abstract: last-writer-wins registers that learn what owners published |
| `MeshOrderProofs`, `MeshSyncProofs` | lemmas and theorems |
| `GraphClient` | `UpsertProjection` called by concurrent writers, and the graph service |
| `GraphWrites` | abstract: a call writes once or not at all and reports its own write |
| `GraphClientProofs` | theorems |
| `Pipeline` | source, buffer, projector and monitor goroutines, store, graph |
| `PipelineProofs` | theorems |
| `OperatorWrites` | inbound TAK readers and command requests against store and graph |
| `OperatorWritesProofs` | theorems |
| `CsapiResources` | the resources of the CS API and what each refers to |
| `CsapiServer` | abstract: resources appear after what they refer to, and stay (EXTENDS `CsapiResources`) |
| `CsapiBridge` | one bridge over a changing store against an external server; implements `CsapiServer` |
| `CsapiBridgeProofs` | theorems |
| `GraphView` | one graph request over a `CsapiServer` that goes on changing |
| `GraphViewProofs` | theorems |
| `CommandGate` | concurrent calls of `Transmit`, the link, the store's gate results |
| `CommandGateProofs` | theorems |
| `MC*` | definitions TLC needs for the instances |

What the components rely on of each other is an abstract module both sides
know. The bridge is checked and proved to implement `CsapiServer`
(`PublishesInOrder`), and the graph view reads a `CsapiServer`, so what is shown
of the view holds over whatever the bridge may have posted. `GraphClient`
implements `GraphWrites`, whose promise (a call writes once or not at all, and a
write whose caller gave up may come late) is what `Write`, `WriteFails` and
`LateWrite` of `OperatorWrites` and of `Pipeline` are made of.

A definition whose name is that of another with a suffix (`Upsert_LastArrival`,
`Due_TooRare`) and whose comment starts with "Fault:" is that definition with
one mistake in it. No specification uses it; it stands in for the correct one to
show that a property would notice. `PROJECT.json` "mutants" pairs each with the
property it breaks.

### 2.1 Mesh (`MeshOrder`, `MeshSync`, `MeshRegisters`)

*Data.* A summary is a record of the fields the index orders, looks up, hashes
and expires by; origin cells, entity ids and operation ids are their ranks in
the order `sortItems` and `watermarkNewerThan` use. The SHA-256 of a cell is the
set of facts it digests, so the model has no collisions. `MergePolicy` is
carried by the code and read by nothing, so it is not in the model.

*State.* `index[n]` is `SummaryIndex.items`. `pull[l]` is the `PullFrom` call
under way on a link: `asked` while its request or the answer travels,
`applying` while its loop upserts.

*Actions.*

| Action | Code |
|---|---|
| `Publish` | an origin calls `Upsert` on its own index |
| `BeginPull` | `PullFrom` reads its watermarks (under the index lock) and posts |
| `Serve` | `handleDiff`: `Diff` of the peer's current items at the time in the request |
| `LosePull` | any error return of `PullFrom` before its loop |
| `ApplyItem` | one turn of the loop, in sort order |
| `Restart` | a new process: an empty index, no pulls of its own |
| `Tick` | time, for `ExpiresAt` |

The locks of `sync.go` cover one call of `Upsert`, `Watermarks` or `Diff`, so
these are the atomic steps. Answers travel inside the action that applies their
first item: nobody else can see them earlier. Duplicated answers do not occur
over one HTTP exchange; repeated and overlapping ones come from repeated pulls
and from several peers. One pull at a time is modelled per link, as the drivers
do it; pulls over different links overlap freely.

*Refinement.* `MeshRegisters` has no links, watermarks or diffs. The mapping
takes `register` to `index`. A pull that finds nothing, is lost or applies an
item that is not newer is a stutter.

### 2.2 Graph client (`GraphClient`, `GraphWrites`)

A call is `<<writer, n>>`. `step` is where in `UpsertProjection`,
`createProjection` or `updateProjection` the call waits for a reply; `known` is
the cache. `net` holds requests: `GiveUp` (any error but the two the code
distinguishes, or a timeout) leaves the request in it, so it may be carried out
later. `Create`, `Update` and `Purge` are the external graph-ingest service and
the loss of an entity by time to live. The early return for a projection with no
entity or no triples is left out: nothing in the repository makes one.

The writer's local processing of a reply is one action with the change to the
cache. `isKnown`, `remember` and `forget` take the client's mutex for
themselves, and between them and the request there is nothing another goroutine
could see.

### 2.3 Pipeline (`Pipeline`)

The variables are those of the code: the buffer, the metrics, the projector's
maps, what each goroutine has in hand (`job`: its batch, the projections it has
yet to write, its snapshot), the graph, and the store's maps. An action is one
call on a shared object: `BufferWrite`, `RecordRawFrame`, `SourceStats` and
`SourceRecordBuffer` for the source; `ReadBatch`, `HandleFrame`, `ProjectorStats`
and `ProjectorRecordBuffer` for the projector goroutine; `CheckLinkTimeouts`
for the monitor; `WriteProjection`, `RecordGraphWrite` (or `FailProjection`),
`TakeSnapshot`, `ApplySnapshot` for either. Payloads are the fields the pipeline
decides on: link, last seen, battery. A graph write is what it makes an entity
say. A raw frame that cannot be published is counted and nothing else happens,
so that branch changes nothing the model keeps.

`dropped` is the buffer's own `Stats().Drops()`, which changes with the write that
makes room; `counts.drops` is `BufferDrops` in the store, which only `RecordBuffer`
sets, from the statistics (`stats`) a goroutine has read in an earlier step.
`FramesAccounted` is about the former; `DropsShownOrComing` says what is to be
had of the latter. The store's `BufferSize` is set by the same calls but is read
from the buffer as the batch goes out and the next frames come in: it is a sample
that no property relates to anything, and is left out.

### 2.4 Operators (`OperatorWrites`)

`job[g]` is what an inbound reader (the UDP socket, each TCP connection) or a
command request is doing: `writing` while it waits for the graph, `wrote` with
the revision in hand, `added` once a command is on the list. `views` and
`commands` are the store's; `written` is the sequence of writes the graph took,
whose index is the revision.

`Receive` is `handleInbound` up to its graph write, `Submit` the request up to
its own; `Write`, `WriteFails` and `LateWrite` are the outcomes of
`UpsertProjection` with its two-second context; `AddCommand` and
`RecordGraphWrite` are the store calls that follow, in the order of the code.
An event is what the translation looks at (prefix of the type, whether there is
a point, a chat element, remarks): `KindOf` keeps the order of the cases of
`Translator.Apply`, `Marshal` and `Unmarshal` what one side adds and the other
reads back. `Heard` are the COP entities that may come of the events of a
carrier, the bridge's own multicasts (`Sent`) included. What a view or a command
shows is the number of the operation it comes from.

### 2.5 CS API bridge (`CsapiBridge`, `CsapiServer`, `CsapiResources`)

A resource on the server is `<<kind, what it describes, time>>`. A `Sync` takes
one snapshot (`StartSync`) and posts what `NextPosts` gives: the first item in
the order of the loops of `Sync` that still has something due, and of that item
the earliest stage (system, then stream, then the rest). `Due` is the bridge's
memory: posted ids, and the interval for observations. `Post` is an answer 201
or 409, which `decodePostResult` treats alike. `PostFails` is everything else,
which ends the `Sync`; the POST may still arrive (`Arrive`). `Crash` loses the
process and with it store and memory. The order of the store's alerts, markers
and messages in a snapshot depends on fields left out, so it is any order.
Reports move `LastSeen` either way: a late projector snapshot and an operator's
own clock do.

### 2.6 Graph view (`GraphView`)

`view` is the request under way: the phase names the GET that comes next, `todo`
the items still to be fetched one by one, the other fields are the lens so far.
There is one action for each GET of each lens. `\E ok \in Answers(p)` is the
answer to a GET by id, which may fail although the item is there; a search
draws from `Matches`, the tests of `findCSAPISystem` and its siblings in their
order. `Appear` is the bridge at work between two GETs. `missed` (a GET failed
that would have found something) and `before` (the server when the request
began) are history variables for the properties. `Nodes` and `Edges` are what the
lens draws; `SemLinkFacts` and `CsapiFacts` count the lines of text against the
limits of `appendFacts` and its siblings. Requests share nothing but what they
read, so one at a time is all there is.

An operator that is published and whose stream is not yet is shown with any
operator's position stream (graph_view.go:671). `OwnOnceMaterialized` therefore
asks for the operator's own stream to be there before it forbids another's: the
code means it as a fallback, and no document says otherwise. Likewise an event
that is not a message's own is taken for it when its payload contains the
message's id (`filterCSAPIByIDOrProperty`, graph_view.go:1066), and the lens then
shows the sender of that event, who may be another operator: `NamedBy` are these
events, and the property allows them and their senders.

### 2.7 Command gate (`CommandGate`)

`step[c]` is where a call of `Transmit` is: before its loop (`idle`), at the
three interface calls of an attempt (`send`, `await`, `poll`), returned
(`ended`), handed to the store (`recorded`). `frames`, `acks` and `observed` are
the evidence of its `TransmitResult`; the rest of the result is the request.
`Begin` is everything up to the loop, `Refusal` its early returns in their
order. `Takes` is the test of transmit.go:198, which looks at the command and
the result of an acknowledgement and at nothing else. A frame is
`<<call, attempt>>` on the link, for the vehicle its request names (`Addressee`),
and may be heard any number of times. `Heard` is what the observer may hand out,
to any call: an acceptance or a refusal of a vehicle that has given one
(`executed`, `refused`), and any acknowledgement, of this command or another, of a
vehicle that has answered another ground station (`foreign`). The observer is
told the target (the stub in `e2e/fast.go`, which stands for a vehicle that
accepts, fills it in), but `Transmit` does not compare: `transmit_test.go:15-41`
has system 42 accept a command for target 1.
`AcceptedOnEvidence` therefore promises that the acceptance a call goes by is one
of this command, by a vehicle that accepted a frame of this gate or has answered
another ground station, and not that it is the vehicle the call is for. Nor has a caller to
record its result: `RecordCommandGateResult` may follow a call or not, and the
production code records only what the hand-off API turned away
(`RejectHandoffHardwareCommand`).
`Check` compares normalised spellings, and `Normalize` is given by a table of
the spellings the instance uses. `encode-failed` is left out: `EncodeV2` fails
only on long payloads and unknown messages, and the gate makes neither.

`AttemptsFitByte` is an assumption the code does not enforce: `MaxAttempts` is
the caller's, 3 by default. It is needed for `RetriesTellApart` only, which says
nothing of a gate that allows more than 256 attempts: there the numbers wrap.

## 3. Runs

Deadlock is checked except where noted.

| Run | Instance | Shows |
|---|---|---|
| `mesh_relay` | 3 nodes, 3 links (two relays that pull from each other), 1 cell, 4 summaries with ties, 1 restart, 2 ticks | types, provenance, `EmptyDiffMeansCaughtUp`, refinement of `MeshRegisters`, `Converges` |
| `mesh_catchup` | line of 3 nodes, 4 facts, `MaxItems` 1 | bounded catch-up of facts published in entity order converges and sends nothing twice |
| `mesh_bounded` (violation) | 2 nodes, 2 facts, `MaxItems` 1 | bounded catch-up of a cell whose newest fact sorts first never ends |
| `graph_client` | 2 writers, 1 entity, 2 calls each, 2 purges | types, `NotFoundOnlyIfLostMeanwhile`, refinement of `GraphWrites` |
| `pipeline_settles` | 1 vehicle, buffer 1, batch 1, 2 frames of every kind, 1 failed and perhaps late write, 2 ticks | types, `FramesAccounted`, `DropsShownOrComing`, `LostHasAlert`, `StoreSettles`, `SilenceReachesGraph`, `LostShowsRevision` |
| `pipeline_behind` (violation) | 1 vehicle, 2 frames | a talking vehicle is declared lost while the projector is behind |
| `operator_writes` | UDP and one TCP connection with a shared UID, 2 requests at a time of 5 kinds, 3 operations, 1 failed and perhaps late write, a list of 2, 1 tick | types, `StoreAgreesWithGraph`, `RevisionsAreReal`, `ListedAreWritten`, `TwinsAgree`, `NoEcho` |
| `csapi_arrive` | 1 vehicle, alert, operator, its message, 2 commands in a list of 1, 1 fault | types, `PublishesInOrder` (refinement of `CsapiServer`), `FactsArrive`, `CommandsArriveOrAgeOut` |
| `csapi_readings` | 1 vehicle, 2 streams, 4 times, 1 fault | `ReadingsCatchUp` |
| `csapi_spaced` (violation) | 1 vehicle, 1 stream, 3 times, 1 fault | two observations within the interval after a lost reply |
| `graph_view` | 1 vehicle with an alert and 2 commands, 2 operators of one callsign, 1 marker, 3 messages of two senders, the payload of one with the id of another's; a server of up to 5 resources, of which 1 may appear during the request | types and limits, `EdgesJoinNodes`, `CompleteUnlessMissed`, `PendingMeansAbsent`, `OwnOnceMaterialized`, `Answered` |
| `command_gate` | 2 calls, 18 requests, 2 vehicles that another ground station may command too, 2 attempts, bytes modulo 2, a list of 1 | types, `OnlyClearedFrames`, `RetriesTellApart`, `AcceptedOnEvidence`, `ViewsCarryEvidence`, `SilentOnceTaken` |

*Bounds, and why they are enough to be interesting.* Mesh: a relay needs three
nodes, and a cycle among the two that do not own the cell lets old answers chase
new ones. Two versions of one entity around one of another give a cell that is
newer, a cell that differs only in its digest, and an expiry that removes a fact
from a digest. One restart puts every phase of a pull next to a fresh index.
Graph client: two calls of two writers are what it takes for a late request of a
first call to land in a later one, and two purges let an entity vanish in the
call and again in its fallback. Pipeline: a buffer of one overflows at the
second frame, two ticks with `LostAfter` 1 cross the boundary of silence, and each
goroutine may be stopped at each call while the other runs; larger buffers and
fleets are the business of the proofs. The one frame that
is dropped may be so between any two calls of the projector, so that each of the
two may record an older figure than the other. Operators: two readers and two requests
meet on one entity, the third operation finds the list full or the view
replaced, and one tick separates twins from commands that only look alike. The
events run through every combination of the features the translation tests.
Bridge: between its
two runs the walk has an item of each kind, and the fault may be any of failure,
lost reply, late arrival and crash, at each POST. Graph view: five resources hold
a vehicle with its stream, control stream and both commands, or with an event in
place of a command, two operators with their streams, or two messages with both
operators that sent them; the one that appears late can come before any GET. The
server of the run is every one that `CsapiServer` allows within the bound. Gate: the requests are a valid
one, one for the other vehicle, and all that depart from the first in one place, two attempts make a retry, and
with bytes modulo 2 confirmation and sequence wrap at the bound that
`AttemptsFitByte` allows.

The bounds are named: `MaxTime`, `MaxRestarts`, `MaxCalls`, `MaxPurges`,
`MaxFrames`, `MaxBegun`, `MaxFailures`, `MaxFaults`, `MaxLater`, `MaxServer` bound the environment and not the code
(a mesh summary is published once). `MaxItems`, `Capacity`, `BatchSize`,
`MaxCommands`, `Interval`, `LostAfter`, `MaxAttempts`, `MaxGates`, `GraphFacts`,
`LensFacts`, `MaxFacts` are settings or literals of the code, taken small.

`CHECK_DEADLOCK FALSE` appears in `GraphClient.cfg` (writers make a bounded
number of calls and stop), in the `Pipeline` configurations (clock and source
are bounded, and tickers that find nothing change nothing) and in
`OperatorWrites.cfg` (operations are bounded).

*Symmetry* is used for the writers of `GraphClient` and the requests of
`OperatorWrites`, which have no liveness property. The nodes, carriers and
vehicles of the models have different roles or an order.

*Fairness.*

* `MeshSync!Fairness`: every link starts its pulls (`WF` of `BeginPull`), runs
  its loop (`WF` of `ApplyItem`), and a request repeated for ever is answered
  sooner or later (`SF` of `Serve`). The code leaves the schedule of pulls to
  its caller; a mesh that is not pulled from promises nothing. Publication,
  time and restarts are not fair.
* `Pipeline!Fairness`: goroutines run and the monitor's ticker fires; a graph
  write ends because of its two-second context, in success or in failure.
  Telemetry and the clock are not fair: the properties must not need another
  frame to come true.
* `CsapiBridge!FairSpec`: the ticker fires and each POST ends within
  `RequestTimeout`. Late POSTs need not arrive. The number of failures is
  bounded, so a server that works in the end is part of the promise.
* `GraphView!FairSpec`: the handler goes on (`WF` of `Handle`): every GET ends
  within the two seconds of its client, in an answer or an error. That the bridge
  goes on posting is not assumed.

`CommandGate` has no liveness property: `Transmit` sets no time limit of its own, and
whether its interfaces return is up to whoever makes them and the context.

## 4. What disagrees with the documents

Three violation runs, each of a sentence in the repository (quoted in
`PROJECT.json` "findings"):

1. `mesh_bounded`. `Diff` cuts its selection at the head in entity order. When
   the requester has the newest fact of a cell but not all of it, the digest
   repair selects the whole cell each time and the cut brings the same item each
   time. `TestUnreliableLinkBoundedCatchUpProgressesAcrossReconnects` publishes
   in entity order, where it works (`mesh_catchup`).
2. `pipeline_behind`. Silence is measured on frames applied, not on frames
   received.
3. `csapi_spaced`. The observation interval is kept against what the bridge
   remembers, and a lost reply or a restart is something it does not remember.

## 5. Proofs

All proved by `tlapm` for every value of the constants that satisfies the named
assumptions of the modules: any number of nodes, writers, vehicles, carriers,
requests, items and faults, any capacity and any bound.

| Theorem | Statement |
|---|---|
| `MeshSyncProofs!TypeCorrect` | `Spec => []TypeOK` |
| `MeshSyncProofs!Provenance` | `Spec => []OnlyPublishedSummaries` |
| `MeshSyncProofs!Monotonic` | `Spec => NoRegress` |
| `MeshSyncProofs!Implementation` | `Spec => Registers!Spec` |
| `MeshSyncProofs!EmptyDiffTruthful` | `Spec => []EmptyDiffMeansCaughtUp`, if operation ids are unique |
| `MeshSyncProofs!NothingSentTwice` | `Spec => OnlyMissingOrNewer`, if `OrderedMesh` |
| `GraphClientProofs!TypeCorrect` | `Spec => []TypeOK` |
| `GraphClientProofs!NotFoundMeansLost` | `Spec => []NotFoundOnlyIfLostMeanwhile` |
| `GraphClientProofs!Implementation` | `Spec => ImplementsGraphWrites` |
| `PipelineProofs!TypeCorrect` | `Spec => []TypeOK` |
| `PipelineProofs!EveryFrameAccounted` | `Spec => []FramesAccounted` |
| `PipelineProofs!DropsNeverLeftBehind` | `Spec => []DropsShownOrComing` |
| `PipelineProofs!LostAlwaysHasAlert` | `Spec => []LostHasAlert` |
| `OperatorWritesProofs!TypeCorrect` | `Spec => []TypeOK` |
| `OperatorWritesProofs!RevisionsReal` | `Spec => []RevisionsAreReal` |
| `OperatorWritesProofs!ListedWritten` | `Spec => []ListedAreWritten` |
| `OperatorWritesProofs!TwinsShowOneRevision` | `Spec => []TwinsAgree` |
| `OperatorWritesProofs!OwnTrafficIsIgnored` | `Spec => []NoEcho` |
| `OperatorWritesProofs!OneConnectionAgrees` | `Spec => []StoreAgreesWithGraph` |
| `CsapiBridgeProofs!TypeCorrect` | `Spec => []TypeOK` |
| `CsapiBridgeProofs!ParentsAlwaysFirst` | `Spec => []ParentsFirst` |
| `CsapiBridgeProofs!MemoryAlwaysTrue` | `Spec => []MemoryIsTrue` |
| `CsapiBridgeProofs!ImplementsServer` | `Spec => PublishesInOrder` |
| `GraphViewProofs!TypeCorrect` | `Spec => []TypeOK` (with the limits on facts) |
| `GraphViewProofs!WellFormed` | `Spec => []EdgesJoinNodes` |
| `GraphViewProofs!Completeness` | `Spec => []CompleteUnlessMissed` |
| `GraphViewProofs!HonestPending` | `Spec => []PendingMeansAbsent` |
| `GraphViewProofs!OwnLens` | `Spec => []OwnOnceMaterialized` |
| `CommandGateProofs!TypeCorrect` | `Spec => []TypeOK` |
| `CommandGateProofs!FramesAreCleared` | `Spec => []OnlyClearedFrames` |
| `CommandGateProofs!RetriesAlwaysApart` | `Spec => []RetriesTellApart`, if `AttemptsFitByte` |
| `CommandGateProofs!AcceptedHasEvidence` | `Spec => []AcceptedOnEvidence` |
| `CommandGateProofs!TakenIsLeftAlone` | `Spec => SilentOnceTaken` |
| `CommandGateProofs!ViewsAlwaysCarryEvidence` | `Spec => []ViewsCarryEvidence` |

*Mesh.* `IndInv == TypeOK /\ OnlyPublishedSummaries` is inductive as a pair: the
type of watermarks (one valid watermark per cell, with the stamps of an item)
needs every filed item to be a published one under its own key, and provenance
needs the types. `Monotonic` and `Implementation` follow from `UpsertStep` (an
upsert moves one register to a version that beats it) and `StepShape` (three
kinds of step touch an index). `EmptyDiffTruthful` is the deep one. The peer
judges watermarks that were true when they were read; `MarksHonest` says what
they are still worth when they arrive: every fact they digest is one the
requester has at least that new. It is preserved because an index only moves
forward (`LacksForward`) and because a restart gives up the pull. If `Diff` is
then empty, the peer's digest of each cell equals the requester's
(`NothingSelected`, from `TopIsNewest`: a cell cannot be ahead and send nothing;
`TruncateNonempty`: the cut leaves something), so the peer's facts are among
those the requester had. The last step needs `OperationsAreUnique`, because the
digest names a version by its operation id; every publisher in the repository
makes its ids unique, and the model-checked instances assume it too.

`NothingSentTwice` is about a sentence of the specification, that a peer sends
only what is missing or newer, which the code keeps under conditions only:
`OrderedMesh` names them, and `mesh_catchup` is an instance. Each is needed.
Facts out of entity order are cut in the wrong place (`mesh_bounded`); an expiry
or a restart makes digests differ between nodes with one newest fact, and the
repair then sends the cell whole; with two peers, or an owner that pulls, an
answer may be overtaken by another. `OrdInv` is the invariant: a node that has a
version has everything published before it in the cell (`NoGaps`); what it has,
its peer has (`PeersAhead`); an answer is closed under "older" up to what the
requester has (`AnswersWhole`), which truncation keeps because the order of
entities is that of stamps (`TruncateKeepsFirst`); and the watermarks on their way
are those of the index as it is (`MarksCurrent`). From the first two, a peer whose
newest fact is not newer has the very same cell (`SameCell`), so the digest repair
is never taken. The invariant was checked by TLC on the instance of `mesh_catchup`
with a second cell and a raw frame before it was proved.

*Graph client.* `IInv` adds to the types: `InOrder` (a writer's calls follow one
another, and only a call under way awaits a reply), `InFlight` (a request in
flight is the only one of its call, which has not written yet), `Replies` (what a
reply says is what the service did) and `Losses` (a call that was told its entity
exists finds it again, unless the graph has lost it since the call began).
`Implementation` hides the steps of a call, the cache and the network: what
remains of each step is a step of `GraphWrites` or a stutter, because a request
that lands belongs to a call that has neither written nor succeeded.

*Pipeline.* `LostHasAlert` is about the store, which is made of snapshots that
were taken earlier. `Shots` says of a snapshot on its way what `LostTold` says
of the projector: a lost vehicle comes with its alert, because
`CheckLinkTimeouts` changes both under one lock. `Writing` (graph writes are left
only during a run, and the one whose revision is to be recorded is the next of
them) rules out that a goroutine records a write it does not have. The fleet is
finite, which the order in which the monitor visits silent vehicles needs.
`DropsShownOrComing` needs to know that only the source makes the buffer drop a
frame, and that it then leaves one in the buffer and has the figure yet to
record: the projector can put an older figure last only while frames are waiting
for it, or the source has more to record.

*Operators.* `JobFacts`, `ViewsReal` and `CommandsReal` tie the revision a
goroutine has in hand, and those the store shows, to the writes of the graph.
`TwinsMeet` is the strengthening behind `TwinsAgree`: commands with one id that
differ in revision do so only while a request is about to set it for all of them.
For `StoreAgreesWithGraph` the stronger `JInv` adds that a reader works on what
it hears (`ReadersHear`), that other UIDs have no view (`OnlyUids`) and, of an
entity with one reader and no failed write, `Settles`: its view is the last
write, or the reader is about to write what the view shows, or has and is about
to record the revision. `NoEcho` comes from the case analysis of `KindOf` on what
`Marshal` makes of the bridge's events (`WireKeeps`, `HeardFacts`), for any
snapshot.

*Bridge.* `ParentsFirst` alone is not inductive: a POST may rely on the bridge's
memory, and a late POST may arrive after a crash. `IInv` adds `MemoryIsTrue`
(what is remembered is on the server) and `LateHasParents` (a POST given up had
its parents on the server when it was made, and the server forgets nothing).
`ItemFacts` shows that with each resource an item needs its parents at an
earlier stage, and `NextPostFacts` that the POST made next therefore has them;
`ImplementsServer` follows.

*Graph view.* The properties speak of the lens that is answered, and none is
inductive: what a lens shows at its end was read in steps long past. `IInv`
(theorem `ViewInvariant`) says after each step what is known of the lens so far.
`Held`: what was read is of the collection that was asked, and still there.
`Rooted`: nothing hangs from a root that was not found, a live lens ends with
one, and the sender of a message is looked for only while it has none. `ToGet`
bounds what is fetched one by one. `Complete` says for each phase what has been
read in full if no GET failed: the root first, then streams, events, control
streams, commands, in the order of the code; `CommandsFound` needs that control
streams are read before commands, and that the server a request begins with has
the parents of all it has (`Closed`, which is what `CsapiServer` promises and the
bridge is proved to keep). `Pending` and `Own` are the properties themselves,
of every phase. `Own` needs that a search finds the entity's own root when it is
there (`MatchFacts`), that an operator's search of the streams never falls back
once its own stream is there (`OwnStreamFacts`), and that an event found for a
message is its own or names it (`NamedBy`). `AppendAllFacts` and
`ListAllFacts` say that nothing is lost or added when a set of resources becomes a
list, whatever order the server answers in; that the server is finite is part of
`IInv`. `CsapiLimit` and `SemLinkLimit` are the arithmetic behind the limit of
twelve facts. `ViewAssumption` keeps `None` apart from the resources, and
`StoreAssumption` says that a store keeps finitely many items and that a vehicle
has metrics, without which it would have no stream to ask for.

The proofs found two faults of the model. `FetchRoot` chose its next phase by
overlapping conditions, which leaves the choice open. And
`OwnOnceMaterialized` used to forbid the sender of an event that names the
message: true in an instance where all messages had one sender, and refused by
the proof, with the run's present instance as the counterexample.

*Gate.* `IInv` adds to the types what links a call's evidence to its place in
the loop: `FramesCounted` (what has frames was cleared, and the loop is at its
head only while attempts are left), `FramesNumbered` (the i-th frame carries
i - 1, modulo a byte) and `TakenOnce` (a call that may still send has taken no
acknowledgement, one that polls or is accepted has taken one, and what is taken
comes from a vehicle in `executed` or `foreign`). `HeardFacts` is what makes it so:
an acceptance of the command is heard from no other vehicle, and that the source
is a vehicle at all rests on `Refusal`, which lets no call without a target
come to its loop. `ShiftApart` is
the arithmetic of the sequence: numbers below the modulus stay apart when the
same byte is added to them. `KInv` adds `Gathered` (a call that awaits or polls has
what it takes to be there, an accepted one has all its evidence, a blocked one has
no frame) and `GatesTold` (a gate result in the store is as good as its call, and
stays so while others go on).

*Model-checked only.* Liveness (`Converges`, `StoreSettles`,
`SilenceReachesGraph`, `LostShowsRevision`, `FactsArrive`,
`CommandsArriveOrAgeOut`, `ReadingsCatchUp`, `Answered`):
temporal proofs under fairness are out of the prover's reach. The safety and
action properties of the runs are all stated by theorems, some under the named
conditions `OperationsAreUnique`, `OrderedMesh` and `AttemptsFitByte`.

## 6. What could follow

1. The set of outbound TAK clients: one that is accepted after `closeClients` has
   run stays in the map, and only its own goroutine closes it.
2. The framing of datagrams in `mavlink/udp_source.go` and the thresholds of
   `rules/`, against reference definitions.

## 7. Not modelled, and why

* Codecs (`mavlink/frame.go`, `messages.go`, `crc.go`, `cot/`): byte layouts.
* The embedded NATS server, graph-ingest and the CS API server: outside the
  repository, modelled by what the code distinguishes of them.
* The runtime (`semstreams/runtime.go`): a ladder of start-up steps, run once and
  in order, around a library; a step that fails ends the process.
* The set of outbound TAK clients, and rule traces: nothing else reads them.
* `mavlink/udp_source.go`: one datagram is framed at a time, and no state is kept
  from one to the next. `Pipeline` takes frames as they come out of it, bad ones
  included.
* `rules/`: a stateless evaluation of two thresholds.
* The other HTTP handlers, JSON documents and the evidence view: functions of one
  snapshot or one call.
* `e2e/`, `companion/`, `handoff/`, `semops/`, `blueos/`, `sitl/`, `cmd/`: test
  drivers, configuration and wiring; read as the source of what callers do.
* `ui/`, `scripts/`, `docker/`, `configs/`: presentation and deployment.
