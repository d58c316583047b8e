------------------------------ MODULE MeshSync ------------------------------
(***************************************************************************)
(* Companion nodes that replicate selected summaries by pulling from their *)
(* peers (internal/mesh: SummaryIndex, HTTPTransport.PullFrom and the diff *)
(* handler that answers it).                                               *)
(*                                                                         *)
(* A pull is three steps, as in PullFrom: the requester reads its own      *)
(* watermarks and posts them; the peer answers with the diff of its index  *)
(* against them; the requester upserts the answer item by item. Each of    *)
(* these takes the index lock for itself only, so pulls over other links,  *)
(* publications, the clock and crashes run in between. A request or an     *)
(* answer may be lost (the peer keeps no state, so losing either is the    *)
(* same) and a pull may be started again at any time.                      *)
(***************************************************************************)
EXTENDS MeshOrder

CONSTANTS
    Nodes,        \* companion nodes
    Links,        \* <<n, p>>: n has p among its peer URLs
    Cells,        \* origin/state cells, as ranks
    Entities,     \* entity ids, as ranks
    Origin,       \* the node that owns a cell
    Items,        \* the summaries origins may publish
    InOrder,      \* whether owners publish each cell in the order of its stamps
    MaxItems,     \* DiffOptions.MaxItems, 0 for no bound
    MaxTime,      \* bound: the clock stops there
    MaxRestarts   \* bound: crashes of companion processes

Keys == Cells \X Entities

\* Watermarks of one cell.
Marks ==
    [seq : Nat, hlc : Nat, op : Nat,
     hash : SUBSET {<<it.entity, it.op, it.hash>> : it \in Items}]

ASSUME LinksAssumption == Links \subseteq Nodes \X Nodes
ASSUME CellsAssumption == Cells \subseteq Nat /\ Entities \subseteq Nat
ASSUME OriginAssumption == Origin \in [Cells -> Nodes]
ASSUME ItemsAssumption ==
    /\ IsFiniteSet(Items)
    /\ \A it \in Items :
          /\ it.cell \in Cells /\ it.entity \in Entities
          /\ it.seq \in Nat /\ it.hlc \in Nat /\ it.op \in Nat /\ it.exp \in Nat
          /\ it.kind \in SourceKinds
ASSUME NoneAssumption == None \notin Items /\ None \notin Marks
ASSUME BoundsAssumption ==
    InOrder \in BOOLEAN /\ MaxItems \in Nat /\ MaxTime \in Nat \ {0} /\ MaxRestarts \in Nat

VARIABLES
    now,         \* the wall clock the demo passes as DiffOptions.Now
    restarts,    \* crashes so far
    published,   \* what origins have handed to their own index
    index,       \* SummaryIndex.items of every node
    pull         \* the PullFrom call under way on a link

vars == <<now, restarts, published, index, pull>>

\* Fault: an index whose map was never made.
EmptyIndex_Nil == <<>>

EmptyIndex == [k \in Keys |-> None]
NoMarks == [c \in Cells |-> None]
Idle == [phase |-> "idle", at |-> 0, marks |-> NoMarks, items |-> {}]

Init ==
    /\ now = 1
    /\ restarts = 0
    /\ published = {}
    /\ index = [n \in Nodes |-> EmptyIndex]
    /\ pull = [l \in Links |-> Idle]

-----------------------------------------------------------------------------

Tick ==
    /\ now < MaxTime
    /\ now' = now + 1
    /\ UNCHANGED <<restarts, published, index, pull>>

\* An origin builds a summary of its own cell and upserts it at home, raw
\* frames included: the index is what turns those away. Stamps are the
\* caller's; nothing in the index asks for them to come in order.
Publish(it) ==
    /\ it \notin published
    /\ it.exp > now
    /\ InOrder => \A o \in published : o.cell = it.cell => Newer(it, o)
    /\ published' = published \union {it}
    /\ index' = [index EXCEPT ![Origin[it.cell]] = Upsert(@, it)]
    /\ UNCHANGED <<now, restarts, pull>>

\* PullFrom reads the watermarks of its own index and posts the request.
BeginPull(n, p) ==
    /\ pull[<<n, p>>].phase = "idle"
    /\ pull' = [pull EXCEPT ![<<n, p>>] =
                  [phase |-> "asked", at |-> now, items |-> {},
                   marks |-> Watermarks(CurrentItems(index[n], now), Cells)]]
    /\ UNCHANGED <<now, restarts, published, index>>

\* handleDiff: the peer's current items, at the time the request names,
\* against the requester's watermarks.
Serve(n, p) ==
    LET asked == pull[<<n, p>>]
        items == Diff(CurrentItems(index[p], asked.at), asked.marks, MaxItems)
    IN  /\ asked.phase = "asked"
        /\ pull' = [pull EXCEPT ![<<n, p>>] =
                      IF items = {} THEN Idle
                      ELSE [phase |-> "applying", at |-> 0,
                            marks |-> NoMarks, items |-> items]]
        /\ UNCHANGED <<now, restarts, published, index>>

\* The request or its answer is lost, or the client's timeout fires: PullFrom
\* returns an error and has changed nothing.
LosePull(n, p) ==
    /\ pull[<<n, p>>].phase = "asked"
    /\ pull' = [pull EXCEPT ![<<n, p>>] = Idle]
    /\ UNCHANGED <<now, restarts, published, index>>

\* One turn of PullFrom's loop: the answer is applied in sort order.
ApplyItem(n, p) ==
    \E it \in pull[<<n, p>>].items :
        LET rest == pull[<<n, p>>].items \ {it}
        IN  /\ \A o \in rest : SortsBefore(it, o)
            /\ index' = [index EXCEPT ![n] = Upsert(@, it)]
            /\ pull' = [pull EXCEPT ![<<n, p>>] =
                          IF rest = {} THEN Idle ELSE [@ EXCEPT !.items = rest]]
            /\ UNCHANGED <<now, restarts, published>>

\* The index and the pulls live in memory: a process that comes back has
\* neither. Its peers' pulls from it are answered by the new process.
Restart(n) ==
    /\ restarts < MaxRestarts
    /\ restarts' = restarts + 1
    /\ index' = [index EXCEPT ![n] = EmptyIndex]
    /\ pull' = [l \in Links |-> IF l[1] = n THEN Idle ELSE pull[l]]
    /\ UNCHANGED <<now, published>>

Next ==
    \/ Tick
    \/ \E it \in Items : Publish(it)
    \/ \E l \in Links : \/ BeginPull(l[1], l[2])
                        \/ Serve(l[1], l[2])
                        \/ LosePull(l[1], l[2])
                        \/ ApplyItem(l[1], l[2])
    \/ \E n \in Nodes : Restart(n)

Spec == Init /\ [][Next]_vars

\* Peers are pulled from again and again, a started pull goes on by itself,
\* and a link that is asked for ever does not lose every request.
Fairness ==
    \A l \in Links : /\ WF_vars(BeginPull(l[1], l[2]))
                     /\ SF_vars(Serve(l[1], l[2]))
                     /\ WF_vars(ApplyItem(l[1], l[2]))

FairSpec == Spec /\ Fairness
-----------------------------------------------------------------------------
(* Properties.                                                             *)

\* Every node keeps a map from cell and entity to a summary, every pull
\* carries the watermarks of PullFrom's request, one valid watermark per cell
\* (what WatermarkSet.Validate asks for), or the summaries of its answer.
TypeOK ==
    /\ now \in 1..MaxTime
    /\ restarts \in 0..MaxRestarts
    /\ published \subseteq Items
    /\ index \in [Nodes -> [Keys -> Items \union {None}]]
    /\ pull \in [Links -> [phase : {"idle", "asked", "applying"},
                           at : 0..MaxTime,
                           marks : [Cells -> Marks \union {None}],
                           items : SUBSET Items]]

\* Nothing is made up on the way and nothing local leaks: whatever a node has
\* filed, under the key it belongs to, and whatever an answer still carries,
\* is a summary its owner published and that replicates. So the error return
\* inside PullFrom's loop, which would leave an answer half applied, is never
\* taken between nodes that run this code.
OnlyPublishedSummaries ==
    /\ \A n \in Nodes, k \in Keys :
          LET it == index[n][k]
          IN  it # None => KeyOf(it) = k /\ it \in published /\ Accepts(it)
    /\ \A l \in Links : \A it \in pull[l].items : it \in published /\ Accepts(it)

\* A late, repeated or overlapping answer never takes a node back: what is
\* filed under a key stays, expired or not, until a newer version replaces it
\* or the process restarts.
NoRegress ==
    [][\A n \in Nodes, k \in Keys :
          index'[n][k] # index[n][k] =>
             \/ index[n][k] = None
             \/ index'[n][k] # None /\ Newer(index'[n][k], index[n][k])
             \/ restarts' # restarts]_vars

\* n has no version of the fact, or only an older one.
Lacks(n, it) == index[n][KeyOf(it)] = None \/ Newer(it, index[n][KeyOf(it)])

CaughtUp(n, p, t) == \A it \in CurrentItems(index[p], t) : ~Lacks(n, it)

\* An operation id names one version of one fact, as the ids that e2e/fast.go
\* makes (node:vehicle:sequence) do. The digest tells versions apart by it.
OperationsAreUnique ==
    \A i, j \in Items : i.cell = j.cell /\ i.op = j.op => i = j

\* "Nothing to send" is never a mistake: when a peer answers a pull with no
\* items, the requester already has every unexpired fact of the peer at least
\* as new, although the peer only saw stale watermarks and a digest.
EmptyDiffMeansCaughtUp ==
    \A l \in Links :
        /\ pull[l].phase = "asked"
        /\ Diff(CurrentItems(index[l[2]], pull[l].at), pull[l].marks, MaxItems) = {}
        => CaughtUp(l[1], l[2], pull[l].at)

\* Selected summaries become visible: once origins have stopped publishing
\* and processes have stopped crashing, every node catches up with every peer
\* it pulls from and stays caught up, whatever was lost on the way.
Converges == <>[](\A l \in Links : CaughtUp(l[1], l[2], now))

\* "Each peer sends only missing or newer selected summaries"
\* (openspec/specs/mesh-synchronization/spec.md:37).
OnlyMissingOrNewer ==
    [][\A l \in Links :
          pull[l].phase = "asked" /\ pull'[l].phase = "applying" =>
             \A it \in pull'[l].items : Lacks(l[1], it)]_vars

\* Where that is so: origins publish in the order of their stamps, which is also
\* that of the entities; nothing expires and no process restarts; a node pulls
\* from at most one peer, and from none if it owns a cell.
OrderedMesh ==
    /\ InOrder /\ MaxRestarts = 0
    /\ \A it \in Items : it.exp > MaxTime
    /\ \A i, j \in Items : i.cell = j.cell /\ Newer(i, j) => i.entity >= j.entity
    /\ \A k, l \in Links : k[1] = l[1] => k = l
    /\ \A l \in Links, c \in Cells : l[1] # Origin[c]

\* The protocol implements last-writer-wins registers.
Registers == INSTANCE MeshRegisters WITH register <- index
ImplementsRegisters == Registers!Spec
=============================================================================
