--------------------------- MODULE MeshSyncProofs ---------------------------
(***************************************************************************)
(* Proofs about MeshSync for any nodes, links, items and bounds.           *)
(***************************************************************************)
EXTENDS MeshSync, MeshOrderProofs

\* What the assumptions on the constants say of one summary.
LEMMA ItemFacts ==
    ASSUME NEW it \in Items
    PROVE  /\ Stamped(it) /\ it # None
           /\ it.cell \in Cells /\ it.cell \in Nat
           /\ it.entity \in Entities /\ it.entity \in Nat
           /\ KeyOf(it) \in Keys
           /\ Origin[it.cell] \in Nodes
BY ItemsAssumption, NoneAssumption, CellsAssumption, OriginAssumption
DEF Stamped, KeyOf, Keys

\* A link is a requester and one of its peers.
LEMMA LinkIsPair ==
    ASSUME NEW l \in Links
    PROVE  l = <<l[1], l[2]>> /\ l[1] \in Nodes /\ l[2] \in Nodes
BY LinksAssumption

\* What CurrentItems reads out of an index: finitely many published items,
\* each of them filed under its own key.
LEMMA CurrentItemsFacts ==
    ASSUME TypeOK, OnlyPublishedSummaries, NEW n \in Nodes, NEW t
    PROVE  /\ CurrentItems(index[n], t) \subseteq Items
           /\ IsFiniteSet(CurrentItems(index[n], t))
           /\ WellKeyed(CurrentItems(index[n], t))
           /\ \A it \in CurrentItems(index[n], t) :
                 it \in published /\ Accepts(it) /\ index[n][KeyOf(it)] = it
<1> DEFINE S == CurrentItems(index[n], t)
<1>1. ASSUME NEW it \in S
      PROVE  it \in Items /\ it \in published /\ Accepts(it) /\ index[n][KeyOf(it)] = it
  <2>1. PICK k \in Keys : it = index[n][k] /\ it # None
    BY DEF CurrentItems, Filed, TypeOK
  <2> QED BY <2>1 DEF OnlyPublishedSummaries, TypeOK
<1>2. S \subseteq Items
  BY <1>1
<1>3. IsFiniteSet(S)
  BY <1>2, ItemsAssumption, FS_Subset
<1>4. WellKeyed(S)
  BY <1>1, ItemFacts DEF WellKeyed
<1> QED BY <1>1, <1>2, <1>3, <1>4

\* Watermarks of an index are watermarks a peer's Validate accepts.
LEMMA WatermarksType ==
    ASSUME NEW S \in SUBSET Items, WellKeyed(S)
    PROVE  Watermarks(S, Cells) \in [Cells -> Marks \union {None}]
<1> SUFFICES ASSUME NEW c \in Cells, InCell(S, c) # {}
             PROVE  Watermark(InCell(S, c)) \in Marks
  BY DEF Watermarks
<1> DEFINE C == InCell(S, c)
<1>1. C \subseteq S /\ C \subseteq Items
  BY DEF InCell
<1>2. Top(C) \in Items
  <2>1. IsFiniteSet(C) /\ WellKeyed(C)
    BY <1>1, ItemsAssumption, FS_Subset DEF WellKeyed
  <2> QED BY <1>1, <2>1, TopIsNewest
<1>3. HashCell(C) \subseteq {<<it.entity, it.op, it.hash>> : it \in Items}
  BY <1>1 DEF HashCell
<1> QED BY <1>2, <1>3, ItemFacts DEF Watermark, Marks, Stamped

-----------------------------------------------------------------------------
(* Types and provenance, which need each other: watermarks are well formed *)
(* because an index files no two items under one key.                      *)

IndInv == TypeOK /\ OnlyPublishedSummaries

\* A mesh of fresh indexes (NewSummaryIndex) is well typed and holds nothing.
LEMMA InitIndInv == Init => IndInv
BY BoundsAssumption DEF Init, IndInv, TypeOK, OnlyPublishedSummaries, Idle, NoMarks, EmptyIndex

\* Upserting a published item of the node's own, or of an answer, keeps the
\* index in order.
LEMMA UpsertKeeps ==
    ASSUME IndInv, NEW n \in Nodes, NEW it \in Items, it \in published',
           published \subseteq published',
           index' = [index EXCEPT ![n] = Upsert(@, it)]
    PROVE  /\ index' \in [Nodes -> [Keys -> Items \union {None}]]
           /\ \A m \in Nodes, k \in Keys :
                 index'[m][k] # None =>
                    /\ KeyOf(index'[m][k]) = k
                    /\ index'[m][k] \in published' /\ Accepts(index'[m][k])
<1> DEFINE V == Items \union {None}
<1>1. KeyOf(it) \in Keys /\ it \in V
  BY ItemFacts
<1>2. index[n] \in [Keys -> Items \union {None}]
  BY DEF IndInv, TypeOK
<1>3. /\ Upsert(index[n], it) \in [Keys -> Items \union {None}]
      /\ \A k \in Keys :
            \/ Upsert(index[n], it)[k] = index[n][k]
            \/ k = KeyOf(it) /\ Upsert(index[n], it)[k] = it /\ Accepts(it)
  <2> HIDE DEF V
  <2>1. index[n] \in [Keys -> V]
    BY <1>2 DEF V
  <2>2. /\ Upsert(index[n], it) \in [Keys -> V]
        /\ \A k \in Keys :
              \/ Upsert(index[n], it)[k] = index[n][k]
              \/ /\ k = KeyOf(it) /\ Upsert(index[n], it)[k] = it /\ Accepts(it)
                 /\ index[n][k] = None \/ Newer(it, index[n][k])
    BY <1>1, <2>1, UpsertMoves
  <2> QED BY <2>2 DEF V
<1>4. index' \in [Nodes -> [Keys -> Items \union {None}]]
  BY <1>3 DEF IndInv, TypeOK
<1>5. ASSUME NEW m \in Nodes, NEW k \in Keys, index'[m][k] # None
      PROVE  /\ KeyOf(index'[m][k]) = k
             /\ index'[m][k] \in published' /\ Accepts(index'[m][k])
  <2>1. CASE index'[m][k] = index[m][k]
    BY <1>5, <2>1 DEF IndInv, OnlyPublishedSummaries
  <2>2. CASE index'[m][k] # index[m][k]
    <3>1. m = n /\ index'[m][k] = Upsert(index[n], it)[k]
      BY <2>2 DEF IndInv, TypeOK
    <3> QED BY <1>3, <2>2, <3>1
  <2> QED BY <2>1, <2>2
<1> QED BY <1>4, <1>5

\* No publication, pull, loss or restart breaks types or provenance.
LEMMA NextIndInv == IndInv /\ [Next]_vars => IndInv'
<1> SUFFICES ASSUME IndInv, [Next]_vars PROVE IndInv'
  OBVIOUS
<1> USE DEF IndInv
<1>1. CASE Tick
  BY <1>1, BoundsAssumption DEF Tick, TypeOK, OnlyPublishedSummaries
<1>2. ASSUME NEW it \in Items, Publish(it) PROVE IndInv'
  <2>1. /\ index' \in [Nodes -> [Keys -> Items \union {None}]]
        /\ \A m \in Nodes, k \in Keys :
              index'[m][k] # None =>
                 /\ KeyOf(index'[m][k]) = k
                 /\ index'[m][k] \in published' /\ Accepts(index'[m][k])
    BY <1>2, ItemFacts, UpsertKeeps DEF Publish
  <2>2. TypeOK'
    BY <1>2, <2>1 DEF Publish, TypeOK
  <2>3. OnlyPublishedSummaries'
    BY <1>2, <2>1 DEF Publish, OnlyPublishedSummaries
  <2> QED BY <2>2, <2>3
<1>3. ASSUME NEW l \in Links, BeginPull(l[1], l[2]) PROVE IndInv'
  <2>1. Watermarks(CurrentItems(index[l[1]], now), Cells) \in [Cells -> Marks \union {None}]
    BY LinkIsPair, CurrentItemsFacts, WatermarksType
  <2> DEFINE marks == Watermarks(CurrentItems(index[l[1]], now), Cells)
  <2>2. /\ UNCHANGED <<now, restarts, published, index>>
        /\ pull' = [pull EXCEPT ![l] = [phase |-> "asked", at |-> now,
                                        items |-> {}, marks |-> marks]]
    BY <1>3, LinkIsPair DEF BeginPull
  <2> HIDE DEF marks
  <2>3. TypeOK'
    BY <2>1, <2>2, BoundsAssumption DEF TypeOK, marks
  <2>4. OnlyPublishedSummaries'
    BY <2>2 DEF OnlyPublishedSummaries, TypeOK
  <2> QED BY <2>3, <2>4
<1>4. ASSUME NEW l \in Links, Serve(l[1], l[2]) PROVE IndInv'
  <2> DEFINE items == Diff(CurrentItems(index[l[2]], pull[l].at), pull[l].marks, MaxItems)
  <2>1. items \subseteq Items /\ \A it \in items : it \in published /\ Accepts(it)
    <3>1. items \subseteq CurrentItems(index[l[2]], pull[l].at)
      BY DEF Diff, Truncate, Selected
    <3> QED BY <3>1, LinkIsPair, CurrentItemsFacts
  <2>2. /\ UNCHANGED <<now, restarts, published, index>>
        /\ pull' = [pull EXCEPT ![l] =
                      IF items = {} THEN Idle
                      ELSE [phase |-> "applying", at |-> 0,
                            marks |-> NoMarks, items |-> items]]
    BY <1>4, LinkIsPair DEF Serve
  <2> HIDE DEF items
  <2>3. TypeOK'
    BY <2>1, <2>2, BoundsAssumption DEF TypeOK, Idle, NoMarks
  <2>4. OnlyPublishedSummaries'
    BY <2>1, <2>2 DEF OnlyPublishedSummaries, TypeOK, Idle
  <2> QED BY <2>3, <2>4
<1>5. ASSUME NEW l \in Links, LosePull(l[1], l[2]) PROVE IndInv'
  <2>1. /\ UNCHANGED <<now, restarts, published, index>>
        /\ pull' = [pull EXCEPT ![l] = Idle]
    BY <1>5, LinkIsPair DEF LosePull
  <2>2. TypeOK'
    BY <2>1, BoundsAssumption DEF TypeOK, Idle, NoMarks
  <2>3. OnlyPublishedSummaries'
    BY <2>1 DEF OnlyPublishedSummaries, TypeOK, Idle
  <2> QED BY <2>2, <2>3
<1>6. ASSUME NEW l \in Links, ApplyItem(l[1], l[2]) PROVE IndInv'
  <2>1. PICK it \in pull[l].items :
           /\ index' = [index EXCEPT ![l[1]] = Upsert(@, it)]
           /\ pull' = [pull EXCEPT ![l] =
                         IF pull[l].items \ {it} = {} THEN Idle
                         ELSE [@ EXCEPT !.items = pull[l].items \ {it}]]
           /\ UNCHANGED <<now, restarts, published>>
    BY <1>6, LinkIsPair DEF ApplyItem
  <2>2. it \in Items /\ it \in published
    BY DEF TypeOK, OnlyPublishedSummaries
  <2>3. /\ index' \in [Nodes -> [Keys -> Items \union {None}]]
        /\ \A m \in Nodes, k \in Keys :
              index'[m][k] # None =>
                 /\ KeyOf(index'[m][k]) = k
                 /\ index'[m][k] \in published' /\ Accepts(index'[m][k])
    BY <2>1, <2>2, LinkIsPair, UpsertKeeps
  <2>4. /\ pull' \in [Links -> [phase : {"idle", "asked", "applying"}, at : 0..MaxTime,
                                marks : [Cells -> Marks \union {None}],
                                items : SUBSET Items]]
        /\ \A m \in Links : pull'[m].items \subseteq pull[m].items
    BY <2>1, BoundsAssumption DEF TypeOK, Idle, NoMarks
  <2>5. TypeOK'
    BY <2>1, <2>3, <2>4 DEF TypeOK
  <2>6. OnlyPublishedSummaries'
    BY <2>1, <2>3, <2>4 DEF OnlyPublishedSummaries
  <2> QED BY <2>5, <2>6
<1>7. ASSUME NEW n \in Nodes, Restart(n) PROVE IndInv'
  <2>1. TypeOK'
    BY <1>7, BoundsAssumption DEF Restart, TypeOK, EmptyIndex, Idle, NoMarks
  <2>2. OnlyPublishedSummaries'
    BY <1>7 DEF Restart, TypeOK, OnlyPublishedSummaries, EmptyIndex, Idle
  <2> QED BY <2>1, <2>2
<1>8. CASE UNCHANGED vars
  BY <1>8 DEF vars, TypeOK, OnlyPublishedSummaries
<1> QED BY <1>1, <1>2, <1>3, <1>4, <1>5, <1>6, <1>7, <1>8 DEF Next

\* Every reachable state has the shape TypeOK gives it.
THEOREM TypeCorrect == Spec => []TypeOK
<1>1. IndInv => TypeOK
  BY DEF IndInv
<1> QED BY InitIndInv, NextIndInv, <1>1, PTL DEF Spec

\* No node ever holds or hands on anything but what the owner published and
\* what replicates (Upsert, Diff and PullFrom together).
THEOREM Provenance == Spec => []OnlyPublishedSummaries
<1>1. IndInv => OnlyPublishedSummaries
  BY DEF IndInv
<1> QED BY InitIndInv, NextIndInv, <1>1, PTL DEF Spec
-----------------------------------------------------------------------------
(* What a step does to the registers, and the refinement.                  *)

\* Upsert at one node leaves the mesh as it is, or moves one register of that
\* node to a version that replicates and beats what was filed.
LEMMA UpsertStep ==
    ASSUME IndInv, NEW n \in Nodes, NEW it \in Items,
           index' = [index EXCEPT ![n] = Upsert(@, it)]
    PROVE  \/ index' = index
           \/ /\ Accepts(it)
              /\ index[n][KeyOf(it)] = None \/ Newer(it, index[n][KeyOf(it)])
              /\ index' = [index EXCEPT ![n][KeyOf(it)] = it]
<1>1. index \in [Nodes -> [Keys -> Items \union {None}]]
  BY DEF IndInv, TypeOK
<1>2. CASE Upsert(index[n], it) = index[n]
  BY <1>1, <1>2
<1>3. CASE Upsert(index[n], it) # index[n]
  BY <1>1, <1>3 DEF Upsert
<1> QED BY <1>2, <1>3

\* The three ways a step can touch an index: an owner publishes, an answer's
\* item is applied, a process restarts.
LEMMA StepShape ==
    ASSUME IndInv, [Next]_vars
    PROVE  \/ UNCHANGED <<published, index, restarts>>
           \/ \E it \in Items :
                 /\ published' = published \union {it}
                 /\ UNCHANGED restarts
                 /\ index' = [index EXCEPT ![Origin[it.cell]] = Upsert(@, it)]
           \/ \E n \in Nodes, it \in Items :
                 /\ it \in published /\ Accepts(it)
                 /\ UNCHANGED <<published, restarts>>
                 /\ index' = [index EXCEPT ![n] = Upsert(@, it)]
           \/ \E n \in Nodes :
                 /\ index' = [index EXCEPT ![n] = EmptyIndex]
                 /\ restarts' # restarts
                 /\ UNCHANGED published
<1>1. CASE Tick
  BY <1>1 DEF Tick
<1>2. ASSUME NEW it \in Items, Publish(it)
      PROVE  /\ published' = published \union {it}
             /\ UNCHANGED restarts
             /\ index' = [index EXCEPT ![Origin[it.cell]] = Upsert(@, it)]
  BY <1>2 DEF Publish
<1>3. ASSUME NEW l \in Links,
             BeginPull(l[1], l[2]) \/ Serve(l[1], l[2]) \/ LosePull(l[1], l[2])
      PROVE  UNCHANGED <<published, index, restarts>>
  BY <1>3 DEF BeginPull, Serve, LosePull
<1>4. ASSUME NEW l \in Links, ApplyItem(l[1], l[2])
      PROVE  \E n \in Nodes, it \in Items :
                /\ it \in published /\ Accepts(it)
                /\ UNCHANGED <<published, restarts>>
                /\ index' = [index EXCEPT ![n] = Upsert(@, it)]
  <2>1. PICK it \in pull[l].items :
           /\ index' = [index EXCEPT ![l[1]] = Upsert(@, it)]
           /\ UNCHANGED <<published, restarts>>
    BY <1>4, LinkIsPair DEF ApplyItem
  <2>2. it \in Items /\ it \in published /\ Accepts(it)
    BY DEF IndInv, TypeOK, OnlyPublishedSummaries
  <2> QED BY <2>1, <2>2, LinkIsPair
<1>5. ASSUME NEW n \in Nodes, Restart(n)
      PROVE  /\ index' = [index EXCEPT ![n] = EmptyIndex]
             /\ restarts' # restarts
             /\ UNCHANGED published
  BY <1>5 DEF Restart, IndInv, TypeOK
<1>6. CASE UNCHANGED vars
  BY <1>6 DEF vars
<1>7. CASE Next
  BY <1>1, <1>2, <1>3, <1>4, <1>5, <1>7 DEF Next
<1> QED BY <1>6, <1>7

\* A node never goes back to an older version, or loses one, but by a restart
\* of its process: no answer, however late, and no order of pulls does it.
THEOREM Monotonic == Spec => NoRegress
<1> DEFINE Forward ==
        \A n \in Nodes, k \in Keys :
            index'[n][k] # index[n][k] =>
               \/ index[n][k] = None
               \/ index'[n][k] # None /\ Newer(index'[n][k], index[n][k])
               \/ restarts' # restarts
<1>1. ASSUME IndInv, [Next]_vars PROVE Forward
  <2>0. index \in [Nodes -> [Keys -> Items \union {None}]]
    BY <1>1 DEF IndInv, TypeOK
  <2>1. ASSUME NEW n \in Nodes, NEW it \in Items,
               index' = [index EXCEPT ![n] = Upsert(@, it)]
        PROVE  Forward
    <3>1. CASE index' = index
      BY <3>1
    <3>2. CASE /\ index[n][KeyOf(it)] = None \/ Newer(it, index[n][KeyOf(it)])
               /\ index' = [index EXCEPT ![n][KeyOf(it)] = it]
      <4> SUFFICES ASSUME NEW m \in Nodes, NEW k \in Keys,
                          index'[m][k] # index[m][k]
                   PROVE  \/ index[m][k] = None
                          \/ index'[m][k] # None /\ Newer(index'[m][k], index[m][k])
        OBVIOUS
      <4>1. m = n /\ k = KeyOf(it) /\ index'[m][k] = it
        BY <2>0, <3>2
      <4> QED BY <3>2, <4>1, ItemFacts
    <3> QED BY <1>1, <2>1, <3>1, <3>2, UpsertStep
  <2> QED BY <1>1, <2>1, StepShape, ItemFacts
<1>2. IndInv /\ [Next]_vars => [Forward]_vars
  BY <1>1
<1> QED BY InitIndInv, NextIndInv, <1>2, PTL DEF Spec, NoRegress

\* Pull replication implements last-writer-wins registers owned by their
\* origins (MeshRegisters): every step is a step of theirs or none.
THEOREM Implementation == Spec => ImplementsRegisters
<1> USE DEF Registers!Replicable, Registers!Accepts, Accepts,
            Registers!ReplicatesOverMeshByDefault, ReplicatesOverMeshByDefault,
            Registers!SourceKinds, SourceKinds
<1>1. Init => Registers!Init
  BY DEF Init, Registers!Init, Registers!Empty, EmptyIndex, Keys
<1>2. ASSUME IndInv, [Next]_vars PROVE [Registers!Next]_(Registers!vars)
  <2>1. ASSUME NEW n \in Nodes, NEW it \in Items,
               index' = [index EXCEPT ![n] = Upsert(@, it)]
        PROVE  index' = index \/ (Accepts(it) /\ Registers!MovesTo(n, it))
    BY <1>2, <2>1, UpsertStep
    DEF Registers!MovesTo, Registers!KeyOf, KeyOf, Registers!Newer, Newer
  <2>2. CASE UNCHANGED <<published, index, restarts>>
    BY <2>2 DEF Registers!vars
  <2>3. ASSUME NEW it \in Items, published' = published \union {it},
               index' = [index EXCEPT ![Origin[it.cell]] = Upsert(@, it)]
        PROVE  Registers!Next
    <3>1. Registers!Publish(it)
      BY <2>1, <2>3, ItemFacts DEF Registers!Publish
    <3> QED BY <3>1 DEF Registers!Next
  <2>4. ASSUME NEW n \in Nodes, NEW it \in Items, it \in published, Accepts(it),
               UNCHANGED published,
               index' = [index EXCEPT ![n] = Upsert(@, it)]
        PROVE  [Registers!Next]_(Registers!vars)
    <3>1. index' = index \/ Registers!Learn(n, it)
      BY <2>1, <2>4 DEF Registers!Learn
    <3> QED BY <2>4, <3>1 DEF Registers!Next, Registers!vars
  <2>5. ASSUME NEW n \in Nodes, UNCHANGED published,
               index' = [index EXCEPT ![n] = EmptyIndex]
        PROVE  Registers!Next
    <3>1. Registers!Forget(n)
      BY <2>5 DEF Registers!Forget, Registers!Empty, EmptyIndex, Keys
    <3> QED BY <3>1 DEF Registers!Next
  <2> QED BY <1>2, <2>2, <2>3, <2>4, <2>5, StepShape
<1>3. IndInv /\ [Next]_vars => [Registers!Next]_(Registers!vars)
  BY <1>2
<1> QED BY InitIndInv, NextIndInv, <1>1, <1>3, PTL
        DEF Spec, ImplementsRegisters, Registers!Spec
-----------------------------------------------------------------------------
(* An empty answer is truthful. The peer judges watermarks that may be old *)
(* by the time it sees them; the strengthening says what they still mean:  *)
(* each fact they digest is one the requester has at least that new.       *)

MarksHonest ==
    \A l \in Links : pull[l].phase = "asked" =>
        \A c \in Cells : pull[l].marks[c] # None =>
            \A f \in pull[l].marks[c].hash :
                \E it \in Items : /\ it.cell = c
                                  /\ f = <<it.entity, it.op, it.hash>>
                                  /\ ~Lacks(l[1], it)

\* What a node has it keeps, as long as its process runs.
LEMMA LacksForward ==
    ASSUME IndInv, NEW m \in Nodes, NEW own \in Items,
           index' = [index EXCEPT ![m] = Upsert(@, own)],
           NEW n \in Nodes, NEW it \in Items, ~Lacks(n, it)
    PROVE  ~Lacks(n, it)'
<1>1. index \in [Nodes -> [Keys -> Items \union {None}]]
  BY DEF IndInv, TypeOK
<1>2. CASE index' = index
  BY <1>2 DEF Lacks
<1>3. CASE /\ index[m][KeyOf(own)] = None \/ Newer(own, index[m][KeyOf(own)])
           /\ index' = [index EXCEPT ![m][KeyOf(own)] = own]
  <2>1. CASE n = m /\ KeyOf(it) = KeyOf(own)
    <3>1. index'[n][KeyOf(it)] = own
      BY <1>1, <1>3, <2>1, ItemFacts
    <3>2. index[n][KeyOf(it)] \in Items /\ ~Newer(it, index[n][KeyOf(it)])
      BY <1>1, ItemFacts DEF Lacks
    <3>3. Newer(own, index[n][KeyOf(it)])
      BY <1>3, <2>1, <3>2, ItemFacts
    <3>4. ~Newer(it, own)
      BY <3>2, <3>3, ItemFacts, NewerTransitive
    <3> QED BY <3>1, <3>4, ItemFacts DEF Lacks
  <2>2. CASE ~(n = m /\ KeyOf(it) = KeyOf(own))
    <3>1. index'[n][KeyOf(it)] = index[n][KeyOf(it)]
      BY <1>1, <1>3, <2>2, ItemFacts
    <3> QED BY <3>1 DEF Lacks
  <2> QED BY <2>1, <2>2
<1> QED BY <1>2, <1>3, UpsertStep

\* Watermarks on their way stay honest: the requester's index only moves
\* forward under them, and a restart gives up the pull that carries them.
LEMMA NextMarksHonest == IndInv /\ MarksHonest /\ [Next]_vars => MarksHonest'
<1> SUFFICES ASSUME IndInv, MarksHonest, [Next]_vars,
                    NEW l \in Links, pull'[l].phase = "asked",
                    NEW c \in Cells, pull'[l].marks[c] # None,
                    NEW f \in pull'[l].marks[c].hash
             PROVE  \E it \in Items : /\ it.cell = c
                                      /\ f = <<it.entity, it.op, it.hash>>
                                      /\ ~Lacks(l[1], it)'
  BY DEF MarksHonest
<1> DEFINE Honest == \E it \in Items : /\ it.cell = c
                                       /\ f = <<it.entity, it.op, it.hash>>
                                       /\ ~Lacks(l[1], it)
           Goal == \E it \in Items : /\ it.cell = c
                                     /\ f = <<it.entity, it.op, it.hash>>
                                     /\ ~Lacks(l[1], it)'
<1>0. /\ pull \in [Links -> [phase : {"idle", "asked", "applying"}, at : 0..MaxTime,
                             marks : [Cells -> Marks \union {None}],
                             items : SUBSET Items]]
      /\ l[1] \in Nodes
  BY LinkIsPair DEF IndInv, TypeOK
<1>1. pull'[l] = pull[l] => Honest
  BY DEF MarksHonest
<1>2. ASSUME Honest, UNCHANGED index PROVE Goal
  BY <1>2 DEF Lacks
<1>3. ASSUME Honest, NEW m \in Nodes, NEW own \in Items,
             index' = [index EXCEPT ![m] = Upsert(@, own)]
      PROVE  Goal
  BY <1>0, <1>3, LacksForward
<1>4. CASE Tick
  BY <1>1, <1>2, <1>4 DEF Tick
<1>5. ASSUME NEW it \in Items, Publish(it) PROVE Goal
  BY <1>1, <1>3, <1>5, ItemFacts DEF Publish
<1>6. ASSUME NEW k \in Links, BeginPull(k[1], k[2]) PROVE Goal
  <2> DEFINE S == CurrentItems(index[k[1]], now)
  <2>1. /\ UNCHANGED index
        /\ pull' = [pull EXCEPT ![k] = [phase |-> "asked", at |-> now,
                                        items |-> {}, marks |-> Watermarks(S, Cells)]]
    BY <1>6, LinkIsPair DEF BeginPull
  <2>2. CASE k # l
    BY <1>0, <1>1, <1>2, <2>1, <2>2
  <2>3. CASE k = l
    <3>1. pull'[l].marks[c] = Watermark(InCell(S, c))
      BY <1>0, <2>1, <2>3 DEF Watermarks
    <3>2. PICK it \in InCell(S, c) : f = <<it.entity, it.op, it.hash>>
      BY <3>1 DEF Watermark, HashCell
    <3>3. it \in Items /\ it.cell = c /\ index[l[1]][KeyOf(it)] = it
      BY <2>3, <3>2, LinkIsPair, CurrentItemsFacts DEF InCell, IndInv
    <3>4. ~Lacks(l[1], it)
      BY <3>3, ItemFacts, NewerIrreflexive DEF Lacks
    <3> QED BY <1>2, <2>1, <3>2, <3>3, <3>4
  <2> QED BY <2>2, <2>3
<1>7. ASSUME NEW k \in Links, Serve(k[1], k[2]) \/ LosePull(k[1], k[2]) PROVE Goal
  <2>1. /\ UNCHANGED index
        /\ \E r : pull' = [pull EXCEPT ![k] = r] /\ r.phase # "asked"
    BY <1>7, LinkIsPair DEF Serve, LosePull, Idle
  <2>2. pull'[l] = pull[l]
    BY <1>0, <2>1
  <2> QED BY <1>1, <1>2, <2>1, <2>2
<1>8. ASSUME NEW k \in Links, ApplyItem(k[1], k[2]) PROVE Goal
  <2>1. PICK it \in pull[k].items :
           /\ index' = [index EXCEPT ![k[1]] = Upsert(@, it)]
           /\ pull' = [pull EXCEPT ![k] =
                         IF pull[k].items \ {it} = {} THEN Idle
                         ELSE [@ EXCEPT !.items = pull[k].items \ {it}]]
    BY <1>8, LinkIsPair DEF ApplyItem
  <2>2. it \in Items /\ k[1] \in Nodes
    BY <1>0, LinkIsPair
  <2>3. Honest
    <3>1. CASE k # l
      BY <1>0, <1>1, <2>1, <3>1
    <3>2. CASE k = l
      <4>1. pull[l].phase = "asked" /\ pull'[l].marks = pull[l].marks
        BY <1>0, <2>1, <3>2 DEF Idle
      <4> QED BY <4>1 DEF MarksHonest
    <3> QED BY <3>1, <3>2
  <2> QED BY <1>3, <2>1, <2>2, <2>3
<1>9. ASSUME NEW n \in Nodes, Restart(n) PROVE Goal
  <2>1. l[1] # n /\ pull'[l] = pull[l]
    BY <1>9 DEF Restart, Idle
  <2>2. index'[l[1]] = index[l[1]]
    BY <1>0, <1>9, <2>1 DEF Restart, IndInv, TypeOK
  <2> QED BY <1>1, <2>1, <2>2 DEF Lacks
<1>10. CASE UNCHANGED vars
  BY <1>1, <1>2, <1>10 DEF vars
<1> QED BY <1>4, <1>5, <1>6, <1>7, <1>8, <1>9, <1>10 DEF Next

\* Honest watermarks make an empty Diff truthful: every current fact of the
\* peer is in the digest it compared with, so the requester has that version.
LEMMA MarksHonestSuffices ==
    ASSUME OperationsAreUnique, IndInv, MarksHonest
    PROVE  EmptyDiffMeansCaughtUp
<1> SUFFICES ASSUME NEW l \in Links, pull[l].phase = "asked",
                    Diff(CurrentItems(index[l[2]], pull[l].at), pull[l].marks, MaxItems) = {},
                    NEW it \in CurrentItems(index[l[2]], pull[l].at)
             PROVE  ~Lacks(l[1], it)
  BY DEF EmptyDiffMeansCaughtUp, CaughtUp
<1> DEFINE S == CurrentItems(index[l[2]], pull[l].at)
           marks == pull[l].marks
<1>1. S \subseteq Items /\ IsFiniteSet(S) /\ WellKeyed(S)
  BY LinkIsPair, CurrentItemsFacts DEF IndInv
<1>2. it \in Items /\ it.cell \in Cells
  BY <1>1, ItemFacts
<1>3. Selected(S, marks) = {}
  <2>1. Selected(S, marks) \subseteq S
    BY DEF Selected
  <2>2. IsFiniteSet(Selected(S, marks)) /\ WellKeyed(Selected(S, marks))
    BY <1>1, <2>1, FS_Subset DEF WellKeyed
  <2>3. Truncate(Selected(S, marks), MaxItems) = {}
    BY DEF Diff
  <2> HIDE DEF S, marks
  <2> QED BY <2>2, <2>3, TruncateNonempty, BoundsAssumption
<1>4. marks[it.cell] # None => Stamped(marks[it.cell])
  BY <1>2 DEF IndInv, TypeOK, Marks, Stamped
<1>5. /\ marks[it.cell] # None
      /\ HashCell(InCell(S, it.cell)) = marks[it.cell].hash
  <2> HIDE DEF marks
  <2> QED BY <1>1, <1>3, <1>4, NothingSelected
<1>6. <<it.entity, it.op, it.hash>> \in marks[it.cell].hash
  <2>1. <<it.entity, it.op, it.hash>> \in HashCell(InCell(S, it.cell))
    BY DEF HashCell, InCell
  <2> QED BY <1>5, <2>1
<1>7. PICK had \in Items : /\ had.cell = it.cell
                           /\ <<it.entity, it.op, it.hash>> = <<had.entity, had.op, had.hash>>
                           /\ ~Lacks(l[1], had)
  BY <1>2, <1>5, <1>6 DEF MarksHonest
<1>8. had = it
  BY <1>2, <1>7 DEF OperationsAreUnique
<1> QED BY <1>7, <1>8

\* A peer that answers a pull with nothing is right that nothing is missing,
\* provided an operation id names one version of one fact.
THEOREM EmptyDiffTruthful ==
    ASSUME OperationsAreUnique
    PROVE  Spec => []EmptyDiffMeansCaughtUp
<1>1. Init => MarksHonest
  BY DEF Init, MarksHonest, Idle
<1>2. IndInv /\ MarksHonest => EmptyDiffMeansCaughtUp
  BY MarksHonestSuffices
<1> QED BY InitIndInv, NextIndInv, NextMarksHonest, <1>1, <1>2, PTL DEF Spec
-----------------------------------------------------------------------------
(* When a peer sends nothing twice (OrderedMesh). The digest repair, which *)
(* sends a cell whole, must never be taken: what the requester has of a    *)
(* cell is all the peer had up to some version.                            *)

\* Versions of one cell are told apart by their stamps.
StampsTell ==
    \A i, j \in published : i.cell = j.cell /\ i # j => Newer(i, j) \/ Newer(j, i)

\* An owner has all it has published.
OwnersHold == \A j \in published : Accepts(j) => ~Lacks(Origin[j.cell], j)

\* A node that has a version has all that was published before it in the cell.
NoGaps ==
    \A n \in Nodes, k \in Keys, j \in published :
        /\ index[n][k] # None /\ Accepts(j)
        /\ j.cell = index[n][k].cell /\ Newer(index[n][k], j)
        => ~Lacks(n, j)

\* What a node has, or is being handed, its peer has.
PeersAhead ==
    \A l \in Links :
        /\ \A k \in Keys : index[l[1]][k] # None => ~Lacks(l[2], index[l[1]][k])
        /\ \A it \in pull[l].items : ~Lacks(l[2], it)

\* Watermarks on their way are those of the requester's index as it is.
MarksCurrent ==
    \A l \in Links : pull[l].phase = "asked" =>
        pull[l].marks = Watermarks(Filed(index[l[1]]), Cells)

\* An answer brings all the requester misses that is older than what it
\* brings, a fact at most once.
AnswersWhole ==
    \A l \in Links :
        /\ pull[l].phase # "applying" => pull[l].items = {}
        /\ \A v, w \in pull[l].items : KeyOf(v) = KeyOf(w) => v = w
        /\ \A it \in pull[l].items, j \in published :
              Accepts(j) /\ j.cell = it.cell /\ Newer(it, j) =>
                 \/ ~Lacks(l[1], j)
                 \/ \E v \in pull[l].items : KeyOf(v) = KeyOf(j) /\ ~Newer(j, v)

OrdInv ==
    /\ IndInv /\ StampsTell /\ OwnersHold /\ NoGaps
    /\ PeersAhead /\ MarksCurrent /\ AnswersWhole

\* The summaries a node has filed, whether current or not.
LEMMA FiledFacts ==
    ASSUME IndInv, NEW n \in Nodes
    PROVE  /\ Filed(index[n]) \subseteq Items /\ IsFiniteSet(Filed(index[n]))
           /\ WellKeyed(Filed(index[n]))
           /\ \A x \in Filed(index[n]) :
                 /\ x \in published /\ Accepts(x) /\ index[n][KeyOf(x)] = x
                 /\ ~Lacks(n, x)
           /\ \A k \in Keys : index[n][k] # None =>
                 index[n][k] \in Filed(index[n]) /\ KeyOf(index[n][k]) = k
<1> DEFINE S == Filed(index[n])
<1>1. \A k \in Keys : index[n][k] # None => index[n][k] \in S /\ KeyOf(index[n][k]) = k
  BY DEF Filed, IndInv, TypeOK, OnlyPublishedSummaries
<1>2. ASSUME NEW x \in S
      PROVE  x \in Items /\ x \in published /\ Accepts(x) /\ index[n][KeyOf(x)] = x
  <2>1. PICK k \in Keys : x = index[n][k] /\ x # None
    BY DEF Filed, IndInv, TypeOK
  <2> QED BY <2>1 DEF IndInv, OnlyPublishedSummaries, TypeOK
<1>3. S \subseteq Items /\ IsFiniteSet(S)
  BY <1>2, ItemsAssumption, FS_Subset
<1>4. WellKeyed(S)
  BY <1>2, ItemFacts DEF WellKeyed
<1>5. \A x \in S : ~Lacks(n, x)
  BY <1>2, ItemFacts, NewerIrreflexive DEF Lacks
<1> QED BY <1>1, <1>2, <1>3, <1>4, <1>5

\* With no expiry, what is filed is current.
LEMMA AllCurrent ==
    ASSUME OrderedMesh, IndInv, NEW n \in Nodes, NEW t \in 0..MaxTime
    PROVE  CurrentItems(index[n], t) = Filed(index[n])
<1>1. \A it \in Filed(index[n]) : it.exp \in Nat /\ it.exp > MaxTime
  BY FiledFacts, ItemsAssumption DEF OrderedMesh
<1> QED BY <1>1, BoundsAssumption DEF CurrentItems

\* What a node has instead of a version it does not lack.
LEMMA HasVersion ==
    ASSUME IndInv, NEW n \in Nodes, NEW j \in Items, ~Lacks(n, j)
    PROVE  LET x == index[n][KeyOf(j)]
           IN  /\ x \in Filed(index[n]) /\ x \in Items /\ x \in published
               /\ KeyOf(x) = KeyOf(j) /\ x.cell = j.cell /\ x.entity = j.entity
               /\ ~Newer(j, x)
<1> DEFINE x == index[n][KeyOf(j)]
<1>1. x # None /\ ~Newer(j, x) /\ KeyOf(j) \in Keys
  BY ItemFacts DEF Lacks
<1>2. x \in Filed(index[n]) /\ KeyOf(x) = KeyOf(j)
  BY <1>1, FiledFacts
<1>3. x \in Items /\ x \in published
  BY <1>2, FiledFacts
<1> QED BY <1>1, <1>2, <1>3 DEF KeyOf

\* After Upsert a node does not lack what it was handed.
LEMMA UpsertHas ==
    ASSUME IndInv, NEW n \in Nodes, NEW it \in Items, Accepts(it),
           index' = [index EXCEPT ![n] = Upsert(@, it)]
    PROVE  ~Lacks(n, it)'
<1>1. index \in [Nodes -> [Keys -> Items \union {None}]] /\ KeyOf(it) \in Keys
  BY ItemFacts DEF IndInv, TypeOK
<1>2. index'[n] = Upsert(index[n], it)
  BY <1>1
<1>3. CASE index[n][KeyOf(it)] = None \/ Newer(it, index[n][KeyOf(it)])
  <2>1. index'[n][KeyOf(it)] = it
    BY <1>1, <1>2, <1>3 DEF Upsert
  <2> QED BY <2>1, ItemFacts, NewerIrreflexive DEF Lacks
<1>4. CASE ~(index[n][KeyOf(it)] = None \/ Newer(it, index[n][KeyOf(it)]))
  <2>1. index'[n][KeyOf(it)] = index[n][KeyOf(it)]
    BY <1>1, <1>2, <1>4 DEF Upsert
  <2> QED BY <1>4, <2>1 DEF Lacks
<1> QED BY <1>3, <1>4

\* The watermark of a cell is the stamp of its newest item, and its digest.
LEMMA CellFacts ==
    ASSUME IndInv, NEW n \in Nodes, NEW c \in Cells, InCell(Filed(index[n]), c) # {}
    PROVE  LET C   == InCell(Filed(index[n]), c)
               top == Top(C)
               w   == Watermark(C)
           IN  /\ top \in Filed(index[n]) /\ top \in Items /\ top \in published
               /\ top.cell = c
               /\ \A o \in C : ~Newer(o, top)
               /\ w.seq = top.seq /\ w.hlc = top.hlc /\ w.op = top.op
               /\ w.hash = HashCell(C) /\ w # None
<1> DEFINE C == InCell(Filed(index[n]), c)
           w == Watermark(C)
<1>1. C \subseteq Filed(index[n]) /\ C \subseteq Items /\ IsFiniteSet(C) /\ WellKeyed(C)
  BY FiledFacts, FS_Subset DEF InCell, WellKeyed
<1>2. Top(C) \in C /\ \A o \in C : ~Newer(o, Top(C))
  BY <1>1, TopIsNewest
<1>3. Top(C) \in Items /\ Top(C) \in published /\ Top(C).cell = c
  BY <1>1, <1>2, FiledFacts DEF InCell
<1>4. w.seq = Top(C).seq /\ w.hlc = Top(C).hlc /\ w.op = Top(C).op /\ w.hash = HashCell(C)
  BY DEF Watermark
<1>5. HashCell(C) \subseteq {<<it.entity, it.op, it.hash>> : it \in Items}
  BY <1>1 DEF HashCell
<1>6. w \in Marks
  BY <1>3, <1>5, ItemFacts DEF Watermark, Marks, Stamped
<1> QED BY <1>1, <1>2, <1>3, <1>4, <1>6, NoneAssumption

\* A peer whose newest version of a cell is not newer than the requester's has
\* just what the requester has.
LEMMA SameCell ==
    ASSUME OrderedMesh, OrdInv, NEW l \in Links, NEW c \in Cells,
           InCell(Filed(index[l[1]]), c) # {}, InCell(Filed(index[l[2]]), c) # {},
           ~Newer(Top(InCell(Filed(index[l[2]]), c)), Top(InCell(Filed(index[l[1]]), c)))
    PROVE  InCell(Filed(index[l[2]]), c) = InCell(Filed(index[l[1]]), c)
<1> DEFINE R  == InCell(Filed(index[l[1]]), c)
           P  == InCell(Filed(index[l[2]]), c)
           tr == Top(R)
           tp == Top(P)
<1>0. IndInv /\ l[1] \in Nodes /\ l[2] \in Nodes
  BY LinkIsPair DEF OrdInv
<1>1. /\ tr \in Filed(index[l[1]]) /\ tr \in Items /\ tr \in published /\ tr.cell = c
      /\ \A o \in R : ~Newer(o, tr)
  BY <1>0, CellFacts
<1>2. /\ tp \in Items /\ tp \in published /\ tp.cell = c
      /\ \A o \in P : ~Newer(o, tp)
  BY <1>0, CellFacts
<1>3. /\ \A y \in R : y \in Filed(index[l[1]]) /\ y \in Items /\ y \in published /\ y.cell = c
      /\ \A x \in P : /\ x \in Filed(index[l[2]]) /\ x \in Items /\ x \in published
                      /\ x.cell = c /\ Accepts(x)
  BY <1>0, FiledFacts DEF InCell
<1>4. ASSUME NEW y \in R PROVE ~Lacks(l[2], y)
  <2>1. index[l[1]][KeyOf(y)] = y /\ KeyOf(y) \in Keys /\ y # None
    BY <1>0, <1>3, FiledFacts, ItemFacts
  <2> QED BY <2>1 DEF OrdInv, PeersAhead
<1>5. ASSUME NEW y \in R
      PROVE  LET x == index[l[2]][KeyOf(y)]
             IN  x \in P /\ KeyOf(x) = KeyOf(y) /\ ~Newer(y, x)
  BY <1>0, <1>3, <1>4, HasVersion DEF InCell
<1> HIDE DEF R, P
<1>6. tr = tp
  <2>1. tr \in R
    BY <1>1 DEF R, InCell
  <2>2. PICK x \in P : ~Newer(tr, x)
    BY <1>5, <2>1
  <2>3. ~Newer(x, tp) /\ x \in Items
    BY <1>2, <1>3
  <2>4. ~Newer(tr, tp)
    BY <1>1, <1>2, <2>2, <2>3, ItemFacts, NotNewerTransitive
  <2>5. ~Newer(tp, tr)
    BY DEF R, P
  <2> QED BY <1>1, <1>2, <2>4, <2>5 DEF OrdInv, StampsTell
<1>7. ASSUME NEW x \in P PROVE x \in R
  <2>1. x = tr \/ Newer(tr, x)
    BY <1>1, <1>2, <1>3, <1>6 DEF OrdInv, StampsTell
  <2>2. ~Lacks(l[1], x)
    <3>1. index[l[1]][KeyOf(tr)] = tr /\ KeyOf(tr) \in Keys /\ tr # None
      BY <1>0, <1>1, FiledFacts, ItemFacts
    <3>2. CASE x = tr
      BY <1>0, <1>1, <3>2, FiledFacts
    <3>3. CASE Newer(tr, x)
      BY <1>0, <1>1, <1>3, <3>1, <3>3 DEF OrdInv, NoGaps
    <3> QED BY <2>1, <3>2, <3>3
  <2>3. PICK y : y = index[l[1]][KeyOf(x)]
    OBVIOUS
  <2>4. /\ y \in Filed(index[l[1]]) /\ y \in Items /\ y \in published
        /\ KeyOf(y) = KeyOf(x) /\ y.cell = c /\ ~Newer(x, y)
    BY <1>0, <1>3, <2>2, <2>3, HasVersion
  <2>5. y \in R
    BY <2>4 DEF R, InCell
  <2>6. index[l[2]][KeyOf(y)] = x
    BY <1>0, <1>3, <2>4, FiledFacts
  <2>7. ~Newer(y, x)
    BY <1>5, <2>5, <2>6
  <2>8. x = y
    BY <1>3, <2>4, <2>7 DEF OrdInv, StampsTell
  <2> QED BY <2>5, <2>8
<1>8. ASSUME NEW y \in R PROVE y \in P
  <2>1. PICK x \in P : KeyOf(x) = KeyOf(y)
    BY <1>5
  <2>2. x \in R
    BY <1>7, <2>1
  <2>3. index[l[1]][KeyOf(x)] = x /\ index[l[1]][KeyOf(y)] = y
    BY <1>0, <1>3, <2>2, FiledFacts
  <2> QED BY <2>1, <2>3
<1> QED BY <1>7, <1>8 DEF R, P

\* What a peer selects from its index for a link that asks.
LEMMA SelectedFacts ==
    ASSUME OrderedMesh, OrdInv, NEW l \in Links, pull[l].phase = "asked",
           NEW it \in Selected(Filed(index[l[2]]), pull[l].marks)
    PROVE  LET R   == InCell(Filed(index[l[1]]), it.cell)
               top == Top(R)
           IN  /\ it \in Filed(index[l[2]]) /\ it \in Items
               /\ R # {} => /\ Newer(it, top)
                            /\ \A v \in Filed(index[l[2]]) :
                                  v.cell = it.cell /\ Newer(v, top) =>
                                     v \in Selected(Filed(index[l[2]]), pull[l].marks)
<1> DEFINE c == it.cell
           S == Filed(index[l[2]])
           R == InCell(Filed(index[l[1]]), c)
           P == InCell(S, c)
           local == Watermark(P)
           peer  == Watermark(R)
<1>0. IndInv /\ l[1] \in Nodes /\ l[2] \in Nodes
  BY LinkIsPair DEF OrdInv
<1>1. it \in S /\ it \in Items /\ c \in Cells /\ it \in P
  BY <1>0, FiledFacts, ItemFacts DEF Selected, InCell
<1>2. SUFFICES ASSUME R # {}
               PROVE  /\ Newer(it, Top(R))
                      /\ \A v \in S : v.cell = c /\ Newer(v, Top(R)) =>
                            v \in Selected(S, pull[l].marks)
  BY <1>1
<1>3. pull[l].marks[c] = peer
  BY <1>1, <1>2 DEF OrdInv, MarksCurrent, Watermarks
<1>4. peer # None /\ peer.hash = HashCell(R)
      /\ peer.seq = Top(R).seq /\ peer.hlc = Top(R).hlc /\ peer.op = Top(R).op
  BY <1>0, <1>1, <1>2, CellFacts
<1>5. local.hash = HashCell(P)
      /\ local.seq = Top(P).seq /\ local.hlc = Top(P).hlc /\ local.op = Top(P).op
  BY <1>0, <1>1, CellFacts
<1>6. Sends(it, local, peer)
  BY <1>3 DEF Selected
<1> HIDE DEF local, peer
<1>7. Newer(local, peer) <=> Newer(Top(P), Top(R))
  BY <1>4, <1>5 DEF Newer
<1>8. \A v : Newer(v, peer) <=> Newer(v, Top(R))
  BY <1>4 DEF Newer
<1>9. Newer(local, peer)
  <2> SUFFICES ASSUME ~Newer(local, peer) PROVE FALSE
    OBVIOUS
  <2>1. P = R
    BY <1>1, <1>2, <1>7, SameCell
  <2>2. ~DigestDiffers(local, peer)
    BY <1>4, <1>5, <2>1 DEF DigestDiffers
  <2> QED BY <1>4, <1>6, <2>2 DEF Sends
<1>10. ~SameSyncState(local, peer) /\ Newer(it, peer)
  BY <1>4, <1>6, <1>9 DEF Sends
<1>11. ASSUME NEW v \in S, v.cell = c, Newer(v, Top(R))
       PROVE  v \in Selected(S, pull[l].marks)
  <2>1. Sends(v, local, peer)
    BY <1>8, <1>9, <1>10, <1>11 DEF Sends
  <2> QED BY <1>3, <1>11, <2>1 DEF Selected, local
<1> QED BY <1>8, <1>10, <1>11

\* A peer sends nothing the requester has.
LEMMA ServeLacks ==
    ASSUME OrderedMesh, OrdInv, NEW l \in Links, pull[l].phase = "asked",
           NEW it \in Selected(Filed(index[l[2]]), pull[l].marks)
    PROVE  Lacks(l[1], it)
<1> SUFFICES ASSUME ~Lacks(l[1], it) PROVE FALSE
  OBVIOUS
<1> DEFINE R == InCell(Filed(index[l[1]]), it.cell)
<1>0. IndInv /\ l[1] \in Nodes /\ l[2] \in Nodes
  BY LinkIsPair DEF OrdInv
<1>1. it \in Items /\ it.cell \in Cells
  BY SelectedFacts, ItemFacts
<1>2. PICK o \in R : o \in Items /\ ~Newer(it, o)
  BY <1>0, <1>1, HasVersion DEF InCell
<1>3. Top(R) \in Items /\ ~Newer(o, Top(R))
  BY <1>0, <1>1, <1>2, CellFacts
<1>4. Newer(it, Top(R))
  BY <1>2, SelectedFacts
<1> QED BY <1>1, <1>2, <1>3, <1>4, ItemFacts, NotNewerTransitive

\* Of what a peer sends, nothing older is held back that the requester lacks.
LEMMA ServeWhole ==
    ASSUME OrderedMesh, OrdInv, NEW l \in Links, pull[l].phase = "asked",
           NEW it \in Diff(Filed(index[l[2]]), pull[l].marks, MaxItems),
           NEW j \in published, Accepts(j), j.cell = it.cell, Newer(it, j)
    PROVE  \/ ~Lacks(l[1], j)
           \/ \E v \in Diff(Filed(index[l[2]]), pull[l].marks, MaxItems) :
                 KeyOf(v) = KeyOf(j) /\ ~Newer(j, v)
<1> DEFINE S == Filed(index[l[2]])
           Sel == Selected(S, pull[l].marks)
           R == InCell(Filed(index[l[1]]), it.cell)
<1>0. IndInv /\ l[1] \in Nodes /\ l[2] \in Nodes /\ j \in Items
  BY LinkIsPair DEF OrdInv, IndInv, TypeOK
<1>1. /\ S \subseteq Items /\ IsFiniteSet(S) /\ WellKeyed(S)
      /\ \A x \in S : index[l[2]][KeyOf(x)] = x
  BY <1>0, FiledFacts
<1>2. Sel \subseteq S /\ it \in Sel
  BY DEF Diff, Truncate, Selected
<1>3. IsFiniteSet(Sel) /\ WellKeyed(Sel)
  BY <1>1, <1>2, FS_Subset DEF WellKeyed
<1>4. it \in S /\ it \in Items /\ it.cell \in Cells /\ it # None /\ KeyOf(it) \in Keys
  BY <1>1, <1>2, ItemFacts
<1>5. ~Lacks(l[2], j)
  <2>1. index[l[2]][KeyOf(it)] = it
    BY <1>1, <1>4
  <2> QED BY <1>0, <1>4, <2>1 DEF OrdInv, NoGaps
<1>6. PICK v \in S : /\ v \in Items /\ KeyOf(v) = KeyOf(j) /\ v.cell = j.cell
                     /\ v.entity = j.entity /\ ~Newer(j, v)
  BY <1>0, <1>5, HasVersion
<1>7. CASE v \in Sel
  <2>1. it.entity >= j.entity
    BY <1>0, <1>4 DEF OrderedMesh
  <2>2. v = it \/ SortsBefore(v, it)
    BY <1>1, <1>4, <1>6, <2>1, ItemFacts DEF WellKeyed, KeyOf, SortsBefore
  <2>3. it \in Truncate(Sel, MaxItems)
    BY DEF Diff
  <2> HIDE DEF Sel
  <2>4. v \in Truncate(Sel, MaxItems)
    BY <1>3, <1>7, <2>2, <2>3, TruncateKeepsFirst, BoundsAssumption
  <2> QED BY <1>6, <2>4 DEF Diff, Sel
<1>8. CASE v \notin Sel
  <2>1. R # {} /\ ~Newer(v, Top(R))
    <3>1. R # {}
      <4> SUFFICES ASSUME R = {} PROVE FALSE
        OBVIOUS
      <4>1. pull[l].marks[it.cell] = None
        BY <1>4 DEF OrdInv, MarksCurrent, Watermarks
      <4> QED BY <1>6, <1>8, <4>1 DEF Selected, Sends
    <3> QED BY <1>2, <1>6, <1>8, <3>1, SelectedFacts
  <2>2. /\ Top(R) \in Filed(index[l[1]]) /\ Top(R) \in Items /\ Top(R) \in published
        /\ Top(R).cell = it.cell
    BY <1>0, <1>4, <2>1, CellFacts
  <2>3. ~Newer(j, Top(R))
    BY <1>0, <1>6, <2>1, <2>2, ItemFacts, NotNewerTransitive
  <2>4. /\ index[l[1]][KeyOf(Top(R))] = Top(R) /\ KeyOf(Top(R)) \in Keys /\ Top(R) # None
        /\ ~Lacks(l[1], Top(R))
    BY <1>0, <2>2, FiledFacts, ItemFacts
  <2>5. j = Top(R) \/ Newer(Top(R), j)
    BY <2>2, <2>3 DEF OrdInv, StampsTell
  <2>6. ~Lacks(l[1], j)
    BY <1>0, <2>2, <2>4, <2>5 DEF OrdInv, NoGaps
  <2> QED BY <2>6
<1> QED BY <1>7, <1>8

-----------------------------------------------------------------------------
(* The invariant of such a mesh, step by step.                             *)

\* An owner's new fact is newer than all before it in its cell, and no node
\* that pulls is an owner.
LEMMA PublishOrdered ==
    ASSUME OrderedMesh, OrdInv, IndInv', NEW new \in Items, Publish(new)
    PROVE  OrdInv'
<1> DEFINE o == Origin[new.cell]
<1>0. IndInv /\ o \in Nodes
  BY ItemFacts DEF OrdInv
<1>1. /\ published' = published \union {new} /\ new \notin published
      /\ index' = [index EXCEPT ![o] = Upsert(@, new)]
      /\ pull' = pull
  BY DEF Publish
<1>2. \A j \in published : j.cell = new.cell => Newer(new, j) /\ ~Newer(j, new)
  <2> SUFFICES ASSUME NEW j \in published, j.cell = new.cell
               PROVE  Newer(new, j) /\ ~Newer(j, new)
    OBVIOUS
  <2>1. Newer(new, j) /\ j \in Items
    BY <1>0 DEF Publish, OrderedMesh, IndInv, TypeOK
  <2> QED BY <2>1, ItemFacts, NewerTransitive, NewerIrreflexive
<1>3. ~Newer(new, new)
  BY ItemFacts, NewerIrreflexive
<1>4. \A n \in Nodes, j \in Items : ~Lacks(n, j) => ~Lacks(n, j)'
  BY <1>0, <1>1, LacksForward
<1>5. \A l \in Links : l[1] # o /\ l[1] \in Nodes /\ l[2] \in Nodes
                       /\ index'[l[1]] = index[l[1]]
  BY <1>0, <1>1, LinkIsPair, ItemFacts DEF OrderedMesh, IndInv, TypeOK
<1>6. \A n \in Nodes, k \in Keys :
          index'[n][k] = index[n][k] \/ (n = o /\ index'[n][k] = new)
  <2>1. index \in [Nodes -> [Keys -> Items \union {None}]] /\ KeyOf(new) \in Keys
    BY <1>0, ItemFacts DEF IndInv, TypeOK
  <2>2. Upsert(index[o], new) = index[o] \/
        Upsert(index[o], new) = [index[o] EXCEPT ![KeyOf(new)] = new]
    BY DEF Upsert
  <2> QED BY <1>0, <1>1, <2>1, <2>2
<1>7. /\ published \subseteq Items
      /\ \A n \in Nodes, k \in Keys :
            index[n][k] # None => index[n][k] \in published /\ index[n][k] \in Items
      /\ \A l \in Links : \A it \in pull[l].items : it \in published /\ it \in Items
  BY <1>0 DEF IndInv, TypeOK, OnlyPublishedSummaries
<1>8. StampsTell'
  BY <1>1, <1>2 DEF OrdInv, StampsTell
<1>9. OwnersHold'
  <2> SUFFICES ASSUME NEW j \in published', Accepts(j) PROVE ~Lacks(Origin[j.cell], j)'
    BY DEF OwnersHold
  <2>1. CASE j = new
    BY <1>0, <1>1, <2>1, UpsertHas
  <2>2. CASE j \in published
    BY <1>4, <1>7, <2>2, ItemFacts DEF OrdInv, OwnersHold
  <2> QED BY <1>1, <2>1, <2>2
<1>10. NoGaps'
  <2> SUFFICES ASSUME NEW n \in Nodes, NEW k \in Keys, NEW j \in published',
                      index'[n][k] # None, Accepts(j),
                      j.cell = index'[n][k].cell, Newer(index'[n][k], j)
               PROVE  ~Lacks(n, j)'
    BY DEF NoGaps
  <2>1. j # new /\ j \in published /\ j \in Items
    BY <1>1, <1>2, <1>3, <1>6, <1>7
  <2>2. CASE index'[n][k] = index[n][k]
    BY <1>4, <2>1, <2>2 DEF OrdInv, NoGaps
  <2>3. CASE n = o /\ index'[n][k] = new
    <3>1. ~Lacks(n, j)
      BY <2>1, <2>3 DEF OrdInv, OwnersHold
    <3> QED BY <1>4, <2>1, <3>1
  <2> QED BY <1>6, <2>2, <2>3
<1>11. PeersAhead'
  <2>1. ASSUME NEW l \in Links, NEW k \in Keys, NEW x \in Items, x = index[l[1]][k]
        PROVE  ~Lacks(l[2], x)'
    <3>1. ~Lacks(l[2], x) /\ l[2] \in Nodes
      BY <1>5, <2>1, ItemFacts DEF OrdInv, PeersAhead
    <3> QED BY <1>4, <3>1
  <2>2. ASSUME NEW l \in Links, NEW it \in pull[l].items PROVE ~Lacks(l[2], it)'
    BY <1>4, <1>5, <1>7 DEF OrdInv, PeersAhead
  <2>3. \A l \in Links, k \in Keys : index'[l[1]][k] # None =>
            index'[l[1]][k] = index[l[1]][k] /\ index[l[1]][k] \in Items
    BY <1>5, <1>7
  <2> QED BY <1>1, <2>1, <2>2, <2>3 DEF PeersAhead
<1>12. MarksCurrent'
  BY <1>1, <1>5 DEF OrdInv, MarksCurrent
<1>13. AnswersWhole'
  <2>1. ASSUME NEW l \in Links, NEW it \in pull[l].items, NEW j \in published',
               Accepts(j), j.cell = it.cell, Newer(it, j)
        PROVE  \/ ~Lacks(l[1], j)'
               \/ \E v \in pull[l].items : KeyOf(v) = KeyOf(j) /\ ~Newer(j, v)
    <3>1. it \in published
      BY <1>7
    <3>2. j # new
      BY <1>2, <2>1, <3>1
    <3>3. j \in published /\ j \in Items
      BY <1>1, <1>7, <3>2
    <3> QED BY <1>4, <1>5, <2>1, <3>3 DEF OrdInv, AnswersWhole
  <2> QED BY <1>1, <2>1 DEF OrdInv, AnswersWhole
<1> QED BY <1>8, <1>9, <1>10, <1>11, <1>12, <1>13 DEF OrdInv


\* A step that leaves the indexes alone and changes one pull.
LEMMA PullOrdered ==
    ASSUME OrdInv, IndInv', UNCHANGED <<published, index>>,
           NEW k \in Links, NEW r, pull' = [pull EXCEPT ![k] = r],
           r.phase = "asked" => r.marks = Watermarks(Filed(index[k[1]]), Cells),
           r.phase # "applying" => r.items = {},
           \A v, w \in r.items : KeyOf(v) = KeyOf(w) => v = w,
           \A it \in r.items : ~Lacks(k[2], it),
           \A it \in r.items, j \in published :
              Accepts(j) /\ j.cell = it.cell /\ Newer(it, j) =>
                 \/ ~Lacks(k[1], j)
                 \/ \E v \in r.items : KeyOf(v) = KeyOf(j) /\ ~Newer(j, v)
    PROVE  OrdInv'
<1>1. \A l \in Links : pull'[l] = IF l = k THEN r ELSE pull[l]
  BY DEF OrdInv, IndInv, TypeOK
<1>2. published' = published /\ index' = index
  OBVIOUS
<1>3. \A n, j : Lacks(n, j)' <=> Lacks(n, j)
  BY <1>2 DEF Lacks
<1>4. StampsTell' /\ OwnersHold' /\ NoGaps'
  BY <1>2, <1>3 DEF OrdInv, StampsTell, OwnersHold, NoGaps
<1>5. PeersAhead'
  BY <1>1, <1>2, <1>3 DEF OrdInv, PeersAhead
<1>6. MarksCurrent'
  BY <1>1, <1>2 DEF OrdInv, MarksCurrent
<1>7. AnswersWhole'
  <2> SUFFICES ASSUME NEW l \in Links
               PROVE  /\ pull'[l].phase # "applying" => pull'[l].items = {}
                      /\ \A v, w \in pull'[l].items : KeyOf(v) = KeyOf(w) => v = w
                      /\ \A it \in pull'[l].items, j \in published :
                            Accepts(j) /\ j.cell = it.cell /\ Newer(it, j) =>
                               \/ ~Lacks(l[1], j)
                               \/ \E v \in pull'[l].items : KeyOf(v) = KeyOf(j) /\ ~Newer(j, v)
    BY <1>2, <1>3 DEF AnswersWhole
  <2>1. CASE l = k
    BY <1>1, <2>1
  <2>2. CASE l # k
    BY <1>1, <2>2 DEF OrdInv, AnswersWhole
  <2> QED BY <2>1, <2>2
<1> QED BY <1>4, <1>5, <1>6, <1>7 DEF OrdInv

\* A request carries the watermarks of the index as it is.
LEMMA BeginOrdered ==
    ASSUME OrderedMesh, OrdInv, IndInv', NEW k \in Links, BeginPull(k[1], k[2])
    PROVE  OrdInv'
<1> DEFINE r == [phase |-> "asked", at |-> now, items |-> {},
                 marks |-> Watermarks(CurrentItems(index[k[1]], now), Cells)]
<1>1. UNCHANGED <<published, index>> /\ pull' = [pull EXCEPT ![k] = r]
  BY LinkIsPair DEF BeginPull
<1>2. CurrentItems(index[k[1]], now) = Filed(index[k[1]])
  <2>1. IndInv /\ k[1] \in Nodes /\ now \in 0..MaxTime
    BY LinkIsPair, BoundsAssumption DEF OrdInv, IndInv, TypeOK
  <2> QED BY <2>1, AllCurrent
<1>3. r.phase = "asked" /\ r.items = {} /\ r.marks = Watermarks(Filed(index[k[1]]), Cells)
  BY <1>2
<1> HIDE DEF r
<1> QED BY <1>1, <1>3, PullOrdered

\* What an asking link is answered, if anything, is all it lacks up to what it
\* brings.
LEMMA ServeOrdered ==
    ASSUME OrderedMesh, OrdInv, IndInv', NEW k \in Links, Serve(k[1], k[2])
    PROVE  /\ OrdInv'
           /\ \A l \in Links :
                 pull[l].phase = "asked" /\ pull'[l].phase = "applying" =>
                    \A it \in pull'[l].items : Lacks(l[1], it)
<1> DEFINE S == Filed(index[k[2]])
           D == Diff(S, pull[k].marks, MaxItems)
           r == IF D = {} THEN Idle
                ELSE [phase |-> "applying", at |-> 0, marks |-> NoMarks, items |-> D]
<1>0. IndInv /\ k[1] \in Nodes /\ k[2] \in Nodes /\ pull[k].phase = "asked"
  BY LinkIsPair DEF OrdInv, Serve
<1>1. CurrentItems(index[k[2]], pull[k].at) = S
  <2>1. pull[k].at \in 0..MaxTime
    BY <1>0 DEF IndInv, TypeOK
  <2> QED BY <1>0, <2>1, AllCurrent
<1>2. UNCHANGED <<published, index>> /\ pull' = [pull EXCEPT ![k] = r]
  BY <1>1, LinkIsPair DEF Serve
<1>3. r.items = D /\ r.phase # "asked" /\ (r.phase # "applying" => r.items = {})
  BY DEF Idle
<1> HIDE DEF r
<1>4. D \subseteq Selected(S, pull[k].marks) /\ D \subseteq S
  BY DEF Diff, Truncate, Selected
<1>5. \A v, w \in D : KeyOf(v) = KeyOf(w) => v = w
  BY <1>0, <1>4, FiledFacts DEF WellKeyed
<1>6. \A it \in D : ~Lacks(k[2], it)
  BY <1>0, <1>4, FiledFacts
<1>7. \A it \in D, j \in published :
          Accepts(j) /\ j.cell = it.cell /\ Newer(it, j) =>
             ~Lacks(k[1], j) \/ \E v \in D : KeyOf(v) = KeyOf(j) /\ ~Newer(j, v)
  BY <1>0, ServeWhole
<1>8. OrdInv'
  <2>1. /\ \A v, w \in r.items : KeyOf(v) = KeyOf(w) => v = w
        /\ \A it \in r.items : ~Lacks(k[2], it)
    BY <1>3, <1>5, <1>6
  <2>2. \A it \in r.items, j \in published :
            Accepts(j) /\ j.cell = it.cell /\ Newer(it, j) =>
               ~Lacks(k[1], j) \/ \E v \in r.items : KeyOf(v) = KeyOf(j) /\ ~Newer(j, v)
    BY <1>3, <1>7
  <2> HIDE DEF D
  <2> QED BY <1>2, <1>3, <2>1, <2>2, PullOrdered
<1>9. \A it \in D : Lacks(k[1], it)
  BY <1>0, <1>4, ServeLacks
<1>10. \A l \in Links : pull'[l] = IF l = k THEN r ELSE pull[l]
  BY <1>0, <1>2 DEF IndInv, TypeOK
<1> QED BY <1>3, <1>8, <1>9, <1>10

LEMMA LoseOrdered ==
    ASSUME OrderedMesh, OrdInv, IndInv', NEW k \in Links, LosePull(k[1], k[2])
    PROVE  OrdInv'
<1>1. UNCHANGED <<published, index>> /\ pull' = [pull EXCEPT ![k] = Idle]
  BY LinkIsPair DEF LosePull
<1>2. Idle.phase = "idle" /\ Idle.items = {}
  BY DEF Idle
<1> QED BY <1>1, <1>2, PullOrdered

\* The first item of an answer leaves no gap behind it: what it is newer than,
\* and the requester lacks, would have come before it.
LEMMA ApplyOrdered ==
    ASSUME OrderedMesh, OrdInv, IndInv', NEW k \in Links, ApplyItem(k[1], k[2])
    PROVE  OrdInv'
<1> DEFINE n == k[1]
<1>0. IndInv /\ n \in Nodes
  BY LinkIsPair DEF OrdInv
<1>1. PICK it \in pull[k].items :
         /\ \A o \in pull[k].items \ {it} : SortsBefore(it, o)
         /\ index' = [index EXCEPT ![n] = Upsert(@, it)]
         /\ pull' = [pull EXCEPT ![k] =
                       IF pull[k].items \ {it} = {} THEN Idle
                       ELSE [@ EXCEPT !.items = pull[k].items \ {it}]]
         /\ UNCHANGED <<now, restarts, published>>
  BY LinkIsPair DEF ApplyItem
<1>2. it \in Items /\ it \in published /\ Accepts(it) /\ KeyOf(it) \in Keys
  BY <1>0, ItemFacts DEF IndInv, TypeOK, OnlyPublishedSummaries
<1>3. \A m \in Nodes, j \in Items : ~Lacks(m, j) => ~Lacks(m, j)'
  BY <1>0, <1>1, <1>2, LacksForward
<1>4. ~Lacks(n, it)'
  BY <1>0, <1>1, <1>2, UpsertHas
<1>5. \A m \in Nodes, i \in Keys :
          index'[m][i] = index[m][i] \/ (m = n /\ index'[m][i] = it)
  <2>1. index \in [Nodes -> [Keys -> Items \union {None}]]
    BY <1>0 DEF IndInv, TypeOK
  <2>2. Upsert(index[n], it) = index[n] \/
        Upsert(index[n], it) = [index[n] EXCEPT ![KeyOf(it)] = it]
    BY DEF Upsert
  <2> QED BY <1>0, <1>1, <1>2, <2>1, <2>2
<1>6. /\ published \subseteq Items
      /\ \A l \in Links : l[1] \in Nodes /\ l[2] \in Nodes /\ pull[l].items \subseteq Items
      /\ \A m \in Nodes, i \in Keys :
            index[m][i] # None => index[m][i] \in published /\ index[m][i] \in Items
  BY <1>0, LinkIsPair DEF IndInv, TypeOK, OnlyPublishedSummaries
<1>7. \A l \in Links : l # k => l[1] # n /\ pull'[l] = pull[l] /\ index'[l[1]] = index[l[1]]
  BY <1>0, <1>1, <1>6 DEF OrderedMesh, IndInv, TypeOK
<1>8. pull'[k].items = pull[k].items \ {it} /\ pull'[k].phase # "asked"
      /\ (pull'[k].phase # "applying" => pull'[k].items = {})
  <2>1. pull[k].phase = "applying"
    BY <1>1 DEF OrdInv, AnswersWhole
  <2> QED BY <1>0, <1>1, <2>1 DEF IndInv, TypeOK, Idle
<1>9. ASSUME NEW j \in published, NEW v \in Items, v = it, KeyOf(v) = KeyOf(j), ~Newer(j, v)
      PROVE  ~Lacks(n, j)'
  <2>1. PICK x : x = index'[n][KeyOf(it)]
    OBVIOUS
  <2>2. x # None /\ ~Newer(it, x)
    BY <1>4, <2>1 DEF Lacks
  <2>3. x \in Items
    BY <1>0, <1>2, <1>5, <1>6, <2>1, <2>2
  <2>4. ~Newer(j, x)
    BY <1>6, <1>9, <2>2, <2>3, ItemFacts, NotNewerTransitive
  <2> QED BY <1>9, <2>1, <2>2, <2>4 DEF Lacks
<1>10. StampsTell' /\ OwnersHold'
  <2>1. \A j \in published : j \in Items /\ Origin[j.cell] \in Nodes
    BY <1>6, ItemFacts
  <2> QED BY <1>1, <1>3, <2>1 DEF OrdInv, StampsTell, OwnersHold
<1>11. NoGaps'
  <2> SUFFICES ASSUME NEW m \in Nodes, NEW i \in Keys, NEW j \in published,
                      index'[m][i] # None, Accepts(j),
                      j.cell = index'[m][i].cell, Newer(index'[m][i], j)
               PROVE  ~Lacks(m, j)'
    BY <1>1 DEF NoGaps
  <2>1. CASE index'[m][i] = index[m][i]
    BY <1>3, <1>6, <2>1 DEF OrdInv, NoGaps
  <2>2. CASE m = n /\ index'[m][i] = it
    <3>1. CASE ~Lacks(n, j)
      BY <1>0, <1>3, <1>6, <2>2, <3>1
    <3>2. ASSUME NEW v \in pull[k].items, KeyOf(v) = KeyOf(j), ~Newer(j, v)
          PROVE  ~Lacks(n, j)'
      <4>1. v \in Items /\ v.cell = it.cell /\ v.entity = j.entity /\ it.entity >= v.entity
        BY <1>2, <1>6, <2>2, <3>2 DEF KeyOf, OrderedMesh
      <4>2. v = it
        BY <1>1, <1>2, <4>1, ItemFacts DEF SortsBefore
      <4> QED BY <1>9, <3>2, <4>1, <4>2
    <3> QED BY <2>2, <3>1, <3>2 DEF OrdInv, AnswersWhole
  <2> QED BY <1>5, <2>1, <2>2
<1>12. PeersAhead'
  <2>1. ASSUME NEW l \in Links, NEW i \in Keys, NEW x \in Items, x = index'[l[1]][i]
        PROVE  ~Lacks(l[2], x)'
    <3>1. CASE x = index[l[1]][i]
      BY <1>3, <1>6, <2>1, <3>1, ItemFacts DEF OrdInv, PeersAhead
    <3>2. CASE l[1] = n /\ x = it
      <4>1. l = k
        BY <3>2 DEF OrderedMesh
      <4> QED BY <1>3, <1>6, <2>1, <3>2, <4>1 DEF OrdInv, PeersAhead
    <3> QED BY <1>5, <1>6, <2>1, <3>1, <3>2
  <2>2. ASSUME NEW l \in Links, NEW x \in pull'[l].items PROVE ~Lacks(l[2], x)'
    <3>1. x \in pull[l].items
      BY <1>7, <1>8, <2>2
    <3> QED BY <1>3, <1>6, <3>1 DEF OrdInv, PeersAhead
  <2>3. \A l \in Links, i \in Keys : index'[l[1]][i] # None => index'[l[1]][i] \in Items
    BY <1>2, <1>5, <1>6
  <2> QED BY <2>1, <2>2, <2>3 DEF PeersAhead
<1>13. MarksCurrent'
  BY <1>7, <1>8 DEF OrdInv, MarksCurrent
<1>14. AnswersWhole'
  <2> SUFFICES ASSUME NEW l \in Links
               PROVE  /\ pull'[l].phase # "applying" => pull'[l].items = {}
                      /\ \A v, w \in pull'[l].items : KeyOf(v) = KeyOf(w) => v = w
                      /\ \A x \in pull'[l].items, j \in published :
                            Accepts(j) /\ j.cell = x.cell /\ Newer(x, j) =>
                               \/ ~Lacks(l[1], j)'
                               \/ \E v \in pull'[l].items : KeyOf(v) = KeyOf(j) /\ ~Newer(j, v)
    BY <1>1 DEF AnswersWhole
  <2>1. pull'[l].items \subseteq pull[l].items
        /\ (pull'[l].phase # "applying" => pull'[l].items = {})
    BY <1>7, <1>8 DEF OrdInv, AnswersWhole
  <2>2. \A v, w \in pull'[l].items : KeyOf(v) = KeyOf(w) => v = w
    BY <2>1 DEF OrdInv, AnswersWhole
  <2>3. ASSUME NEW x \in pull'[l].items, NEW j \in published,
               Accepts(j), j.cell = x.cell, Newer(x, j)
        PROVE  \/ ~Lacks(l[1], j)'
               \/ \E v \in pull'[l].items : KeyOf(v) = KeyOf(j) /\ ~Newer(j, v)
    <3>1. CASE ~Lacks(l[1], j)
      BY <1>3, <1>6, <3>1
    <3>2. ASSUME NEW v \in pull[l].items, KeyOf(v) = KeyOf(j), ~Newer(j, v)
          PROVE  \/ ~Lacks(l[1], j)'
                 \/ \E w \in pull'[l].items : KeyOf(w) = KeyOf(j) /\ ~Newer(j, w)
      <4>1. CASE v \in pull'[l].items
        BY <3>2, <4>1
      <4>2. CASE v \notin pull'[l].items
        <5>1. l = k /\ v = it
          BY <1>7, <1>8, <4>2
        <5> QED BY <1>2, <1>9, <3>2, <5>1
      <4> QED BY <4>1, <4>2
    <3> QED BY <2>1, <2>3, <3>1, <3>2 DEF OrdInv, AnswersWhole
  <2> QED BY <2>1, <2>2, <2>3
<1> QED BY <1>10, <1>11, <1>12, <1>13, <1>14 DEF OrdInv

LEMMA NextOrdInv ==
    ASSUME OrderedMesh, OrdInv, [Next]_vars
    PROVE  /\ OrdInv'
           /\ \A l \in Links :
                 pull[l].phase = "asked" /\ pull'[l].phase = "applying" =>
                    \A it \in pull'[l].items : Lacks(l[1], it)
<1> DEFINE Sent == \A l \in Links :
                      pull[l].phase = "asked" /\ pull'[l].phase = "applying" =>
                         \A it \in pull'[l].items : Lacks(l[1], it)
<1>0. IndInv /\ IndInv'
  BY NextIndInv DEF OrdInv
<1>1. pull' = pull => Sent
  OBVIOUS
<1>2. ASSUME NEW k \in Links, NEW r, pull' = [pull EXCEPT ![k] = r], r.phase # "applying"
      PROVE  Sent
  BY <1>0, <1>2 DEF IndInv, TypeOK
<1>3. CASE Tick \/ UNCHANGED vars
  <2>1. published' = published /\ index' = index /\ pull' = pull
    BY <1>3 DEF Tick, vars
  <2>2. StampsTell' /\ OwnersHold' /\ NoGaps'
    BY <2>1 DEF OrdInv, StampsTell, OwnersHold, NoGaps, Lacks
  <2>3. PeersAhead' /\ MarksCurrent' /\ AnswersWhole'
    BY <2>1 DEF OrdInv, PeersAhead, MarksCurrent, AnswersWhole, Lacks
  <2> QED BY <1>0, <1>1, <2>1, <2>2, <2>3 DEF OrdInv
<1>4. ASSUME NEW it \in Items, Publish(it) PROVE OrdInv' /\ Sent
  BY <1>0, <1>1, <1>4, PublishOrdered DEF Publish
<1>5. ASSUME NEW k \in Links, BeginPull(k[1], k[2]) PROVE OrdInv' /\ Sent
  <2> DEFINE r == [phase |-> "asked", at |-> now, items |-> {},
                   marks |-> Watermarks(CurrentItems(index[k[1]], now), Cells)]
  <2>1. pull' = [pull EXCEPT ![k] = r] /\ r.phase # "applying"
    BY <1>5, LinkIsPair DEF BeginPull
  <2> HIDE DEF r
  <2> QED BY <1>0, <1>2, <1>5, <2>1, BeginOrdered
<1>6. ASSUME NEW k \in Links, Serve(k[1], k[2]) PROVE OrdInv' /\ Sent
  BY <1>0, <1>6, ServeOrdered
<1>7. ASSUME NEW k \in Links, LosePull(k[1], k[2]) PROVE OrdInv' /\ Sent
  <2>1. pull' = [pull EXCEPT ![k] = Idle] /\ Idle.phase # "applying"
    BY <1>7, LinkIsPair DEF LosePull, Idle
  <2> QED BY <1>0, <1>2, <1>7, <2>1, LoseOrdered
<1>8. ASSUME NEW k \in Links, ApplyItem(k[1], k[2]) PROVE OrdInv' /\ Sent
  <2>1. pull[k].phase = "applying"
    BY <1>8, LinkIsPair DEF ApplyItem, OrdInv, AnswersWhole
  <2>2. \A l \in Links : l # k => pull'[l] = pull[l]
    BY <1>0, <1>8, LinkIsPair DEF ApplyItem, IndInv, TypeOK
  <2> QED BY <1>0, <1>8, <2>1, <2>2, ApplyOrdered
<1>9. ASSUME NEW n \in Nodes, Restart(n) PROVE FALSE
  BY <1>0, <1>9 DEF Restart, OrderedMesh, IndInv, TypeOK
<1> QED BY <1>3, <1>4, <1>5, <1>6, <1>7, <1>8, <1>9 DEF Next

\* "Each peer sends only missing or newer selected summaries" holds of a mesh
\* whose facts come in order over a tree of links, whatever bound Diff cuts its
\* answers at, whatever is lost and however the pulls overlap.
THEOREM NothingSentTwice ==
    ASSUME OrderedMesh
    PROVE  Spec => OnlyMissingOrNewer
<1> DEFINE Sent == \A l \in Links :
                      pull[l].phase = "asked" /\ pull'[l].phase = "applying" =>
                         \A it \in pull'[l].items : Lacks(l[1], it)
<1>1. Init => OrdInv
  <2> SUFFICES ASSUME Init PROVE OrdInv
    OBVIOUS
  <2>1. \A n \in Nodes, k \in Keys : index[n][k] = None
    BY DEF Init, EmptyIndex
  <2>2. \A l \in Links : pull[l].items = {} /\ pull[l].phase = "idle" /\ l[1] \in Nodes
    BY LinkIsPair DEF Init, Idle
  <2> QED BY <2>1, <2>2, InitIndInv
      DEF Init, OrdInv, StampsTell, OwnersHold, NoGaps, PeersAhead, MarksCurrent, AnswersWhole
<1>2. OrdInv /\ [Next]_vars => OrdInv' /\ [Sent]_vars
  BY NextOrdInv
<1> QED BY <1>1, <1>2, PTL DEF Spec, OnlyMissingOrNewer
=============================================================================
