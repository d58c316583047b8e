--------------------------- MODULE MeshOrderProofs ---------------------------
(***************************************************************************)
(* Facts about the order, the index and the diff of MeshOrder.             *)
(***************************************************************************)
EXTENDS MeshOrder, FiniteSetTheorems, WellFoundedInduction, TLAPS

\* What the lemmas ask of an item, or of a watermark, to compare its stamp.
Stamped(x) == x.seq \in Nat /\ x.hlc \in Nat /\ x.op \in Nat

\* Nothing is newer than itself: an item handed over twice is dropped the
\* second time (itemNewerThanWatermark in Upsert).
LEMMA NewerIrreflexive ==
    ASSUME NEW x, Stamped(x)
    PROVE  ~Newer(x, x)
BY DEF Newer, Stamped

\* Newer versions add up, whatever mix of sequences and clocks stamps them.
LEMMA NewerTransitive ==
    ASSUME NEW x, NEW y, NEW z, Stamped(x), Stamped(y), Stamped(z),
           Newer(x, y), Newer(y, z)
    PROVE  Newer(x, z)
BY DEF Newer, Stamped

\* A version that is not newer than another is not newer than what beats that.
LEMMA NotNewerTransitive ==
    ASSUME NEW x, NEW y, NEW z, Stamped(x), Stamped(y), Stamped(z),
           ~Newer(x, y), ~Newer(y, z)
    PROVE  ~Newer(x, z)
BY DEF Newer, Stamped

\* A finite set with a strict order has an element nothing precedes.
LEMMA FiniteMinimal ==
    ASSUME NEW S, IsFiniteSet(S), S # {}, NEW R,
           \A x \in S : <<x, x>> \notin R,
           \A x, y, z \in S : <<x, y>> \in R /\ <<y, z>> \in R => <<x, z>> \in R
    PROVE  \E t \in S : \A o \in S : <<o, t>> \notin R
<1> DEFINE Below(x) == {y \in S : <<y, x>> \in R}
           T == {Below(x) : x \in S}
<1>1. T \subseteq FiniteSubsetsOf(S) /\ T # {}
  <2>1. ASSUME NEW x \in S PROVE Below(x) \in FiniteSubsetsOf(S)
    BY FS_Subset DEF FiniteSubsetsOf
  <2> HIDE DEF Below
  <2>2. PICK x \in S : TRUE
    OBVIOUS
  <2>3. Below(x) \in T
    OBVIOUS
  <2> QED BY <2>1, <2>3
<1>2. IsWellFoundedOn(StrictSubsetOrdering(S), FiniteSubsetsOf(S))
  BY FS_StrictSubsetOrderingWellFounded
<1>3. PICK B \in T : \A C \in T : <<C, B>> \notin StrictSubsetOrdering(S)
  <2> HIDE DEF T
  <2> QED BY <1>1, <1>2, WFMin
<1>4. PICK t \in S : B = Below(t)
  OBVIOUS
<1>5. ASSUME NEW o \in S, <<o, t>> \in R PROVE FALSE
  <2>1. Below(o) \subseteq Below(t) /\ o \in Below(t) /\ o \notin Below(o)
    BY <1>5
  <2>2. <<Below(o), Below(t)>> \in StrictSubsetOrdering(S)
    BY <2>1 DEF StrictSubsetOrdering
  <2> QED BY <2>2, <1>3, <1>4
<1> QED BY <1>5
-----------------------------------------------------------------------------
(* Sets of items of one index.                                             *)

\* Items that can be compared, no two of them filed under one key.
WellKeyed(S) ==
    /\ \A x \in S : Stamped(x) /\ x.cell \in Nat /\ x.entity \in Nat
    /\ \A x, y \in S : KeyOf(x) = KeyOf(y) => x = y

\* sortItems orders the items of an index totally: it has no ties to break.
LEMMA SortsBeforeTotal ==
    ASSUME NEW S, WellKeyed(S), NEW x \in S, NEW y \in S, x # y
    PROVE  SortsBefore(x, y) \/ SortsBefore(y, x)
BY DEF WellKeyed, KeyOf, SortsBefore

\* The scan of watermarksForItems finds an item of the cell that no other item
\* of the cell is newer than.
LEMMA TopIsNewest ==
    ASSUME NEW S, IsFiniteSet(S), S # {}, WellKeyed(S)
    PROVE  Top(S) \in S /\ \A o \in S : ~Newer(o, Top(S))
<1> DEFINE Beats(x, y) == Newer(x, y) \/ (~Newer(y, x) /\ SortsBefore(x, y))
           R == {p \in S \X S : Beats(p[1], p[2])}
<1>1. \A x \in S : <<x, x>> \notin R
  BY NewerIrreflexive DEF WellKeyed, SortsBefore
<1>2. \A x, y, z \in S : <<x, y>> \in R /\ <<y, z>> \in R => <<x, z>> \in R
  <2> SUFFICES ASSUME NEW x \in S, NEW y \in S, NEW z \in S,
                      Beats(x, y), Beats(y, z)
               PROVE  Beats(x, z)
    OBVIOUS
  <2> QED BY DEF WellKeyed, Stamped, Newer, SortsBefore
<1>3. PICK t \in S : \A o \in S : <<o, t>> \notin R
  <2> HIDE DEF R
  <2> QED BY <1>1, <1>2, FiniteMinimal
<1>4. \A o \in S \ {t} : ~Newer(o, t) /\ (Newer(t, o) \/ SortsBefore(t, o))
  <2> SUFFICES ASSUME NEW o \in S, o # t
               PROVE  ~Newer(o, t) /\ (Newer(t, o) \/ SortsBefore(t, o))
    OBVIOUS
  <2>1. ~Beats(o, t)
    BY <1>3
  <2> QED BY <2>1, SortsBeforeTotal
<1>5. /\ Top(S) \in S
      /\ \A o \in S \ {Top(S)} : ~Newer(o, Top(S))
  BY <1>4 DEF Top
<1> QED BY <1>5, NewerIrreflexive DEF WellKeyed

\* A bound on the answer never empties it: sort order has a first item.
LEMMA TruncateNonempty ==
    ASSUME NEW S, IsFiniteSet(S), S # {}, WellKeyed(S), NEW max \in Nat
    PROVE  Truncate(S, max) # {}
<1> DEFINE R == {p \in S \X S : SortsBefore(p[1], p[2])}
<1>1. PICK t \in S : \A o \in S : <<o, t>> \notin R
  <2>1. \A x \in S : <<x, x>> \notin R
    BY DEF WellKeyed, SortsBefore
  <2>2. \A x, y, z \in S : <<x, y>> \in R /\ <<y, z>> \in R => <<x, z>> \in R
    BY DEF WellKeyed, SortsBefore
  <2> HIDE DEF R
  <2> QED BY <2>1, <2>2, FiniteMinimal
<1>2. {o \in S : SortsBefore(o, t)} = {}
  BY <1>1
<1> QED BY <1>2, FS_EmptySet DEF Truncate

\* A cell is left out of a diff only if the peer's digest states the same facts.
LEMMA NothingSelected ==
    ASSUME NEW S, IsFiniteSet(S), WellKeyed(S), NEW marks,
           Selected(S, marks) = {}, NEW it \in S,
           marks[it.cell] # None => Stamped(marks[it.cell])
    PROVE  /\ marks[it.cell] # None
           /\ HashCell(InCell(S, it.cell)) = marks[it.cell].hash
<1> DEFINE c == it.cell
           C == InCell(S, c)
           local == Watermark(C)
           peer == marks[c]
<1>1. \A o \in C : o \in S /\ o.cell = c /\ ~Sends(o, local, peer)
  BY DEF Selected, InCell
<1>2. it \in C
  BY DEF InCell
<1>3. /\ local.seq = Top(C).seq /\ local.hlc = Top(C).hlc /\ local.op = Top(C).op
      /\ local.hash = HashCell(C)
  BY DEF Watermark
<1>4. Top(C) \in C
  <2>1. C \subseteq S /\ IsFiniteSet(C) /\ WellKeyed(C)
    <3>1. C \subseteq S
      BY DEF InCell
    <3> QED BY <3>1, FS_Subset DEF WellKeyed
  <2> QED BY <1>2, <2>1, TopIsNewest
<1>5. peer # None
  BY <1>1, <1>2 DEF Sends
<1>6. CASE SameSyncState(local, peer)
  BY <1>3, <1>5, <1>6 DEF SameSyncState
<1>7. CASE ~SameSyncState(local, peer) /\ Newer(local, peer)
  <2>1. Newer(Top(C), peer)
    BY <1>3, <1>7 DEF Newer
  <2> QED BY <1>1, <1>4, <1>7, <2>1 DEF Sends
<1>8. CASE ~SameSyncState(local, peer) /\ ~Newer(local, peer)
  BY <1>1, <1>2, <1>3, <1>5, <1>8 DEF Sends, DigestDiffers
<1> QED BY <1>6, <1>7, <1>8

-----------------------------------------------------------------------------
(* Upsert.                                                                 *)

\* An upsert changes one key at most, and only to a newer version that the
\* index accepts.
LEMMA UpsertMoves ==
    ASSUME NEW K, NEW V, NEW idx \in [K -> V], NEW it \in V, KeyOf(it) \in K
    PROVE  /\ Upsert(idx, it) \in [K -> V]
           /\ \A k \in K :
                 \/ Upsert(idx, it)[k] = idx[k]
                 \/ /\ k = KeyOf(it) /\ Upsert(idx, it)[k] = it /\ Accepts(it)
                    /\ idx[k] = None \/ Newer(it, idx[k])
BY DEF Upsert

\* What is cut off comes after all that is kept.
LEMMA TruncateKeepsFirst ==
    ASSUME NEW S, IsFiniteSet(S), WellKeyed(S), NEW max \in Nat,
           NEW x \in Truncate(S, max), NEW y \in S, SortsBefore(y, x)
    PROVE  y \in Truncate(S, max)
<1> DEFINE Before(z) == {o \in S : SortsBefore(o, z)}
<1>1. x \in S
  BY DEF Truncate
<1>2. Before(y) \subseteq Before(x)
  BY <1>1 DEF WellKeyed, SortsBefore
<1>3. IsFiniteSet(Before(x)) /\ IsFiniteSet(Before(y))
  BY FS_Subset
<1>4. /\ Cardinality(Before(y)) <= Cardinality(Before(x))
      /\ Cardinality(Before(y)) \in Nat /\ Cardinality(Before(x)) \in Nat
  BY <1>2, <1>3, FS_Subset, FS_CardinalityType
<1>5. max # 0 => Cardinality(Before(x)) < max
  BY DEF Truncate
<1>6. max # 0 => Cardinality(Before(y)) < max
  <2> HIDE DEF Before
  <2> QED BY <1>4, <1>5
<1> QED BY <1>6 DEF Truncate
=============================================================================
