------------------------------ MODULE MeshOrder ------------------------------
(***************************************************************************)
(* The order on mesh summaries that internal/mesh uses to merge them, and  *)
(* the pure functions of sync.go built on it: which version of a fact is   *)
(* the newer one, what a node keeps when it is handed a summary, how a set *)
(* of summaries is digested into one watermark per cell, and which         *)
(* summaries a node selects for a peer that shows its watermarks.          *)
(*                                                                         *)
(* A summary ("item") is a record                                          *)
(*    cell    origin node, vehicle and predicate group, as their rank in   *)
(*            the order sortItems gives them                               *)
(*    entity  the rank of the entity id                                    *)
(*    seq     OriginSequence, 0 when the origin stamps with a clock        *)
(*    hlc     the hybrid logical time as a rank, 0 for none                *)
(*    op      the rank of the operation id among strings                   *)
(*    hash    the payload hash                                             *)
(*    exp     ExpiresAt                                                    *)
(*    kind    the source kind                                              *)
(*                                                                         *)
(* A definition named Op_Fault, here and in the other modules, is Op with  *)
(* one mistake in it. The specifications do not use it: it stands in for   *)
(* Op to show that a property would notice.                                *)
(***************************************************************************)
EXTENDS Naturals, FiniteSets

CONSTANT None   \* no item filed under a key, no watermark for a cell

\* The source kinds of envelope.go; all but the raw frames replicate.
SourceKinds == {"mavlink-projection", "mavlink-raw", "peer-summary",
                "operator", "rule-engine"}

ReplicatesOverMeshByDefault(kind) == kind \in SourceKinds \ {"mavlink-raw"}

\* What Upsert refuses with an error: an envelope without an ordering stamp
\* (Envelope.Validate) and a kind that stays on its node.
Accepts(it) ==
    /\ it.seq > 0 \/ it.hlc > 0
    /\ ReplicatesOverMeshByDefault(it.kind)

\* watermarkNewerThan, on anything that carries seq, hlc and op. Its third
\* branch (ObservedAt) needs both stamps absent, which Validate rules out for
\* items and for watermarks alike. A clock tie is broken by nothing.
Newer(a, b) ==
    IF a.seq > 0 \/ b.seq > 0
    THEN a.seq > b.seq \/ (a.seq = b.seq /\ a.op > b.op)
    ELSE a.hlc > b.hlc

\* The index files one summary per cell and entity.
KeyOf(it) == <<it.cell, it.entity>>

\* sortItems on items of one index, whose keys are distinct.
SortsBefore(a, b) ==
    \/ a.cell < b.cell
    \/ a.cell = b.cell /\ a.entity < b.entity

-----------------------------------------------------------------------------
(* The SummaryIndex: a function from keys to an item or None.              *)

\* Fault: the kind and the envelope are not looked at.
Upsert_Unchecked(idx, it) ==
    IF idx[KeyOf(it)] = None \/ Newer(it, idx[KeyOf(it)])
    THEN [idx EXCEPT ![KeyOf(it)] = it]
    ELSE idx

\* Fault: a version that is not older, rather than newer, replaces.
Upsert_TieReplaces(idx, it) ==
    IF /\ Accepts(it)
       /\ idx[KeyOf(it)] = None \/ ~Newer(idx[KeyOf(it)], it)
    THEN [idx EXCEPT ![KeyOf(it)] = it]
    ELSE idx

\* The body of Upsert: an item that does not validate or replicate is an
\* error and changes nothing; one not newer than what is filed is dropped.
Upsert(idx, it) ==
    IF /\ Accepts(it)
       /\ idx[KeyOf(it)] = None \/ Newer(it, idx[KeyOf(it)])
    THEN [idx EXCEPT ![KeyOf(it)] = it]
    ELSE idx

Filed(idx) == {idx[k] : k \in DOMAIN idx} \ {None}

\* currentItems: expired items stay filed, they are only left out here.
CurrentItems(idx, t) == {it \in Filed(idx) : it.exp > t}

InCell(S, c) == {it \in S : it.cell = c}

-----------------------------------------------------------------------------
(* Watermarks: one per cell that has an item.                              *)

\* hashCell: the facts a cell states, whatever their stamps and expiry.
HashCell(S) == {<<it.entity, it.op, it.hash>> : it \in S}

\* The scan of watermarksForItems: the newest item, the first in sort order
\* when several are newest.
Top(S) ==
    CHOOSE t \in S : \A o \in S \ {t} :
        ~Newer(o, t) /\ (Newer(t, o) \/ SortsBefore(t, o))

\* ItemCount is the cardinality of the digest: entities are distinct in a cell.
Watermark(S) ==
    LET top == Top(S)
    IN  [seq |-> top.seq, hlc |-> top.hlc, op |-> top.op, hash |-> HashCell(S)]

\* watermarksForItems; None where a cell has no entry.
Watermarks(S, Cells) ==
    [c \in Cells |-> IF InCell(S, c) = {} THEN None ELSE Watermark(InCell(S, c))]

\* Fault: the digest is left out.
SameSyncState_StampOnly(w, peer) ==
    w.seq = peer.seq /\ w.hlc = peer.hlc /\ w.op = peer.op

SameSyncState(w, peer) == w = peer

DigestDiffers(w, peer) == w.hash # peer.hash

-----------------------------------------------------------------------------
(* Diff: what a node with the current items S selects for a peer.          *)

\* Fault: a cell that is ahead is passed over.
Sends_NothingWhenAhead(it, local, peer) ==
    \/ peer = None
    \/ /\ ~SameSyncState(local, peer)
       /\ ~Newer(local, peer) /\ DigestDiffers(local, peer)

\* Fault: a cell that is ahead is sent whole.
Sends_WholeCell(it, local, peer) ==
    peer = None \/ ~SameSyncState(local, peer)

\* The switch of Diff, for one item of a cell whose watermark is local: all of
\* a cell the peer has not heard of; nothing when both states agree; what is
\* newer than the peer's newest when the cell is ahead; otherwise the whole
\* cell when the digests differ.
Sends(it, local, peer) ==
    \/ peer = None
    \/ /\ ~SameSyncState(local, peer)
       /\ IF Newer(local, peer) THEN Newer(it, peer)
                              ELSE DigestDiffers(local, peer)

Selected(S, marks) ==
    {it \in S : Sends(it, Watermark(InCell(S, it.cell)), marks[it.cell])}

\* Fault: the tail of the sorted selection.
Truncate_Tail(S, MaxItems) ==
    IF MaxItems = 0 THEN S
    ELSE {it \in S : Cardinality({o \in S : SortsBefore(it, o)}) < MaxItems}

\* The first MaxItems of the sorted selection; 0 means no bound.
Truncate(S, MaxItems) ==
    IF MaxItems = 0 THEN S
    ELSE {it \in S : Cardinality({o \in S : SortsBefore(o, it)}) < MaxItems}

Diff(S, marks, MaxItems) == Truncate(Selected(S, marks), MaxItems)
=============================================================================
