--------------------------- MODULE MeshRegisters ---------------------------
(***************************************************************************)
(* What mesh replication promises, without links, watermarks or diffs:     *)
(* every node has a register per origin cell and entity; a register is     *)
(* empty or holds a summary the owner published; it only ever moves to a   *)
(* newer version of the same fact, until its process is restarted.         *)
(***************************************************************************)
EXTENDS MeshOrder

CONSTANTS Nodes, Cells, Entities, Origin, Items

VARIABLES published, register

vars == <<published, register>>

Empty == [k \in Cells \X Entities |-> None]

\* Summaries that may leave their origin.
Replicable == {it \in published : Accepts(it)}

Init ==
    /\ published = {}
    /\ register = [n \in Nodes |-> Empty]

\* The register of n for the fact it states moves forward to it.
MovesTo(n, it) ==
    LET k == KeyOf(it)
    IN  /\ register[n][k] = None \/ Newer(it, register[n][k])
        /\ register' = [register EXCEPT ![n][k] = it]

\* The owner states a fact and holds it, unless it already holds a version
\* that is no older, or the summary is not one that replicates.
Publish(it) ==
    /\ published' = published \union {it}
    /\ \/ Accepts(it) /\ MovesTo(Origin[it.cell], it)
       \/ UNCHANGED register

\* A node learns what some owner has published, from whomever.
Learn(n, it) ==
    /\ it \in Replicable
    /\ MovesTo(n, it)
    /\ UNCHANGED published

Forget(n) ==
    /\ register' = [register EXCEPT ![n] = Empty]
    /\ UNCHANGED published

Next ==
    \/ \E it \in Items : Publish(it)
    \/ \E n \in Nodes, it \in Items : Learn(n, it)
    \/ \E n \in Nodes : Forget(n)

Spec == Init /\ [][Next]_vars
=============================================================================
