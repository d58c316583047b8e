----------------------------- MODULE MCMeshSync -----------------------------
(***************************************************************************)
(* Instances of MeshSync for TLC.                                          *)
(***************************************************************************)
EXTENDS MeshSync

CONSTANTS a, b, c

Summary(cell, entity, seq, hlc, op, exp) ==
    [cell |-> cell, entity |-> entity, seq |-> seq, hlc |-> hlc, op |-> op,
     hash |-> op, exp |-> exp, kind |-> "mavlink-projection"]

ASSUME OperationsAreUnique

TwoNodes == {a, b}
ThreeNodes == {a, b, c}

\* b and c reach a's summaries only through each other's.
RelayLinks == {<<b, a>>, <<c, b>>, <<b, c>>}
OwnedByA == [cell \in {1} |-> a]

\* One cell stamped by a hybrid logical clock: two versions of entity 1 that
\* tie, the first of which expires, a later one of entity 2, and a raw frame.
RelayItems ==
    { Summary(1, 1, 0, 1, 1, 2), Summary(1, 1, 0, 1, 2, 9),
      Summary(1, 2, 0, 2, 3, 9),
      [Summary(1, 2, 0, 3, 4, 9) EXCEPT !.kind = "mavlink-raw"] }

\* The catch-up of unreliable_link_test.go:92, where every entity is published
\* once and in entity order, and the last of them once more; b hands it on to
\* c. Stamps are sequence numbers.
LineLinks == {<<b, a>>, <<c, b>>}
CatchUpItems == { Summary(1, IF n = 5 THEN 4 ELSE n, n, 0, n, 9) : n \in 1..5 }

\* Two facts of one cell, the later entity stated first.
CrossedLink == {<<b, a>>}
CrossedItems == { Summary(1, 2, 1, 0, 1, 9), Summary(1, 1, 2, 0, 2, 9) }
=============================================================================
