---------------------------- MODULE MCGraphClient ----------------------------
(***************************************************************************)
(* Instances of GraphClient for TLC.                                       *)
(***************************************************************************)
EXTENDS GraphClient, TLC

\* The writers do not differ: runProjector and runLinkMonitor.
Symmetric == Permutations(Writers)
=============================================================================
