---------------------------- MODULE CsapiServer ----------------------------
(***************************************************************************)
(* A CS API server as its readers may take it to be: resources appear one  *)
(* at a time, never before the resource they refer to, and stay.           *)
(* CsapiBridge implements it; GraphView reads it.                          *)
(***************************************************************************)
EXTENDS CsapiResources

VARIABLE server   \* the resources the server has

Materialize(p) ==
    /\ Parents(p) \subseteq server
    /\ server' = server \cup {p}

ServerInit == server = {}

ServerNext == \E p \in Resources : Materialize(p)

ServerSpec == ServerInit /\ [][ServerNext]_server
=============================================================================
