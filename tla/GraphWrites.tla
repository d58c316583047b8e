----------------------------- MODULE GraphWrites -----------------------------
(***************************************************************************)
(* What a call of GraphClient.UpsertProjection promises its caller, without *)
(* the cache of known entities, the create and update requests or their    *)
(* replies: the call writes its projection to the entity once or not at    *)
(* all, it succeeds only with the revision of that write, and a call that  *)
(* failed may still have written or may write later.                       *)
(***************************************************************************)
EXTENDS Naturals

CONSTANTS
    Writers,    \* goroutines that call UpsertProjection, one call at a time
    Entities,   \* graph entity ids
    MaxCalls,   \* bound: calls of one writer
    None        \* the target of a call that has not begun

Calls == Writers \X (1..MaxCalls)

VARIABLES
    target,     \* the entity of a call
    outcome,    \* how far a call has come
    reported,   \* the revision a call returned, 0 for none
    writes,     \* the revision a call wrote, 0 for none
    kv,         \* the revision of an entity in the graph, 0 when absent
    last        \* the last revision given out

vars == <<target, outcome, reported, writes, kv, last>>

Failures == {"error", "not-found"}
Outcomes == {"none", "pending", "ok"} \union Failures

Init ==
    /\ target = [c \in Calls |-> None]
    /\ outcome = [c \in Calls |-> "none"]
    /\ reported = [c \in Calls |-> 0]
    /\ writes = [c \in Calls |-> 0]
    /\ kv = [e \in Entities |-> 0]
    /\ last = 0

Begin(c, e) ==
    /\ outcome[c] = "none"
    /\ outcome' = [outcome EXCEPT ![c] = "pending"]
    /\ target' = [target EXCEPT ![c] = e]
    /\ UNCHANGED <<reported, writes, kv, last>>

\* The projection reaches the entity: before the call returns, or after it
\* gave up.
Write(c) ==
    /\ outcome[c] \in {"pending"} \union Failures
    /\ writes[c] = 0
    /\ last' = last + 1
    /\ writes' = [writes EXCEPT ![c] = last']
    /\ kv' = [kv EXCEPT ![target[c]] = last']
    /\ UNCHANGED <<target, outcome, reported>>

Succeed(c) ==
    /\ outcome[c] = "pending"
    /\ writes[c] # 0
    /\ outcome' = [outcome EXCEPT ![c] = "ok"]
    /\ reported' = [reported EXCEPT ![c] = writes[c]]
    /\ UNCHANGED <<target, writes, kv, last>>

Fail(c) ==
    /\ outcome[c] = "pending"
    /\ \E why \in Failures : outcome' = [outcome EXCEPT ![c] = why]
    /\ UNCHANGED <<target, reported, writes, kv, last>>

\* The graph loses an entity (its time to live runs out, or it is deleted).
Purge(e) ==
    /\ last' = last + 1
    /\ kv' = [kv EXCEPT ![e] = 0]
    /\ UNCHANGED <<target, outcome, reported, writes>>

Next ==
    \/ \E c \in Calls, e \in Entities : Begin(c, e)
    \/ \E c \in Calls : Write(c) \/ Succeed(c) \/ Fail(c)
    \/ \E e \in Entities : Purge(e)

Spec == Init /\ [][Next]_vars
=============================================================================
