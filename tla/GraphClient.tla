----------------------------- MODULE GraphClient -----------------------------
(***************************************************************************)
(* GraphClient.UpsertProjection (internal/semstreams/client.go): writers    *)
(* that share a client and its cache of entities known to exist, and the   *)
(* graph-ingest service that answers their create and update requests.     *)
(*                                                                         *)
(* The service is not in the repository. It is modelled by what the client *)
(* distinguishes: create fails with "exists", update with "not-found", and *)
(* either may fail otherwise. A request that timed out stays in flight: the *)
(* service may still act on it, before or after later requests.            *)
(***************************************************************************)
EXTENDS Naturals

CONSTANTS
    Writers,    \* goroutines that call UpsertProjection, one call at a time
    Entities,   \* graph entity ids
    MaxCalls,   \* bound: calls of one writer
    MaxPurges,  \* bound: entities the graph loses
    None        \* the target of a call that has not begun

ASSUME WritersAssumption == MaxCalls \in Nat \ {0} /\ MaxPurges \in Nat
ASSUME NoTarget == None \notin Entities

Calls == Writers \X (1..MaxCalls)

VARIABLES
    known,      \* GraphClient.known
    begun,      \* calls a writer has begun
    step,       \* the request a writer's call waits for
    reply,      \* the reply to it
    net,        \* requests in flight: <<call, kind>>
    purges,     \* losses so far
    target, outcome, reported, writes, kv, last,   \* as in GraphWrites
    since,      \* history: the last revision when a call began
    purgedAt    \* history: the revision of an entity's last loss

clientVars == <<known, begun, step, reply>>
callVars == <<target, outcome, reported, since>>
graphVars == <<net, purges, writes, kv, last, purgedAt>>
vars == <<clientVars, callVars, graphVars>>

Init ==
    /\ known = {}
    /\ begun = [w \in Writers |-> 0]
    /\ step = [w \in Writers |-> "idle"]
    /\ reply = [w \in Writers |-> "none"]
    /\ net = {}
    /\ purges = 0
    /\ target = [c \in Calls |-> None]
    /\ outcome = [c \in Calls |-> "none"]
    /\ reported = [c \in Calls |-> 0]
    /\ writes = [c \in Calls |-> 0]
    /\ kv = [e \in Entities |-> 0]
    /\ last = 0
    /\ since = [c \in Calls |-> 0]
    /\ purgedAt = [e \in Entities |-> 0]

\* The call a writer is in.
Current(w) == <<w, begun[w]>>

-----------------------------------------------------------------------------
(* The client.                                                             *)

\* UpsertProjection of a projection that has an entity and triples (nothing
\* in the repository makes another): it asks the cache, then sends an update
\* or a create.
UpsertProjection(w, e) ==
    LET c == <<w, begun[w] + 1>>
        kind == IF e \in known THEN "update" ELSE "create"
    IN  /\ step[w] = "idle"
        /\ begun[w] < MaxCalls
        /\ begun' = [begun EXCEPT ![w] = @ + 1]
        /\ step' = [step EXCEPT ![w] = kind]
        /\ net' = net \union {<<c, kind>>}
        /\ target' = [target EXCEPT ![c] = e]
        /\ outcome' = [outcome EXCEPT ![c] = "pending"]
        /\ since' = [since EXCEPT ![c] = last]
        /\ UNCHANGED <<known, reply, reported, purges, writes, kv, last, purgedAt>>

\* The call of w is over.
Return(w, result) ==
    /\ outcome' = [outcome EXCEPT ![Current(w)] = result]
    /\ step' = [step EXCEPT ![w] = "idle"]
    /\ reply' = [reply EXCEPT ![w] = "none"]

\* The call of w goes on with another request.
Ask(w, next, kind) ==
    /\ step' = [step EXCEPT ![w] = next]
    /\ reply' = [reply EXCEPT ![w] = "none"]
    /\ net' = net \union {<<Current(w), kind>>}

\* createProjection or updateProjection got its entity written.
Written(w) ==
    /\ reply[w] = "written"
    /\ known' = known \union {target[Current(w)]}
    /\ reported' = [reported EXCEPT ![Current(w)] = writes[Current(w)]]
    /\ Return(w, "ok")
    /\ UNCHANGED <<begun, target, since, graphVars>>

\* Fault: the update's failure is the call's.
Missing_Fails(w) ==
    /\ reply[w] = "not-found" /\ step[w] = "update"
    /\ known' = known \ {target[Current(w)]}
    /\ Return(w, "not-found")
    /\ UNCHANGED <<begun, target, reported, since, graphVars>>

\* UpsertProjection: a known entity is not there, forget it and create it.
Missing(w) ==
    /\ reply[w] = "not-found" /\ step[w] = "update"
    /\ known' = known \ {target[Current(w)]}
    /\ Ask(w, "create", "create")
    /\ UNCHANGED <<begun, callVars, purges, writes, kv, last, purgedAt>>

\* Fault: the conflict is the caller's to sort out.
Exists_Fails(w) ==
    /\ reply[w] = "exists"
    /\ known' = known \union {target[Current(w)]}
    /\ Return(w, "exists")
    /\ UNCHANGED <<begun, target, reported, since, graphVars>>

\* createProjection: somebody created it first, remember it and update it.
Exists(w) ==
    /\ reply[w] = "exists"
    /\ known' = known \union {target[Current(w)]}
    /\ Ask(w, "update-created", "update")
    /\ UNCHANGED <<begun, callVars, purges, writes, kv, last, purgedAt>>

\* The update after a create is not made good by another create.
Gone(w) ==
    /\ reply[w] = "not-found" /\ step[w] = "update-created"
    /\ Return(w, "not-found")
    /\ UNCHANGED <<known, begun, target, reported, since, graphVars>>

\* Fault: an update that failed for any reason falls back to create.
GiveUp_Creates(w) ==
    /\ step[w] # "idle"
    /\ IF step[w] = "update"
       THEN /\ known' = known \ {target[Current(w)]}
            /\ Ask(w, "create", "create")
            /\ UNCHANGED <<begun, callVars, purges, writes, kv, last, purgedAt>>
       ELSE /\ Return(w, "error")
            /\ UNCHANGED <<known, begun, target, reported, since, graphVars>>

\* Any other failure of a request ends the call: an error reply, or no reply
\* within the context's or the client's timeout.
GiveUp(w) ==
    /\ step[w] # "idle"
    /\ Return(w, "error")
    /\ UNCHANGED <<known, begun, target, reported, since, graphVars>>

-----------------------------------------------------------------------------
(* The graph-ingest service.                                               *)

\* The reply of a request reaches a call that still waits; a reply that is
\* lost is one the call gives up on.
Answer(c, r) ==
    reply' = IF outcome[c] = "pending" THEN [reply EXCEPT ![c[1]] = r] ELSE reply

\* The graph takes the projection of the call.
Store(c) ==
    /\ last' = last + 1
    /\ writes' = [writes EXCEPT ![c] = last']
    /\ kv' = [kv EXCEPT ![target[c]] = last']

Create(c) ==
    /\ <<c, "create">> \in net
    /\ net' = net \ {<<c, "create">>}
    /\ IF kv[target[c]] = 0
       THEN Store(c) /\ Answer(c, "written")
       ELSE Answer(c, "exists") /\ UNCHANGED <<last, writes, kv>>
    /\ UNCHANGED <<known, begun, step, callVars, purges, purgedAt>>

Update(c) ==
    /\ <<c, "update">> \in net
    /\ net' = net \ {<<c, "update">>}
    /\ IF kv[target[c]] = 0
       THEN Answer(c, "not-found") /\ UNCHANGED <<last, writes, kv>>
       ELSE Store(c) /\ Answer(c, "written")
    /\ UNCHANGED <<known, begun, step, callVars, purges, purgedAt>>

\* An entity's time to live runs out, or it is deleted.
Purge(e) ==
    /\ purges < MaxPurges
    /\ kv[e] # 0
    /\ purges' = purges + 1
    /\ last' = last + 1
    /\ kv' = [kv EXCEPT ![e] = 0]
    /\ purgedAt' = [purgedAt EXCEPT ![e] = last']
    /\ UNCHANGED <<clientVars, callVars, net, writes>>

Next ==
    \/ \E w \in Writers, e \in Entities : UpsertProjection(w, e)
    \/ \E w \in Writers : \/ Written(w) \/ Missing(w) \/ Exists(w)
                          \/ Gone(w) \/ GiveUp(w)
    \/ \E c \in Calls : Create(c) \/ Update(c)
    \/ \E e \in Entities : Purge(e)

Spec == Init /\ [][Next]_vars
-----------------------------------------------------------------------------
(* Properties.                                                             *)

\* A call is pending exactly while its writer waits for a request of it, and
\* ends in success, an error or "not found": a conflict with another writer's
\* create is never the caller's to sort out.
TypeOK ==
    /\ known \subseteq Entities
    /\ begun \in [Writers -> 0..MaxCalls]
    /\ step \in [Writers -> {"idle", "update", "create", "update-created"}]
    /\ reply \in [Writers -> {"none", "written", "exists", "not-found"}]
    /\ net \subseteq Calls \X {"create", "update"}
    /\ purges \in 0..MaxPurges
    /\ target \in [Calls -> Entities \union {None}]
    /\ outcome \in [Calls -> {"none", "pending", "ok", "error", "not-found"}]
    /\ reported \in [Calls -> Nat] /\ writes \in [Calls -> Nat] /\ since \in [Calls -> Nat]
    /\ kv \in [Entities -> Nat] /\ purgedAt \in [Entities -> Nat] /\ last \in Nat
    /\ \A c \in Calls :
          outcome[c] = "pending" <=> c = Current(c[1]) /\ step[c[1]] # "idle"

\* A caller hears "not found" only when the graph lost the entity while the
\* call was under way: a stale cache, or another writer that creates, updates
\* or forgets the entity in between, is made good by the call itself.
NotFoundOnlyIfLostMeanwhile ==
    \A c \in Calls : outcome[c] = "not-found" => purgedAt[target[c]] > since[c]

\* However its fallbacks from update to create and back interleave with other
\* writers, timeouts and late requests, a call of UpsertProjection writes at
\* most once and reports success only with the revision of its own write.
Writing == INSTANCE GraphWrites
ImplementsGraphWrites == Writing!Spec
=============================================================================
