-------------------------- MODULE GraphClientProofs --------------------------
(***************************************************************************)
(* What GraphClient guarantees for every number of writers, entities,      *)
(* calls and losses: its types, that "not found" is heard only after a     *)
(* loss during the call, and that it implements GraphWrites.               *)
(***************************************************************************)
EXTENDS GraphClient, TLAPS

Kinds == {"create", "update"}

\* Calls are begun in order, each with a target; only a call under way has a
\* reply to come.
InOrder ==
    /\ \A c \in Calls : outcome[c] = "none" <=> c[2] > begun[c[1]]
    /\ \A c \in Calls : outcome[c] # "none" => target[c] \in Entities
    /\ \A w \in Writers : step[w] = "idle" => reply[w] = "none"
    /\ \A w \in Writers : step[w] # "idle" => begun[w] \in 1..MaxCalls

\* A request in flight is the only one of its call, which has not written yet
\* and has no reply.
InFlight ==
    /\ \A c \in Calls : \A kind \in Kinds : <<c, kind>> \in net =>
          /\ writes[c] = 0 /\ outcome[c] \notin {"none", "ok"}
          /\ outcome[c] = "pending" => /\ reply[c[1]] = "none"
                                       /\ (kind = "create" <=> step[c[1]] = "create")
    /\ \A c \in Calls : outcome[c] = "none" => writes[c] = 0
    /\ \A c \in Calls : ~(<<c, "create">> \in net /\ <<c, "update">> \in net)

\* A reply says what the service did.
Replies ==
    \A c \in Calls : outcome[c] = "pending" =>
        /\ reply[c[1]] = "written" => writes[c] # 0
        /\ reply[c[1]] \in {"exists", "not-found"} => writes[c] = 0

\* A call that was told the entity exists finds it again, unless the graph has
\* lost it since the call began.
Losses ==
    /\ \A c \in Calls : since[c] <= last
    /\ \A c \in Calls : outcome[c] = "pending" =>
          /\ reply[c[1]] = "exists" \/ step[c[1]] = "update-created" =>
                kv[target[c]] # 0 \/ purgedAt[target[c]] > since[c]
          /\ reply[c[1]] = "not-found" /\ step[c[1]] = "update-created" =>
                purgedAt[target[c]] > since[c]
    /\ NotFoundOnlyIfLostMeanwhile

IInv == TypeOK /\ InOrder /\ InFlight /\ Replies /\ Losses

-----------------------------------------------------------------------------
LEMMA CallFacts ==
    ASSUME NEW c \in Calls
    PROVE  c = <<c[1], c[2]>> /\ c[1] \in Writers /\ c[2] \in 1..MaxCalls
BY DEF Calls

\* The call a busy writer is in is its one pending call.
LEMMA CurrentFacts ==
    ASSUME IInv, NEW w \in Writers, step[w] # "idle"
    PROVE  /\ Current(w) \in Calls /\ Current(w)[1] = w /\ outcome[Current(w)] = "pending"
           /\ target[Current(w)] \in Entities
           /\ \A c \in Calls : c[1] = w /\ outcome[c] = "pending" => c = Current(w)
<1>1. begun[w] \in 1..MaxCalls
  BY DEF IInv, InOrder
<1>2. Current(w) \in Calls /\ Current(w)[1] = w
  BY <1>1 DEF Current, Calls
<1>3. outcome[Current(w)] = "pending"
  BY <1>2 DEF IInv, TypeOK
<1>4. \A c \in Calls : c[1] = w /\ outcome[c] = "pending" => c = Current(w)
  BY DEF IInv, TypeOK
<1> QED BY <1>2, <1>3, <1>4 DEF IInv, InOrder

LEMMA InitIInv == Init => IInv
<1> SUFFICES ASSUME Init PROVE IInv
  OBVIOUS
<1>1. \A c \in Calls : /\ outcome[c] = "none" /\ since[c] = 0
                       /\ begun[c[1]] = 0 /\ step[c[1]] = "idle" /\ c[2] \in 1..MaxCalls
  BY CallFacts DEF Init
<1>2. TypeOK
  BY <1>1, WritersAssumption, NoTarget DEF Init, TypeOK
<1>3. InOrder
  BY <1>1 DEF Init, InOrder
<1>4. InFlight /\ Replies
  BY <1>1 DEF Init, InFlight, Replies
<1>5. Losses
  BY <1>1 DEF Init, Losses, NotFoundOnlyIfLostMeanwhile
<1> QED BY <1>2, <1>3, <1>4, <1>5 DEF IInv

-----------------------------------------------------------------------------
LEMMA UpsertKeeps ==
    ASSUME IInv, NEW w \in Writers, NEW e \in Entities, UpsertProjection(w, e)
    PROVE  IInv'
<1> DEFINE n == <<w, begun[w] + 1>>
           kind == IF e \in known THEN "update" ELSE "create"
<1>1. /\ step[w] = "idle" /\ begun[w] < MaxCalls
      /\ begun' = [begun EXCEPT ![w] = begun[w] + 1]
      /\ step' = [step EXCEPT ![w] = kind]
      /\ net' = net \union {<<n, kind>>}
      /\ target' = [target EXCEPT ![n] = e]
      /\ outcome' = [outcome EXCEPT ![n] = "pending"]
      /\ since' = [since EXCEPT ![n] = last]
      /\ UNCHANGED <<known, reply, reported, purges, writes, kv, last, purgedAt>>
  BY DEF UpsertProjection
<1>2. /\ n \in Calls /\ n[1] = w /\ n[2] = begun[w] + 1 /\ kind \in Kinds
      /\ begun[w] \in Nat
  BY <1>1, WritersAssumption DEF Calls, Kinds, IInv, TypeOK
<1>3. outcome[n] = "none" /\ reply[w] = "none"
  BY <1>1, <1>2 DEF IInv, InOrder
<1> HIDE DEF kind, n
<1>4. /\ outcome'[n] = "pending" /\ target'[n] = e /\ since'[n] = last
      /\ \A c \in Calls \ {n} : /\ outcome'[c] = outcome[c] /\ target'[c] = target[c]
                                /\ since'[c] = since[c]
      /\ step'[w] = kind /\ begun'[w] = begun[w] + 1
      /\ \A v \in Writers \ {w} : step'[v] = step[v] /\ begun'[v] = begun[v]
  BY <1>1, <1>2 DEF IInv, TypeOK
<1>5. \A c \in Calls \ {n} : c[1] = w => outcome[c] # "pending"
  BY <1>1, <1>2 DEF IInv, TypeOK
<1>6. \A c \in Calls \ {n} : c[1] = w => c[2] # begun[w] + 1
  BY <1>2, CallFacts
<1>7. TypeOK'
  <2>1. \A c \in Calls : outcome'[c] = "pending" <=> c = <<c[1], begun'[c[1]]>> /\ step'[c[1]] # "idle"
    <3> SUFFICES ASSUME NEW c \in Calls
                 PROVE  outcome'[c] = "pending" <=> c = <<c[1], begun'[c[1]]>> /\ step'[c[1]] # "idle"
      OBVIOUS
    <3>1. CASE c = n
      BY <1>2, <1>4, <3>1, CallFacts DEF Kinds
    <3>2. CASE c # n /\ c[1] = w
      BY <1>4, <1>5, <1>6, <3>2, CallFacts
    <3>3. CASE c # n /\ c[1] # w
      BY <1>4, <3>3, CallFacts DEF IInv, TypeOK, Current
    <3> QED BY <3>1, <3>2, <3>3
  <2>2. net' \subseteq Calls \X {"create", "update"}
    BY <1>1, <1>2 DEF IInv, TypeOK, Kinds
  <2>3. /\ begun' \in [Writers -> 0..MaxCalls]
        /\ step' \in [Writers -> {"idle", "update", "create", "update-created"}]
        /\ target' \in [Calls -> Entities \union {None}]
        /\ outcome' \in [Calls -> {"none", "pending", "ok", "error", "not-found"}]
        /\ since' \in [Calls -> Nat]
    BY <1>1, <1>2, WritersAssumption DEF IInv, TypeOK, Kinds
  <2> QED BY <1>1, <2>1, <2>2, <2>3 DEF IInv, TypeOK, Current
<1>8. InOrder'
  <2>1. \A c \in Calls : outcome'[c] = "none" <=> c[2] > begun'[c[1]]
    <3> SUFFICES ASSUME NEW c \in Calls PROVE outcome'[c] = "none" <=> c[2] > begun'[c[1]]
      OBVIOUS
    <3>1. c[2] \in Nat /\ c[1] \in Writers
      BY CallFacts, WritersAssumption
    <3>2. CASE c = n
      BY <1>2, <1>4, <3>2
    <3>3. CASE c # n
      BY <1>2, <1>4, <1>6, <3>1, <3>3 DEF IInv, InOrder
    <3> QED BY <3>2, <3>3
  <2>2. \A c \in Calls : outcome'[c] # "none" => target'[c] \in Entities
    BY <1>4 DEF IInv, InOrder
  <2>3. \A v \in Writers : step'[v] = "idle" => reply'[v] = "none"
    BY <1>1, <1>2, <1>4 DEF IInv, InOrder, Kinds
  <2>4. \A v \in Writers : step'[v] # "idle" => begun'[v] \in 1..MaxCalls
    BY <1>1, <1>2, <1>4, WritersAssumption DEF IInv, InOrder
  <2> QED BY <2>1, <2>2, <2>3, <2>4 DEF InOrder
<1>9. InFlight'
  <2>1. ASSUME NEW c \in Calls, NEW k \in Kinds, <<c, k>> \in net'
        PROVE  /\ writes'[c] = 0 /\ outcome'[c] \notin {"none", "ok"}
               /\ outcome'[c] = "pending" => /\ reply'[c[1]] = "none"
                                            /\ (k = "create" <=> step'[c[1]] = "create")
    <3>1. CASE c = n
      <4>1. <<c, k>> \notin net
        BY <1>3, <3>1 DEF IInv, InFlight
      <4>2. k = kind
        BY <1>1, <2>1, <4>1
      <4> QED BY <1>1, <1>2, <1>3, <1>4, <3>1, <4>2 DEF IInv, InFlight
    <3>2. CASE c # n
      <4>1. <<c, k>> \in net
        BY <1>1, <2>1, <3>2
      <4>2. c[1] = w => outcome[c] # "pending"
        BY <1>5, <3>2
      <4> QED BY <1>1, <1>4, <3>2, <4>1, <4>2, CallFacts DEF IInv, InFlight
    <3> QED BY <3>1, <3>2
  <2>2. ASSUME NEW c \in Calls, <<c, "create">> \in net', <<c, "update">> \in net'
        PROVE  FALSE
    <3>1. CASE c = n
      <4>1. <<c, "create">> \notin net /\ <<c, "update">> \notin net
        BY <1>3, <3>1 DEF IInv, InFlight, Kinds
      <4> QED BY <1>1, <2>2, <4>1
    <3>2. CASE c # n
      BY <1>1, <2>2, <3>2 DEF IInv, InFlight
    <3> QED BY <3>1, <3>2
  <2>3. \A c \in Calls : outcome'[c] = "none" => writes'[c] = 0
    BY <1>1, <1>4 DEF IInv, InFlight
  <2> QED BY <2>1, <2>2, <2>3, Zenon DEF InFlight
<1>10. ASSUME NEW c \in Calls, outcome'[c] = "pending"
       PROVE  \/ c = n /\ reply'[c[1]] = "none" /\ step'[c[1]] # "update-created"
              \/ c # n /\ outcome[c] = "pending" /\ step'[c[1]] = step[c[1]]
  BY <1>1, <1>2, <1>3, <1>4, <1>5, <1>10, CallFacts DEF Kinds
<1>11. Replies'
  BY <1>1, <1>10 DEF IInv, Replies
<1>12. Losses'
  BY <1>1, <1>4, <1>10 DEF IInv, TypeOK, Losses, NotFoundOnlyIfLostMeanwhile
<1> QED BY <1>7, <1>8, <1>9, <1>11, <1>12 DEF IInv

\* A call ends: its writer is idle again, its request may still be in flight.
LEMMA ReturnKeeps ==
    ASSUME IInv, NEW w \in Writers, step[w] # "idle",
           NEW result \in {"ok", "error", "not-found"}, Return(w, result),
           known' \subseteq Entities, reported' \in [Calls -> Nat],
           result = "ok" => reply[w] = "written",
           result = "not-found" => reply[w] = "not-found" /\ step[w] = "update-created",
           UNCHANGED <<begun, target, since, net, purges, writes, kv, last, purgedAt>>
    PROVE  IInv'
<1> DEFINE n == Current(w)
<1>1. /\ n \in Calls /\ n[1] = w /\ outcome[n] = "pending"
      /\ \A c \in Calls : c[1] = w /\ outcome[c] = "pending" => c = n
  BY CurrentFacts
<1> HIDE DEF n
<1>2. /\ outcome' = [outcome EXCEPT ![n] = result]
      /\ step' = [step EXCEPT ![w] = "idle"] /\ reply' = [reply EXCEPT ![w] = "none"]
  BY DEF Return, n
<1>3. /\ outcome'[n] = result /\ \A c \in Calls \ {n} : outcome'[c] = outcome[c]
      /\ step'[w] = "idle" /\ reply'[w] = "none"
      /\ \A v \in Writers \ {w} : step'[v] = step[v] /\ reply'[v] = reply[v]
  BY <1>1, <1>2 DEF IInv, TypeOK
<1>4. \A c \in Calls : outcome'[c] = "pending" => /\ outcome[c] = "pending" /\ c # n /\ c[1] # w
                                                 /\ step'[c[1]] = step[c[1]]
                                                 /\ reply'[c[1]] = reply[c[1]]
  BY <1>1, <1>3, CallFacts
<1>5. TypeOK'
  <2>1. \A c \in Calls : outcome'[c] = "pending" <=> c = <<c[1], begun'[c[1]]>> /\ step'[c[1]] # "idle"
    BY <1>1, <1>3, <1>4, CallFacts DEF IInv, TypeOK, Current
  <2>2. /\ step' \in [Writers -> {"idle", "update", "create", "update-created"}]
        /\ reply' \in [Writers -> {"none", "written", "exists", "not-found"}]
        /\ outcome' \in [Calls -> {"none", "pending", "ok", "error", "not-found"}]
    BY <1>1, <1>2 DEF IInv, TypeOK
  <2> QED BY <2>1, <2>2 DEF IInv, TypeOK, Current
<1>6. InOrder'
  BY <1>1, <1>3 DEF IInv, InOrder
<1>7. InFlight'
  <2>1. writes[n] # 0 \/ result # "ok"
    BY <1>1 DEF IInv, Replies
  <2> QED BY <1>1, <1>3, <1>4, <2>1 DEF IInv, InFlight, Kinds
<1>8. Replies'
  BY <1>4 DEF IInv, Replies
<1>9. Losses'
  <2>1. result = "not-found" => purgedAt[target[n]] > since[n]
    BY <1>1 DEF IInv, Losses
  <2> QED BY <1>1, <1>3, <1>4, <2>1 DEF IInv, Losses, NotFoundOnlyIfLostMeanwhile
<1> QED BY <1>5, <1>6, <1>7, <1>8, <1>9 DEF IInv

\* A call goes on with another request, after the reply to the one before.
LEMMA AskKeeps ==
    ASSUME IInv, NEW w \in Writers, step[w] # "idle", NEW next, NEW kind \in Kinds,
           Ask(w, next, kind), known' \subseteq Entities,
           \/ reply[w] = "not-found" /\ next = "create" /\ kind = "create"
           \/ reply[w] = "exists" /\ next = "update-created" /\ kind = "update",
           UNCHANGED <<begun, outcome, target, reported, since, purges, writes, kv, last, purgedAt>>
    PROVE  IInv'
<1> DEFINE n == Current(w)
<1>1. /\ n \in Calls /\ n[1] = w /\ outcome[n] = "pending"
      /\ \A c \in Calls : c[1] = w /\ outcome[c] = "pending" => c = n
  BY CurrentFacts
<1> HIDE DEF n
<1>2. /\ step' = [step EXCEPT ![w] = next] /\ reply' = [reply EXCEPT ![w] = "none"]
      /\ net' = net \union {<<n, kind>>}
  BY DEF Ask, n
<1>3. /\ step'[w] = next /\ reply'[w] = "none"
      /\ \A v \in Writers \ {w} : step'[v] = step[v] /\ reply'[v] = reply[v]
  BY <1>2 DEF IInv, TypeOK
<1>4. /\ writes[n] = 0
      /\ \A k \in Kinds : <<n, k>> \notin net
  BY <1>1 DEF IInv, Replies, InFlight
<1>5. TypeOK'
  <2>1. \A c \in Calls : outcome'[c] = "pending" <=> c = <<c[1], begun'[c[1]]>> /\ step'[c[1]] # "idle"
    BY <1>1, <1>3, CallFacts DEF IInv, TypeOK, Current
  <2>2. /\ step' \in [Writers -> {"idle", "update", "create", "update-created"}]
        /\ reply' \in [Writers -> {"none", "written", "exists", "not-found"}]
        /\ net' \subseteq Calls \X {"create", "update"}
    BY <1>1, <1>2 DEF IInv, TypeOK, Kinds
  <2> QED BY <2>1, <2>2 DEF IInv, TypeOK, Current
<1>6. InOrder'
  BY <1>3 DEF IInv, InOrder
<1>7. InFlight'
  <2>1. ASSUME NEW c \in Calls, NEW k \in Kinds, <<c, k>> \in net'
        PROVE  /\ writes'[c] = 0 /\ outcome'[c] \notin {"none", "ok"}
               /\ outcome'[c] = "pending" => /\ reply'[c[1]] = "none"
                                            /\ (k = "create" <=> step'[c[1]] = "create")
    <3>1. CASE c = n
      <4>1. k = kind
        BY <1>2, <1>4, <2>1, <3>1
      <4> QED BY <1>1, <1>3, <1>4, <3>1, <4>1
    <3>2. CASE c # n
      <4>1. <<c, k>> \in net
        BY <1>2, <2>1, <3>2
      <4> QED BY <1>1, <1>3, <3>2, <4>1, CallFacts DEF IInv, InFlight
    <3> QED BY <3>1, <3>2
  <2>2. ASSUME NEW c \in Calls, <<c, "create">> \in net', <<c, "update">> \in net'
        PROVE  FALSE
    <3>1. CASE c = n
      BY <1>2, <1>4, <2>2, <3>1 DEF Kinds
    <3>2. CASE c # n
      BY <1>2, <2>2, <3>2 DEF IInv, InFlight
    <3> QED BY <3>1, <3>2
  <2>3. \A c \in Calls : outcome'[c] = "none" => writes'[c] = 0
    BY DEF IInv, InFlight
  <2> QED BY <2>1, <2>2, <2>3, Zenon DEF InFlight
<1>8. ASSUME NEW c \in Calls, outcome[c] = "pending"
      PROVE  \/ c = n /\ reply'[c[1]] = "none" /\ step'[c[1]] = next
             \/ c # n /\ reply'[c[1]] = reply[c[1]] /\ step'[c[1]] = step[c[1]]
  BY <1>1, <1>3, <1>8, CallFacts
<1>9. Replies'
  BY <1>8 DEF IInv, Replies
<1>10. Losses'
  <2>1. next = "update-created" => kv[target[n]] # 0 \/ purgedAt[target[n]] > since[n]
    BY <1>1 DEF IInv, Losses
  <2> QED BY <1>8, <2>1 DEF IInv, Losses, NotFoundOnlyIfLostMeanwhile
<1> QED BY <1>5, <1>6, <1>7, <1>9, <1>10 DEF IInv

\* The service handles a request: it writes, or it says why it cannot.
LEMMA ServeKeeps ==
    ASSUME IInv, NEW n \in Calls, NEW kind \in Kinds, <<n, kind>> \in net,
           net' = net \ {<<n, kind>>},
           NEW r, Answer(n, r),
           \/ r = "written" /\ Store(n)
           \/ /\ r = "exists" /\ kind = "create" /\ kv[target[n]] # 0
              /\ UNCHANGED <<last, writes, kv>>
           \/ /\ r = "not-found" /\ kind = "update" /\ kv[target[n]] = 0
              /\ UNCHANGED <<last, writes, kv>>,
           UNCHANGED <<known, begun, step, target, outcome, reported, since, purges, purgedAt>>
    PROVE  IInv'
<1>1. /\ writes[n] = 0 /\ outcome[n] \notin {"none", "ok"} /\ target[n] \in Entities
      /\ n[1] \in Writers /\ \A k \in Kinds \ {kind} : <<n, k>> \notin net
      /\ outcome[n] = "pending" => (kind = "create" <=> step[n[1]] = "create")
      /\ r \in {"written", "exists", "not-found"}
  BY CallFacts DEF IInv, InFlight, InOrder, Kinds
<1>2. \A c \in Calls \ {n} : outcome[c] = "pending" /\ outcome[n] = "pending" => c[1] # n[1]
  BY CallFacts DEF IInv, TypeOK, Current
<1>3. /\ reply' \in [Writers -> {"none", "written", "exists", "not-found"}]
      /\ outcome[n] = "pending" => reply'[n[1]] = r
      /\ \A c \in Calls \ {n} : outcome[c] = "pending" => reply'[c[1]] = reply[c[1]]
      /\ \A v \in Writers : step[v] = "idle" => reply'[v] = "none"
  <2>1. CASE outcome[n] = "pending"
    <3>1. reply' = [reply EXCEPT ![n[1]] = r]
      BY <2>1 DEF Answer
    <3>2. step[n[1]] # "idle"
      BY <2>1 DEF IInv, TypeOK
    <3> QED BY <1>1, <1>2, <2>1, <3>1, <3>2, CallFacts DEF IInv, TypeOK, InOrder
  <2>2. CASE outcome[n] # "pending"
    BY <2>2 DEF Answer, IInv, TypeOK, InOrder
  <2> QED BY <2>1, <2>2
<1>4. /\ last' \in Nat /\ last <= last' /\ last \in Nat
      /\ writes' \in [Calls -> Nat] /\ kv' \in [Entities -> Nat]
      /\ \A c \in Calls \ {n} : writes'[c] = writes[c]
      /\ \A e \in Entities : kv[e] # 0 => kv'[e] # 0
      /\ r = "written" => writes'[n] # 0 /\ kv'[target[n]] # 0
      /\ r # "written" => writes'[n] = 0 /\ kv' = kv
  <2>1. CASE r = "written" /\ Store(n)
    BY <1>1, <2>1 DEF Store, IInv, TypeOK
  <2>2. CASE r # "written" /\ UNCHANGED <<last, writes, kv>>
    BY <1>1, <2>2 DEF IInv, TypeOK
  <2> QED BY <2>1, <2>2
<1>5. TypeOK'
  <2>1. net' \subseteq Calls \X {"create", "update"}
    BY DEF IInv, TypeOK
  <2> QED BY <1>3, <1>4, <2>1 DEF IInv, TypeOK, Current
<1>6. InOrder'
  BY <1>3 DEF IInv, InOrder
<1>7. InFlight'
  <2>1. ASSUME NEW c \in Calls, NEW k \in Kinds, <<c, k>> \in net'
        PROVE  /\ writes'[c] = 0 /\ outcome'[c] \notin {"none", "ok"}
               /\ outcome'[c] = "pending" => /\ reply'[c[1]] = "none"
                                            /\ (k = "create" <=> step'[c[1]] = "create")
    <3>1. <<c, k>> \in net /\ c # n
      BY <1>1, <2>1
    <3> QED BY <1>3, <1>4, <3>1 DEF IInv, InFlight
  <2>2. \A c \in Calls : ~(<<c, "create">> \in net' /\ <<c, "update">> \in net')
    BY DEF IInv, InFlight
  <2>3. \A c \in Calls : outcome'[c] = "none" => writes'[c] = 0
    BY <1>1, <1>4 DEF IInv, InFlight
  <2> QED BY <2>1, <2>2, <2>3, Zenon DEF InFlight
<1>8. Replies'
  <2> SUFFICES ASSUME NEW c \in Calls, outcome[c] = "pending"
               PROVE  /\ reply'[c[1]] = "written" => writes'[c] # 0
                      /\ reply'[c[1]] \in {"exists", "not-found"} => writes'[c] = 0
    BY DEF Replies
  <2>1. CASE c = n
    BY <1>1, <1>3, <1>4, <2>1
  <2>2. CASE c # n
    BY <1>3, <1>4, <2>2 DEF IInv, Replies
  <2> QED BY <2>1, <2>2
<1>9. Losses'
  <2>1. ASSUME NEW c \in Calls, outcome[c] = "pending"
        PROVE  /\ reply'[c[1]] = "exists" \/ step[c[1]] = "update-created" =>
                      kv'[target[c]] # 0 \/ purgedAt[target[c]] > since[c]
               /\ reply'[c[1]] = "not-found" /\ step[c[1]] = "update-created" =>
                      purgedAt[target[c]] > since[c]
    <3>1. target[c] \in Entities
      BY <2>1 DEF IInv, InOrder
    <3>2. CASE c = n
      BY <1>1, <1>3, <1>4, <2>1, <3>1, <3>2 DEF IInv, Losses
    <3>3. CASE c # n
      BY <1>3, <1>4, <2>1, <3>1, <3>3 DEF IInv, Losses
    <3> QED BY <3>2, <3>3
  <2>2. \A c \in Calls : since'[c] <= last'
    BY <1>4 DEF IInv, TypeOK, Losses
  <2>3. NotFoundOnlyIfLostMeanwhile'
    BY DEF IInv, Losses, NotFoundOnlyIfLostMeanwhile
  <2> QED BY <2>1, <2>2, <2>3, Zenon DEF Losses
<1> QED BY <1>5, <1>6, <1>7, <1>8, <1>9 DEF IInv

LEMMA PurgeKeeps ==
    ASSUME IInv, NEW e \in Entities, Purge(e)
    PROVE  IInv'
<1>1. /\ purges' \in 0..MaxPurges /\ last' = last + 1 /\ last \in Nat
      /\ kv' = [kv EXCEPT ![e] = 0] /\ purgedAt' = [purgedAt EXCEPT ![e] = last + 1]
      /\ UNCHANGED <<known, begun, step, reply, target, outcome, reported, since, net, writes>>
  BY WritersAssumption DEF Purge, clientVars, callVars, IInv, TypeOK
<1>2. TypeOK'
  BY <1>1 DEF IInv, TypeOK, Current
<1>3. InOrder' /\ InFlight' /\ Replies'
  BY <1>1 DEF IInv, InOrder, InFlight, Replies
<1>4. /\ \A x \in Entities \ {e} : kv'[x] = kv[x] /\ purgedAt'[x] = purgedAt[x]
      /\ purgedAt'[e] = last + 1
  BY <1>1 DEF IInv, TypeOK
<1>5. \A c \in Calls : /\ since[c] \in Nat /\ since[c] < last + 1
                       /\ outcome[c] # "none" => target[c] \in Entities
  BY <1>1 DEF IInv, TypeOK, Losses, InOrder
<1>6. \A c \in Calls : outcome[c] # "none" =>
          /\ kv[target[c]] # 0 => kv'[target[c]] # 0 \/ purgedAt'[target[c]] > since[c]
          /\ purgedAt[target[c]] > since[c] => purgedAt'[target[c]] > since[c]
  BY <1>1, <1>4, <1>5
<1>7. Losses'
  <2>1. \A c \in Calls : since'[c] <= last'
    BY <1>1, <1>5
  <2>2. ASSUME NEW c \in Calls, outcome[c] = "pending"
        PROVE  /\ reply[c[1]] = "exists" \/ step[c[1]] = "update-created" =>
                      kv'[target[c]] # 0 \/ purgedAt'[target[c]] > since[c]
               /\ reply[c[1]] = "not-found" /\ step[c[1]] = "update-created" =>
                      purgedAt'[target[c]] > since[c]
    BY <1>6, <2>2 DEF IInv, Losses
  <2>3. NotFoundOnlyIfLostMeanwhile'
    BY <1>1, <1>6 DEF IInv, Losses, NotFoundOnlyIfLostMeanwhile
  <2> QED BY <1>1, <2>1, <2>2, <2>3 DEF Losses
<1> QED BY <1>2, <1>3, <1>7 DEF IInv

LEMMA NextIInv == IInv /\ [Next]_vars => IInv'
<1> SUFFICES ASSUME IInv, [Next]_vars PROVE IInv'
  OBVIOUS
<1>1. CASE \E w \in Writers, e \in Entities : UpsertProjection(w, e)
  BY <1>1, UpsertKeeps
<1>2. ASSUME NEW w \in Writers, Written(w) \/ Missing(w) \/ Exists(w) \/ Gone(w) \/ GiveUp(w)
      PROVE  IInv'
  <2>1. step[w] # "idle"
    BY <1>2 DEF IInv, InOrder, Written, Missing, Exists, Gone, GiveUp
  <2>2. /\ Current(w) \in Calls /\ target[Current(w)] \in Entities
        /\ reported \in [Calls -> Nat] /\ writes \in [Calls -> Nat] /\ known \subseteq Entities
    BY <2>1, CurrentFacts DEF IInv, TypeOK
  <2>3. CASE Written(w)
    BY <2>1, <2>2, <2>3, ReturnKeeps DEF Written, graphVars
  <2>4. CASE Missing(w)
    BY <2>1, <2>2, <2>4, AskKeeps DEF Missing, callVars, Kinds
  <2>5. CASE Exists(w)
    BY <2>1, <2>2, <2>5, AskKeeps DEF Exists, callVars, Kinds
  <2>6. CASE Gone(w)
    BY <2>1, <2>2, <2>6, ReturnKeeps DEF Gone, graphVars
  <2>7. CASE GiveUp(w)
    BY <2>1, <2>2, <2>7, ReturnKeeps DEF GiveUp, graphVars
  <2> QED BY <1>2, <2>3, <2>4, <2>5, <2>6, <2>7
<1>3. ASSUME NEW c \in Calls, Create(c)
      PROVE  IInv'
  <2>1. CASE kv[target[c]] = 0
    BY <1>3, <2>1, ServeKeeps DEF Create, callVars, Kinds
  <2>2. CASE kv[target[c]] # 0
    BY <1>3, <2>2, ServeKeeps DEF Create, callVars, Kinds
  <2> QED BY <2>1, <2>2
<1>4. ASSUME NEW c \in Calls, Update(c)
      PROVE  IInv'
  <2>1. CASE kv[target[c]] = 0
    BY <1>4, <2>1, ServeKeeps DEF Update, callVars, Kinds
  <2>2. CASE kv[target[c]] # 0
    BY <1>4, <2>2, ServeKeeps DEF Update, callVars, Kinds
  <2> QED BY <2>1, <2>2
<1>5. CASE \E e \in Entities : Purge(e)
  BY <1>5, PurgeKeeps
<1>6. CASE UNCHANGED vars
  <2>1. UNCHANGED <<known, begun, step, reply, target, outcome, reported, since, net, purges,
                    writes, kv, last, purgedAt>>
    BY <1>6 DEF vars, clientVars, callVars, graphVars
  <2> QED BY <2>1 DEF IInv, TypeOK, Current, InOrder, InFlight, Replies, Losses,
                     NotFoundOnlyIfLostMeanwhile
<1> QED BY <1>1, <1>2, <1>3, <1>4, <1>5, <1>6 DEF Next

LEMMA Invariance == Spec => []IInv
BY InitIInv, NextIInv, PTL DEF Spec

-----------------------------------------------------------------------------
\* Calls, requests and the graph keep their types, a call is pending exactly
\* while its writer is in it, and no call ends with a conflict.
THEOREM TypeCorrect == Spec => []TypeOK
<1>1. IInv => TypeOK
  BY DEF IInv
<1> QED BY <1>1, Invariance, PTL

\* "Not found" is heard only by a call during which the graph lost its entity.
THEOREM NotFoundMeansLost == Spec => []NotFoundOnlyIfLostMeanwhile
<1>1. IInv => NotFoundOnlyIfLostMeanwhile
  BY DEF IInv, Losses
<1> QED BY <1>1, Invariance, PTL

\* UpsertProjection with its cache, its two kinds of request and its fallbacks
\* implements a call that writes once or not at all (GraphWrites).
THEOREM Implementation == Spec => ImplementsGraphWrites
<1>1. Init => Writing!Init
  BY DEF Init, Writing!Init, Calls, Writing!Calls
<1>2. ASSUME IInv, [Next]_vars PROVE [Writing!Next]_(Writing!vars)
  <2> USE DEF Writing!Failures
  <2>1. Writing!Calls = Calls
    BY DEF Calls, Writing!Calls
  <2>2. CASE \E w \in Writers, e \in Entities : UpsertProjection(w, e)
    <3>1. PICK w \in Writers, e \in Entities : UpsertProjection(w, e)
      BY <2>2
    <3> DEFINE n == <<w, begun[w] + 1>>
    <3>2. n \in Calls /\ n[2] = begun[w] + 1 /\ n[1] = w
      BY <1>2, <3>1, WritersAssumption DEF UpsertProjection, Calls, IInv, TypeOK
    <3>3. outcome[n] = "none"
      BY <1>2, <3>2 DEF IInv, TypeOK, InOrder
    <3>4. Writing!Begin(n, e)
      BY <3>1, <3>3 DEF UpsertProjection, Writing!Begin
    <3> QED BY <2>1, <3>2, <3>4 DEF Writing!Next
  <2>3. ASSUME NEW w \in Writers, Written(w)
        PROVE  Writing!Next
    <3>1. step[w] # "idle"
      BY <1>2, <2>3 DEF IInv, InOrder, Written
    <3>2. Current(w) \in Calls /\ outcome[Current(w)] = "pending" /\ Current(w)[1] = w
      BY <1>2, <3>1, CurrentFacts
    <3>3. writes[Current(w)] # 0
      BY <1>2, <2>3, <3>2 DEF IInv, Replies, Written
    <3>4. Writing!Succeed(Current(w))
      BY <2>3, <3>2, <3>3 DEF Written, Return, graphVars, Writing!Succeed
    <3> QED BY <2>1, <3>2, <3>4 DEF Writing!Next
  <2>4. ASSUME NEW w \in Writers, Gone(w) \/ GiveUp(w)
        PROVE  Writing!Next
    <3>1. step[w] # "idle"
      BY <1>2, <2>4 DEF IInv, InOrder, Gone, GiveUp
    <3>2. Current(w) \in Calls /\ outcome[Current(w)] = "pending"
      BY <1>2, <3>1, CurrentFacts
    <3>3. Writing!Fail(Current(w))
      BY <2>4, <3>2 DEF Gone, GiveUp, Return, graphVars, Writing!Fail
    <3> QED BY <2>1, <3>2, <3>3 DEF Writing!Next
  <2>5. ASSUME NEW w \in Writers, Missing(w) \/ Exists(w)
        PROVE  UNCHANGED Writing!vars
    BY <2>5 DEF Missing, Exists, callVars, Writing!vars
  <2>6. ASSUME NEW c \in Calls, Create(c) \/ Update(c)
        PROVE  [Writing!Next]_(Writing!vars)
    <3>1. writes[c] = 0 /\ outcome[c] \in {"pending", "error", "not-found"}
      <4>1. \E kind \in Kinds : <<c, kind>> \in net
        BY <2>6 DEF Create, Update, Kinds
      <4>2. outcome[c] \in {"none", "pending", "ok", "error", "not-found"}
        BY <1>2 DEF IInv, TypeOK
      <4> QED BY <1>2, <4>1, <4>2 DEF IInv, InFlight
    <3>2. CASE Store(c)
      <4>1. Writing!Write(c)
        BY <2>6, <3>1, <3>2 DEF Create, Update, Store, callVars, Writing!Write
      <4> QED BY <2>1, <4>1 DEF Writing!Next
    <3>3. CASE ~Store(c)
      BY <2>6, <3>3 DEF Create, Update, callVars, Writing!vars
    <3> QED BY <3>2, <3>3
  <2>7. ASSUME NEW e \in Entities, Purge(e)
        PROVE  Writing!Next
    <3>1. Writing!Purge(e)
      BY <2>7 DEF Purge, callVars, Writing!Purge
    <3> QED BY <3>1 DEF Writing!Next
  <2>8. CASE UNCHANGED vars
    BY <2>8 DEF vars, callVars, graphVars, Writing!vars
  <2> QED BY <1>2, <2>2, <2>3, <2>4, <2>5, <2>6, <2>7, <2>8 DEF Next
<1>3. IInv /\ [Next]_vars => [Writing!Next]_(Writing!vars)
  BY <1>2
<1> QED BY <1>1, <1>3, Invariance, PTL DEF Spec, ImplementsGraphWrites, Writing!Spec
=============================================================================
