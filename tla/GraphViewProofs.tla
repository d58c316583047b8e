-------------------------- MODULE GraphViewProofs --------------------------
(***************************************************************************)
(* What GraphView guarantees for every store, every server and every bound:*)
(* its types and limits, that a lens is well formed, complete unless a GET *)
(* failed, its own, and pending only of what is absent.                    *)
(***************************************************************************)
EXTENDS GraphView, FiniteSetTheorems, SequenceTheorems, TLAPS

\* The fields of a view, and how one is updated.
Fields == { "target", "phase", "status", "listed", "root", "streams", "histories",
            "events", "controls", "commands", "todo", "missed", "before" }

Put(v, f, a) == [v EXCEPT ![f] = a]

\* The phases of a lens of x, grouped by what has been read.
ListsRead(x) ==
    IF x \in Vehicles THEN {"event list", "control list", "command list", "command", "done"}
    ELSE {"done"}

PhasesOf(x) ==
    IF x \in Messages
    THEN {"root", "event", "event list", "sender", "sender list", "done"}
    ELSE {"root", "root list", "done"}
         \cup (IF x \in Tracks THEN {"stream", "stream list", "history"} \cup ListsRead(x)
               ELSE {})

Closed(set) == \A p \in set : Parents(p) \subseteq set

\* The server has the parents of all it has.
ServerOK == server \subseteq Resources /\ IsFiniteSet(server) /\ Closed(server)

Shape(v) ==
    /\ DOMAIN v = Fields
    /\ v.target \in Targets /\ v.phase \in PhasesOf(v.target)
    /\ v.status \in {"disabled", "unavailable", "pending", "live"}
    /\ v.phase # "done" => v.status = "live"
    /\ v.listed \subseteq Commands
    /\ v.root \in Resources \cup {None}
    /\ v.streams \in Seq(Resources) /\ v.events \in Seq(Resources)
    /\ v.controls \in Seq(Resources) /\ v.commands \in Seq(Resources)
    /\ v.todo \in Seq(Resources)
    /\ v.missed \in BOOLEAN
    /\ v.before \subseteq server /\ Closed(v.before)

\* What is shown was read from the collection it belongs to.
Held(v) ==
    /\ ToSet(v.streams) \subseteq Collection("datastream")
    /\ ToSet(v.events) \subseteq Collection("event")
    /\ ToSet(v.controls) \subseteq Collection("controlstream")
    /\ ToSet(v.commands) \subseteq Collection("command")
    /\ v.histories \subseteq ToSet(v.streams)

\* What is left to get one by one.
ToGet(v) ==
    /\ v.phase = "stream" \/ (v.phase = "root list" /\ v.target \in Tracks) =>
          v.todo # <<>> /\ ToSet(v.todo) \subseteq { Datastream(s) : s \in StreamsOf(v.target) }
    /\ v.phase = "history" => v.todo # <<>> /\ ToSet(v.todo) \subseteq ToSet(v.streams)
    /\ v.phase = "command" =>
          v.todo # <<>> /\ ToSet(v.todo) \subseteq { CommandOf(c) : c \in v.listed }

\* A root is found before anything hangs from it; the sender of a message is
\* looked for only when its system was not found.
Rooted(v) ==
    /\ v.target \notin Messages /\ v.phase \notin {"root", "root list", "done"} => v.root # None
    /\ v.phase = "done" /\ v.status = "live" => v.root # None
    /\ v.phase \in {"sender", "sender list"} => v.root = None /\ v.events # <<>>

\* All of a kind that was there when the request began has been read.
AllRead(v, kind, items) ==
    \A p \in v.before : p[1] = kind /\ Root(v.target) \in Parents(p) => p \in ToSet(items)

\* With no GET failed, what was read by now is complete.
Complete(v) ==
    v.status = "live" /\ ~v.missed =>
        /\ Root(v.target) \in v.before => v.phase = "root" \/ v.root = Root(v.target)
        /\ v.target \in Tracks /\ v.phase \in {"history"} \cup ListsRead(v.target) =>
               AllRead(v, "datastream", v.streams)
        /\ v.target \in Vehicles =>
             /\ v.phase \in ListsRead(v.target) \ {"event list"} =>
                    AllRead(v, "event", v.events)
             /\ v.phase \in {"command list", "command", "done"} =>
                    AllRead(v, "controlstream", v.controls)
             /\ v.phase \in {"command", "done"} =>
                    \A p \in v.before : p[1] = "command" /\ Subject[p[2]] = v.target
                                            => p \in ToSet(v.commands)
        /\ v.target \in Messages /\ Event(v.target) \in v.before =>
               /\ v.phase # "event list"
               /\ v.phase \in {"sender", "sender list", "done"} =>
                      Event(v.target) \in ToSet(v.events)

\* "Pending" is said of what was not there, or of a message after a failure.
Pending(v) ==
    v.status = "pending" =>
        IF v.target \in Messages THEN Event(v.target) \in v.before => v.missed
        ELSE Root(v.target) \notin v.before

\* Once the entity is on the server, all that is read is its own, or an event
\* that names it and the sender of that event.
Own(v) ==
    OwnResource(v.target) \subseteq v.before =>
        /\ \/ v.root \in {None, Root(v.target)}
           \/ \E e \in NamedBy(v.target) : v.root \in Parents(e)
        /\ \A p \in ToSet(v.streams) \cup ToSet(v.events) \cup ToSet(v.controls) :
               p \in About(v.target) \cup NamedBy(v.target)

ViewOK(v) ==
    /\ Shape(v) /\ Held(v) /\ ToGet(v) /\ Rooted(v)
    /\ Complete(v) /\ Pending(v) /\ Own(v)

IInv ==
    /\ ServerOK
    /\ endpoint \in {"none", "invalid", "valid"}
    /\ later \in 0..MaxLater
    /\ view # None => ViewOK(view)

-----------------------------------------------------------------------------
(* Sequences made of sets, and the smaller of two numbers.                 *)

LEMMA MinFacts ==
    ASSUME NEW a \in Nat, NEW b \in Nat
    PROVE  Min({a, b}) \in Nat /\ Min({a, b}) <= a /\ Min({a, b}) <= b
<1> DEFINE low == IF a <= b THEN a ELSE b
<1>1. \E x \in {a, b} : \A y \in {a, b} : x <= y
  <2>1. low \in {a, b} /\ \A y \in {a, b} : low <= y
    OBVIOUS
  <2> QED BY <2>1
<1>2. Min({a, b}) \in {a, b} /\ \A y \in {a, b} : Min({a, b}) <= y
  BY <1>1 DEF Min
<1> QED BY <1>2

\* The sequence of a finite set holds the set and nothing else.
LEMMA SetToSeqFacts ==
    ASSUME NEW S, IsFiniteSet(S)
    PROVE  SetToSeq(S) \in Seq(S) /\ ToSet(SetToSeq(S)) = S
<1> DEFINE n == Cardinality(S)
           f == SetToSeq(S)
<1>1. n \in Nat /\ ExistsBijection(1..n, S)
  BY FS_CardinalityType
<1>2. PICK g \in Bijection(1..n, S) : TRUE
  BY <1>1 DEF ExistsBijection
<1>3. g \in [1..n -> S] /\ \A i, j \in 1..n : g[i] = g[j] => i = j
  BY <1>2 DEF Bijection, Injection, IsInjective
<1>4. DOMAIN g = 1..n
  BY <1>3
<1>5. g \in [1..n -> S] /\ IsInjective(g)
  BY <1>3, <1>4 DEF IsInjective
<1>6. f \in [1..n -> S] /\ IsInjective(f)
  BY <1>5 DEF SetToSeq
<1>7. DOMAIN f = 1..n
  BY <1>6
<1>8. f \in Injection(1..n, S)
  BY <1>6, <1>7 DEF Injection, IsInjective
<1>9. Cardinality(1..n) = n /\ IsFiniteSet(1..n)
  BY <1>1, FS_Interval
<1>10. f \in Surjection(1..n, S)
  BY <1>8, <1>9, FS_Injection
<1>11. \A x \in S : \E i \in 1..n : f[i] = x
  BY <1>10 DEF Surjection
<1> HIDE DEF f, n
<1>12. f \in Seq(S)
  BY <1>1, <1>6, SeqDef
<1>13. ToSet(f) = S
  BY <1>6, <1>7, <1>11 DEF ToSet
<1> QED BY <1>12, <1>13 DEF f

LEMMA AppendAllFacts ==
    ASSUME NEW T, NEW items \in Seq(T), NEW S \in SUBSET T, IsFiniteSet(S)
    PROVE  AppendAll(items, S) \in Seq(T) /\ ToSet(AppendAll(items, S)) = ToSet(items) \cup S
<1> DEFINE rest == S \ ToSet(items)
           q == SetToSeq(rest)
<1>1. IsFiniteSet(rest)
  BY FS_Difference
<1>2. q \in Seq(rest) /\ ToSet(q) = rest
  BY <1>1, SetToSeqFacts
<1>3. q \in Seq(T)
  BY <1>2, SeqMonotonic
<1> HIDE DEF q
<1>4. items \o q \in Seq(T) /\ Len(items \o q) = Len(items) + Len(q)
  BY <1>3
<1>5. ToSet(items \o q) = ToSet(items) \cup ToSet(q)
  <2>1. ASSUME NEW x \in ToSet(items \o q) PROVE x \in ToSet(items) \cup ToSet(q)
    <3>1. PICK i \in 1..Len(items \o q) : x = (items \o q)[i]
      BY <1>4 DEF ToSet
    <3>2. CASE i <= Len(items)
      BY <1>3, <3>1, <3>2 DEF ToSet
    <3>3. CASE i > Len(items)
      <4>1. i - Len(items) \in 1..Len(q) /\ x = q[i - Len(items)]
        BY <1>3, <1>4, <3>1, <3>3
      <4> QED BY <1>3, <4>1 DEF ToSet
    <3> QED BY <1>3, <1>4, <3>1, <3>2, <3>3
  <2>2. ASSUME NEW x \in ToSet(items) PROVE x \in ToSet(items \o q)
    <3>1. PICK i \in 1..Len(items) : x = items[i]
      BY <2>2 DEF ToSet
    <3>2. i \in 1..Len(items \o q) /\ (items \o q)[i] = x
      BY <1>3, <1>4, <3>1
    <3> QED BY <1>4, <3>2 DEF ToSet
  <2>3. ASSUME NEW x \in ToSet(q) PROVE x \in ToSet(items \o q)
    <3>1. PICK i \in 1..Len(q) : x = q[i]
      BY <1>3, <2>3 DEF ToSet
    <3>2. i + Len(items) \in 1..Len(items \o q) /\ (items \o q)[i + Len(items)] = x
      BY <1>3, <1>4, <3>1
    <3> QED BY <1>4, <3>2 DEF ToSet
  <2> QED BY <2>1, <2>2, <2>3
<1> QED BY <1>2, <1>4, <1>5 DEF AppendAll, q

LEMMA ListAllFacts ==
    ASSUME NEW T, NEW S \in SUBSET T, IsFiniteSet(S)
    PROVE  AppendAll(<<>>, S) \in Seq(T) /\ ToSet(AppendAll(<<>>, S)) = S
<1>1. PICK none : none = <<>>
  OBVIOUS
<1>2. none \in Seq(T)
  BY <1>1
<1>3. AppendAll(none, S) \in Seq(T) /\ ToSet(AppendAll(none, S)) = ToSet(none) \cup S
  BY <1>2, AppendAllFacts
<1>4. ToSet(none) = {}
  BY <1>1 DEF ToSet
<1> QED BY <1>1, <1>3, <1>4

LEMMA AppendUniqueFacts ==
    ASSUME NEW T, NEW items \in Seq(T), NEW p \in T
    PROVE  /\ AppendUnique(items, p) \in Seq(T)
           /\ ToSet(AppendUnique(items, p)) = ToSet(items) \cup {p}
           /\ AppendUnique(items, p) # <<>>
<1>1. CASE p \in ToSet(items)
  BY <1>1 DEF AppendUnique, ToSet
<1>2. CASE p \notin ToSet(items)
  <2> DEFINE n == Len(items)
             new == Append(items, p)
  <2>1. /\ n \in Nat /\ new \in Seq(T) /\ DOMAIN new = 1..(n + 1) /\ DOMAIN items = 1..n
        /\ new[n + 1] = p /\ \A i \in 1..n : new[i] = items[i]
    OBVIOUS
  <2> HIDE DEF n, new
  <2>2. ToSet(new) = ToSet(items) \cup {p}
    <3>1. \A i \in 1..(n + 1) : i \in 1..n \/ i = n + 1
      BY <2>1
    <3>2. n + 1 \in 1..(n + 1) /\ \A i \in 1..n : i \in 1..(n + 1)
      BY <2>1
    <3> QED BY <2>1, <3>1, <3>2 DEF ToSet
  <2>3. new # <<>>
    BY <2>2 DEF ToSet
  <2> QED BY <1>2, <2>1, <2>2, <2>3 DEF AppendUnique, new
<1> QED BY <1>1, <1>2

\* The head and the tail of a sequence are made of its elements.
LEMMA HeadTailFacts ==
    ASSUME NEW T, NEW items \in Seq(T), items # <<>>
    PROVE  /\ Head(items) \in ToSet(items) /\ Head(items) \in T
           /\ Tail(items) \in Seq(T) /\ ToSet(Tail(items)) \subseteq ToSet(items)
<1>1. Len(items) >= 1 /\ Head(items) = items[1]
  OBVIOUS
<1>2. Tail(items) \in Seq(T) /\ Len(Tail(items)) = Len(items) - 1
  OBVIOUS
<1>3. \A i \in 1..Len(Tail(items)) : Tail(items)[i] = items[i + 1] /\ i + 1 \in 1..Len(items)
  BY <1>1, <1>2
<1> QED BY <1>1, <1>2, <1>3 DEF ToSet

LEMMA ToSetFacts ==
    ASSUME NEW T, NEW items \in Seq(T)
    PROVE  /\ ToSet(items) \subseteq T /\ IsFiniteSet(ToSet(items))
           /\ (items = <<>>) <=> (ToSet(items) = {})
<1>1. ToSet(items) = { items[i] : i \in 1..Len(items) }
  BY DEF ToSet
<1>2. items \in Surjection(1..Len(items), ToSet(items))
  BY <1>1 DEF Surjection
<1>3. IsFiniteSet(ToSet(items))
  BY <1>2, FS_Interval, FS_Surjection
<1>4. items # <<>> => ToSet(items) # {}
  <2> SUFFICES ASSUME items # <<>> PROVE ToSet(items) # {}
    OBVIOUS
  <2>1. 1 \in 1..Len(items)
    OBVIOUS
  <2> QED BY <1>1, <2>1
<1>5. items = <<>> => ToSet(items) = {}
  BY DEF ToSet
<1> QED BY <1>1, <1>3, <1>4, <1>5

-----------------------------------------------------------------------------
(* Resources, what they refer to, and the roots of the lenses.             *)

LEMMA KindFacts ==
    ASSUME NEW p \in Resources
    PROVE  /\ p[1] = "datastream" => \E s \in Streams : p = Datastream(s)
           /\ p[1] = "event" => \E x \in Alerts \cup Messages : p = Event(x)
           /\ p[1] = "controlstream" => \E v \in Vehicles : p = ControlStream(v)
           /\ p[1] = "command" => \E c \in Commands : p = CommandOf(c)
BY DEF Resources, System, Datastream, Observation, ControlStream, CommandOf, Event, Feature

LEMMA ParentFacts ==
    /\ \A s : Parents(Datastream(s)) = {System(s[1])}
    /\ \A v : Parents(ControlStream(v)) = {System(v)}
    /\ \A c : Parents(CommandOf(c)) = {ControlStream(Subject[c])}
    /\ \A x \in Alerts \cup Messages :
          Parents(Event(x)) = {System(IF x \in Alerts THEN Subject[x] ELSE Sender[x])}
BY DEF Parents, Datastream, ControlStream, CommandOf, Event

\* An event refers to one system.
LEMMA EventFacts ==
    ASSUME NEW p \in Resources, p[1] = "event"
    PROVE  Parents(p) = {SystemOf(p)} /\ SystemOf(p) \in Resources
<1>1. PICK x \in Alerts \cup Messages : p = Event(x)
  BY KindFacts
<1>2. PICK y \in Tracks \cup Messages : Parents(p) = {System(y)}
  <2>1. CASE x \in Alerts
    BY <1>1, <2>1, ParentFacts, ResourcesAssumption DEF Tracks
  <2>2. CASE x \notin Alerts
    BY <1>1, <2>2, ParentFacts, ResourcesAssumption DEF Tracks
  <2> QED BY <2>1, <2>2
<1>3. System(y) \in Resources
  BY DEF Resources
<1>4. SystemOf(p) \in Parents(p)
  BY <1>2 DEF SystemOf
<1> QED BY <1>2, <1>3, <1>4

LEMMA RootFacts ==
    ASSUME NEW x \in Targets
    PROVE  /\ Root(x) \in Resources /\ Root(x) # None
           /\ Root(x)[1] \in {"system", "feature"}
           /\ x \in Tracks => Root(x) = System(x) /\ x \notin Messages /\ x \notin Markers
           /\ x \in Messages => /\ x \notin Markers /\ Event(x) \in Resources
                                /\ Parents(Event(x)) = {Root(x)}
<1>1. x \in Tracks => x \notin Messages /\ x \notin Markers
  BY KindsAssumption DEF Tracks
<1>2. x \in Messages => x \notin Markers /\ x \notin Alerts /\ Sender[x] \in Tracks \cup Messages
  BY KindsAssumption, ResourcesAssumption DEF Tracks
<1>3. x \in Markers => Root(x) = Feature(x) /\ Feature(x) \in Resources
  BY DEF Root, Resources
<1>4. x \in Tracks => Root(x) = System(x) /\ System(x) \in Resources
  BY <1>1 DEF Root, Resources
<1>5. x \in Messages => Root(x) = System(Sender[x]) /\ System(Sender[x]) \in Resources
  BY <1>2 DEF Root, Resources
<1>6. x \in Messages => Event(x) \in Resources /\ Parents(Event(x)) = {Root(x)}
  BY <1>2, <1>5, ParentFacts DEF Resources
<1>7. Root(x)[1] \in {"system", "feature"}
  BY <1>3, <1>4, <1>5 DEF Targets, System, Feature
<1>8. Root(x) \in Resources /\ Root(x) # None
  BY <1>3, <1>4, <1>5, ViewAssumption DEF Targets
<1> QED BY <1>1, <1>2, <1>4, <1>6, <1>7, <1>8

\* The streams and the commands that are fetched by id.
LEMMA StreamIdFacts ==
    ASSUME NEW x \in Tracks
    PROVE  /\ StreamsById(x) \in Seq(Resources) /\ StreamsById(x) # <<>>
           /\ ToSet(StreamsById(x)) = { Datastream(s) : s \in StreamsOf(x) }
<1> DEFINE ids == { Datastream(s) : s \in StreamsOf(x) }
           f == [s \in StreamsOf(x) |-> Datastream(s)]
<1>1. IsFiniteSet(StreamsOf(x)) /\ StreamsOf(x) # {}
  <2>1. IsFiniteSet({x}) /\ IsFiniteSet(Metrics) /\ IsFiniteSet({"position"})
    BY FS_Singleton, StoreAssumption
  <2>2. IsFiniteSet({x} \X Metrics) /\ IsFiniteSet({x} \X {"position"})
    BY <2>1, FS_Product
  <2>3. PICK metric \in Metrics : TRUE
    BY StoreAssumption
  <2>4. <<x, metric>> \in {x} \X Metrics /\ <<x, "position">> \in {x} \X {"position"}
    BY <2>3
  <2> QED BY <2>2, <2>4 DEF StreamsOf
<1>2. f \in Surjection(StreamsOf(x), ids)
  BY DEF Surjection
<1>3. IsFiniteSet(ids) /\ ids # {}
  BY <1>1, <1>2, FS_Surjection
<1>4. ids \subseteq Resources
  BY DEF Streams, Resources
<1>5. StreamsById(x) \in Seq(Resources) /\ ToSet(StreamsById(x)) = ids
  BY <1>3, <1>4, ListAllFacts, Zenon DEF StreamsById
<1> QED BY <1>3, <1>5, ToSetFacts

LEMMA CommandIdFacts ==
    ASSUME NEW listed \in SUBSET Commands
    PROVE  /\ IsFiniteSet({ CommandOf(c) : c \in listed })
           /\ { CommandOf(c) : c \in listed } \subseteq Resources
<1> DEFINE ids == { CommandOf(c) : c \in listed }
           f == [c \in listed |-> CommandOf(c)]
<1>1. IsFiniteSet(listed)
  BY StoreAssumption, FS_Subset
<1>2. f \in Surjection(listed, ids)
  BY DEF Surjection
<1>3. IsFiniteSet(ids)
  BY <1>1, <1>2, FS_Surjection
<1>4. ids \subseteq Resources
  BY DEF Resources
<1> QED BY <1>3, <1>4

\* What a listing reads is finite and on the server.
LEMMA ListingFacts ==
    ASSUME ServerOK, NEW S \in SUBSET server, NEW items \in Seq(Resources)
    PROVE  /\ AppendAll(items, S) \in Seq(Resources) /\ AppendAll(<<>>, S) \in Seq(Resources)
           /\ ToSet(AppendAll(items, S)) = ToSet(items) \cup S
           /\ ToSet(AppendAll(<<>>, S)) = S
<1>1. IsFiniteSet(S) /\ S \subseteq Resources
  BY FS_Subset DEF ServerOK
<1>2. AppendAll(<<>>, S) \in Seq(Resources) /\ ToSet(AppendAll(<<>>, S)) = S
  BY <1>1, ListAllFacts
<1> QED BY <1>1, <1>2, AppendAllFacts

LEMMA MatchFacts ==
    ASSUME ServerOK, NEW x \in Targets, NEW found \in Matches(x)
    PROVE  /\ found \in Resources \cup {None}
           /\ Root(x) \in server => found = Root(x)
BY DEF ServerOK, Matches, Collection

-----------------------------------------------------------------------------
(* The steps of a request. Each changes a few fields of the view.          *)

LEMMA PutFacts ==
    \A v, f, a : DOMAIN v = Fields /\ f \in Fields =>
        /\ DOMAIN Put(v, f, a) = Fields
        /\ Put(v, f, a)[f] = a
        /\ \A g \in Fields : g # f => Put(v, f, a)[g] = v[g]
BY DEF Put

LEMMA AnswersFacts ==
    ASSUME NEW p, NEW ok \in Answers(p)
    PROVE  ok \in BOOLEAN /\ (ok => p \in server)
BY DEF Answers

\* The request goes on, or is answered, with a view that is as it should be.
LEMMA Goes ==
    ASSUME IInv, UNCHANGED <<server, endpoint, later>>, ViewOK(view)'
    PROVE  IInv'
BY DEF IInv, ServerOK

\* What holds of a request under way.
LEMMA ViewFacts ==
    ASSUME IInv, view # None
    PROVE  /\ ServerOK /\ ViewOK(view) /\ DOMAIN view = Fields
           /\ view.target \in Targets /\ view.phase \in PhasesOf(view.target)
           /\ view.before \subseteq server
           /\ view.phase # "done" => view.status = "live"
           /\ view.target \in Messages => view.target \notin Tracks /\ view.target \notin Markers
           /\ view.target \notin Messages => view.target \in Markers \/ view.target \in Tracks
           /\ view.target \in Tracks => view.target \notin Markers
<1>1. ServerOK /\ ViewOK(view)
  BY DEF IInv
<1>2. Shape(view)
  BY <1>1 DEF ViewOK
<1>3. view.target \in Targets
  BY <1>2 DEF Shape
<1> QED BY <1>1, <1>2, <1>3, RootFacts DEF Shape, Targets

\* The step of fetchCSAPIItem for the system or the feature.
LEMMA FetchRootKeeps == IInv /\ FetchRoot => IInv'
<1> SUFFICES ASSUME IInv, FetchRoot PROVE IInv'
  OBVIOUS
<1> DEFINE t == view.target
           root(ok) == IF ok THEN Root(t) ELSE None
           todo == IF t \in Tracks THEN StreamsById(t) ELSE <<>>
           missed(ok) == Failed(ok, Root(t) \in server)
           phase(ok) == IF t \in Messages THEN "event"
                        ELSE IF ok THEN AfterRoot ELSE "root list"
<1>1. PICK ok \in Answers(Root(t)) :
          view' = Put(Put(Put(Put(view, "root", root(ok)), "todo", todo),
                          "missed", missed(ok)), "phase", phase(ok))
  BY Zenon DEF FetchRoot, Put
<1>2. view # None /\ view.phase = "root" /\ UNCHANGED <<server, endpoint, later>>
  BY DEF FetchRoot, AtPhase
<1>3. ok \in BOOLEAN /\ (ok => Root(t) \in server)
  BY <1>1, AnswersFacts
<1>4. /\ todo \in Seq(Resources)
      /\ t \in Tracks => todo # <<>> /\ ToSet(todo) = { Datastream(s) : s \in StreamsOf(t) }
  BY StreamIdFacts
<1>5. /\ missed(ok) \in BOOLEAN
      /\ ~missed(ok) => ~view.missed /\ (Root(t) \in server => ok)
  BY DEF Failed
<1>6. /\ t \in Messages => phase(ok) = "event"
      /\ t \notin Messages /\ ok => phase(ok) = IF t \in Markers THEN "done" ELSE "stream"
      /\ t \notin Messages /\ ~ok => phase(ok) = "root list"
      /\ root(ok) = IF ok THEN Root(t) ELSE None
  BY <1>3 DEF AfterRoot
<1> HIDE DEF root, todo, missed, phase
<1>7. /\ DOMAIN view' = Fields
      /\ view'.root = root(ok) /\ view'.todo = todo
      /\ view'.missed = missed(ok) /\ view'.phase = phase(ok)
      /\ \A g \in Fields \ {"root", "todo", "missed", "phase"} : view'[g] = view[g]
  BY <1>1, <1>2, ViewFacts, PutFacts DEF Fields
<1>8. /\ DOMAIN view' = Fields
      /\ view'.root = root(ok) /\ view'.todo = todo
      /\ view'.missed = missed(ok) /\ view'.phase = phase(ok)
      /\ view'.target = t /\ view'.status = view.status /\ view'.listed = view.listed
      /\ view'.streams = view.streams /\ view'.histories = view.histories
      /\ view'.events = view.events /\ view'.controls = view.controls
      /\ view'.commands = view.commands /\ view'.before = view.before
  BY <1>7 DEF Fields
<1>9. phase(ok) \in PhasesOf(t) /\ (phase(ok) = "done" => ok /\ t \in Markers)
  BY <1>2, <1>3, <1>6, ViewFacts DEF PhasesOf
<1>11. Shape(view)'
  BY <1>2, <1>3, <1>4, <1>5, <1>6, <1>8, <1>9, ViewFacts, RootFacts DEF ViewOK, Shape
<1>12. Held(view)'
  BY <1>2, <1>8, ViewFacts DEF ViewOK, Held, Collection
<1>13. ToGet(view)'
  BY <1>2, <1>4, <1>6, <1>8, ViewFacts DEF ToGet
<1>14. Rooted(view)'
  BY <1>2, <1>3, <1>6, <1>8, <1>9, ViewFacts, RootFacts DEF Rooted
<1>15. Complete(view)'
  <2>1. phase(ok) \notin {"history", "event list", "control list", "command list",
                          "command", "sender", "sender list"}
    BY <1>3, <1>6
  <2>2. ~missed(ok) /\ Root(t) \in view.before => root(ok) = Root(t)
    BY <1>2, <1>5, <1>6, ViewFacts
  <2> QED BY <1>2, <1>8, <1>9, <2>1, <2>2, ViewFacts DEF Complete, ListsRead, Tracks
<1>16. Pending(view)'
  BY <1>2, <1>8, ViewFacts DEF Pending
<1>17. Own(view)'
  BY <1>2, <1>6, <1>8, ViewFacts DEF ViewOK, Own
<1> QED BY <1>2, <1>11, <1>12, <1>13, <1>14, <1>15, <1>16, <1>17, Goes DEF ViewOK

LEMMA GivesUp ==
    ASSUME IInv, view # None, view.phase \in {"root list", "sender list"},
           view' = [view EXCEPT !.status = "unavailable", !.phase = "done", !.missed = TRUE],
           UNCHANGED <<server, endpoint, later>>
    PROVE  IInv'
<1>1. view' = Put(Put(Put(view, "status", "unavailable"), "phase", "done"), "missed", TRUE)
  BY Zenon DEF Put
<1>7. /\ DOMAIN view' = Fields
      /\ view'.status = "unavailable" /\ view'.phase = "done" /\ view'.missed = TRUE
      /\ \A g \in Fields \ {"status", "phase", "missed"} : view'[g] = view[g]
  BY <1>1, ViewFacts, PutFacts DEF Fields
<1>8. /\ DOMAIN view' = Fields
      /\ view'.status = "unavailable" /\ view'.phase = "done" /\ view'.missed = TRUE
      /\ view'.target = view.target /\ view'.listed = view.listed
      /\ view'.root = view.root /\ view'.todo = view.todo
      /\ view'.streams = view.streams /\ view'.histories = view.histories
      /\ view'.events = view.events /\ view'.controls = view.controls
      /\ view'.commands = view.commands /\ view'.before = view.before
  BY <1>7 DEF Fields
<1>9. "done" \in PhasesOf(view.target)
  BY DEF PhasesOf
<1>11. Shape(view)'
  BY <1>8, <1>9, ViewFacts DEF ViewOK, Shape
<1>12. Held(view)'
  BY <1>8, ViewFacts DEF ViewOK, Held, Collection
<1>13. ToGet(view)' /\ Rooted(view)' /\ Complete(view)' /\ Pending(view)'
  BY <1>8 DEF ToGet, Rooted, Complete, Pending
<1>17. Own(view)'
  BY <1>8, ViewFacts DEF ViewOK, Own
<1> QED BY <1>11, <1>12, <1>13, <1>17, Goes DEF ViewOK

LEMMA ListRootsKeeps == IInv /\ ListRoots => IInv'
<1> SUFFICES ASSUME IInv, ListRoots PROVE IInv'
  OBVIOUS
<1> DEFINE t == view.target
           status(r) == IF r = None THEN "pending" ELSE "live"
           phase(r) == IF r = None THEN "done" ELSE AfterRoot
<1>2. view # None /\ view.phase = "root list" /\ UNCHANGED <<server, endpoint, later>>
  BY DEF ListRoots, AtPhase
<1>3. SUFFICES ASSUME \E found \in Matches(t) :
                   view' = Put(Put(Put(view, "root", found), "status", status(found)),
                               "phase", phase(found))
               PROVE  IInv'
  BY <1>2, GivesUp, Zenon DEF ListRoots, Put
<1>4. PICK found \in Matches(t) :
          view' = Put(Put(Put(view, "root", found), "status", status(found)),
                      "phase", phase(found))
  BY <1>3
<1>5. found \in Resources \cup {None} /\ (Root(t) \in server => found = Root(t))
  BY <1>2, MatchFacts, ViewFacts
<1>6. /\ t \notin Messages
      /\ found = None => status(found) = "pending" /\ phase(found) = "done"
      /\ found # None => /\ status(found) = "live"
                         /\ phase(found) = IF t \in Markers THEN "done" ELSE "stream"
  BY <1>2, ViewFacts DEF AfterRoot, PhasesOf
<1> HIDE DEF status, phase
<1>7. /\ DOMAIN view' = Fields
      /\ view'.root = found /\ view'.status = status(found) /\ view'.phase = phase(found)
      /\ \A g \in Fields \ {"root", "status", "phase"} : view'[g] = view[g]
  <2>1. DOMAIN view = Fields
    BY <1>2, ViewFacts
  <2> QED BY <1>4, <2>1, PutFacts DEF Fields
<1>8. /\ DOMAIN view' = Fields
      /\ view'.root = found /\ view'.status = status(found) /\ view'.phase = phase(found)
      /\ view'.target = t /\ view'.listed = view.listed
      /\ view'.streams = view.streams /\ view'.histories = view.histories
      /\ view'.events = view.events /\ view'.controls = view.controls
      /\ view'.commands = view.commands /\ view'.todo = view.todo
      /\ view'.missed = view.missed /\ view'.before = view.before
  BY <1>7 DEF Fields
<1>11. Shape(view)'
  BY <1>2, <1>5, <1>6, <1>8, ViewFacts DEF ViewOK, Shape, PhasesOf
<1>12. Held(view)'
  BY <1>2, <1>8, ViewFacts DEF ViewOK, Held, Collection
<1>13. ToGet(view)'
  BY <1>2, <1>6, <1>8, ViewFacts DEF ViewOK, ToGet
<1>14. Rooted(view)'
  BY <1>6, <1>8 DEF Rooted
<1>15. Complete(view)'
  <2>1. status(found) = "live" => phase(found) = "stream" \/ t \notin Tracks
    BY <1>2, <1>6, ViewFacts
  <2>2. Root(t) \in view.before => found = Root(t)
    BY <1>2, <1>5, ViewFacts
  <2> QED BY <1>6, <1>8, <2>1, <2>2 DEF Complete, ListsRead, Tracks
<1>16. Pending(view)'
  BY <1>2, <1>5, <1>6, <1>8, ViewFacts, RootFacts DEF Pending
<1>17. Own(view)'
  <2>1. OwnResource(t) \subseteq view.before => found = Root(t)
    BY <1>2, <1>5, <1>6, ViewFacts DEF OwnResource
  <2> QED BY <1>2, <1>8, <2>1, ViewFacts DEF ViewOK, Own
<1> QED BY <1>2, <1>11, <1>12, <1>13, <1>14, <1>15, <1>16, <1>17, Goes DEF ViewOK

-----------------------------------------------------------------------------
(* Vehicles and operators.                                                 *)

\* What hangs from the system of a track is about the track.
LEMMA AboutFacts ==
    ASSUME NEW x \in Tracks, NEW p \in Resources, Root(x) \in Parents(p)
    PROVE  /\ p[1] = "datastream" => p \in About(x)
           /\ x \in Vehicles /\ p[1] \in {"controlstream", "event"} => p \in About(x)
<1>1. x \in Vehicles => x \notin Operators
  BY KindsAssumption
<1> QED BY <1>1 DEF About

LEMMA OwnStreamFacts ==
    ASSUME NEW x \in Tracks
    PROVE  /\ \A s \in StreamsOf(x) : /\ Datastream(s) \in Resources
                                      /\ Datastream(s)[1] = "datastream"
                                      /\ Parents(Datastream(s)) = {Root(x)}
           /\ x \in Operators => \A p \in Resources :
                 p[1] = "datastream" /\ Root(x) \in Parents(p) => p = Datastream(<<x, "position">>)
           /\ x \in Operators => StreamsOf(x) = {<<x, "position">>}
<1>1. Root(x) = System(x)
  BY RootFacts DEF Targets
<1>2. x \in Operators => x \notin Vehicles
  BY KindsAssumption
<1>3. \A s \in StreamsOf(x) : s \in Streams /\ s[1] = x
  BY DEF Streams, StreamsOf
<1>4. \A s \in StreamsOf(x) : /\ Datastream(s) \in Resources
                              /\ Datastream(s)[1] = "datastream"
                              /\ Parents(Datastream(s)) = {Root(x)}
  BY <1>1, <1>3, ParentFacts DEF Resources, Datastream
<1>5. x \in Operators => StreamsOf(x) = {<<x, "position">>}
  BY <1>2 DEF StreamsOf
<1>6. ASSUME x \in Operators, NEW p \in Resources, p[1] = "datastream", Root(x) \in Parents(p)
      PROVE  p = Datastream(<<x, "position">>)
  <2>1. PICK s \in Streams : p = Datastream(s)
    BY <1>6, KindFacts
  <2>2. System(s[1]) = System(x)
    BY <1>1, <1>6, <2>1, ParentFacts
  <2>3. s[1] = x
    BY <2>2 DEF System
  <2>4. PICK y \in Tracks : s \in StreamsOf(y)
    BY DEF Streams
  <2>5. s[1] = y
    BY <2>4 DEF StreamsOf
  <2> QED BY <1>5, <1>6, <2>1, <2>3, <2>4, <2>5
<1> QED BY <1>4, <1>5, <1>6

LEMMA FetchStreamKeeps == IInv /\ FetchStream => IInv'
<1> SUFFICES ASSUME IInv, FetchStream PROVE IInv'
  OBVIOUS
<1> DEFINE t == view.target
           p == Head(view.todo)
           found(ok) == IF ok THEN AppendUnique(view.streams, p) ELSE view.streams
           only(ok) == ok /\ t \in Operators
           missed(ok) == Failed(ok, p \in server)
           todo(ok) == IF only(ok) THEN found(ok) ELSE Tail(view.todo)
           phase(ok) == IF only(ok) THEN "history"
                        ELSE IF Tail(view.todo) = <<>> THEN "stream list" ELSE view.phase
<1>1. PICK ok \in Answers(p) :
          view' = Put(Put(Put(Put(view, "streams", found(ok)), "missed", missed(ok)),
                          "todo", todo(ok)), "phase", phase(ok))
  BY Zenon DEF FetchStream, Put
<1>2. view # None /\ view.phase = "stream" /\ UNCHANGED <<server, endpoint, later>>
  BY DEF FetchStream, AtPhase
<1>3. ok \in BOOLEAN /\ (ok => p \in server)
  BY <1>1, AnswersFacts
<1>4. t \in Tracks /\ t \notin Messages
  BY <1>2, ViewFacts DEF PhasesOf
<1>5. /\ view.todo \in Seq(Resources) /\ view.todo # <<>>
      /\ ToSet(view.todo) \subseteq { Datastream(s) : s \in StreamsOf(t) }
      /\ view.streams \in Seq(Resources)
  BY <1>2, ViewFacts DEF ViewOK, Shape, ToGet
<1>6. /\ p \in Resources /\ p \in { Datastream(s) : s \in StreamsOf(t) }
      /\ Tail(view.todo) \in Seq(Resources)
      /\ ToSet(Tail(view.todo)) \subseteq { Datastream(s) : s \in StreamsOf(t) }
  BY <1>5, HeadTailFacts
<1>7. p[1] = "datastream" /\ Root(t) \in Parents(p) /\ p \in About(t)
  BY <1>4, <1>6, OwnStreamFacts, AboutFacts
<1>8. /\ found(ok) \in Seq(Resources)
      /\ ok => ToSet(found(ok)) = ToSet(view.streams) \cup {p} /\ found(ok) # <<>>
      /\ ~ok => found(ok) = view.streams
  <2>1. /\ AppendUnique(view.streams, p) \in Seq(Resources)
        /\ ToSet(AppendUnique(view.streams, p)) = ToSet(view.streams) \cup {p}
        /\ AppendUnique(view.streams, p) # <<>>
    BY <1>5, <1>6, AppendUniqueFacts
  <2> QED BY <1>3, <1>5, <2>1
<1>9. /\ missed(ok) \in BOOLEAN
      /\ ~missed(ok) => ~view.missed
  BY DEF Failed
<1>10. \/ /\ ok /\ t \in Operators
          /\ phase(ok) = "history" /\ todo(ok) = found(ok)
       \/ /\ todo(ok) = Tail(view.todo)
          /\ phase(ok) = IF Tail(view.todo) = <<>> THEN "stream list" ELSE "stream"
  BY <1>2, <1>3
<1> HIDE DEF p, found, only, missed, todo, phase
<1>11. /\ DOMAIN view' = Fields
       /\ view'.streams = found(ok) /\ view'.missed = missed(ok)
       /\ view'.todo = todo(ok) /\ view'.phase = phase(ok)
       /\ \A g \in Fields \ {"streams", "missed", "todo", "phase"} : view'[g] = view[g]
  <2>1. DOMAIN view = Fields
    BY <1>2, ViewFacts
  <2> QED BY <1>1, <2>1, PutFacts DEF Fields
<1>12. /\ DOMAIN view' = Fields
       /\ view'.streams = found(ok) /\ view'.missed = missed(ok)
       /\ view'.todo = todo(ok) /\ view'.phase = phase(ok)
       /\ view'.target = t /\ view'.status = view.status /\ view'.listed = view.listed
       /\ view'.root = view.root /\ view'.histories = view.histories
       /\ view'.events = view.events /\ view'.controls = view.controls
       /\ view'.commands = view.commands /\ view'.before = view.before
  BY <1>11 DEF Fields
<1>13. /\ phase(ok) \in {"stream", "stream list", "history"}
       /\ todo(ok) \in Seq(Resources)
  BY <1>6, <1>8, <1>10
<1>14. Shape(view)'
  BY <1>2, <1>4, <1>8, <1>9, <1>12, <1>13, ViewFacts DEF ViewOK, Shape, PhasesOf
<1>15. Held(view)'
  BY <1>2, <1>3, <1>7, <1>8, <1>12, ViewFacts DEF ViewOK, Held, Collection
<1>16. ToGet(view)'
  BY <1>6, <1>8, <1>10, <1>12 DEF ToGet
<1>17. Rooted(view)'
  BY <1>2, <1>4, <1>12, <1>13, ViewFacts DEF ViewOK, Rooted
<1>18. Complete(view)'
  <2>1. phase(ok) = "history" => AllRead(view', "datastream", found(ok))
    <3>1. SUFFICES ASSUME phase(ok) = "history"
                   PROVE  AllRead(view', "datastream", found(ok))
      OBVIOUS
    <3>2. ok /\ t \in Operators
      BY <1>10, <3>1
    <3>3. p = Datastream(<<t, "position">>)
      BY <1>4, <1>6, <1>7, <3>2, OwnStreamFacts
    <3>4. view.before \subseteq Resources
      BY <1>2, ViewFacts DEF ServerOK
    <3> QED BY <1>4, <1>8, <1>12, <3>2, <3>3, <3>4, OwnStreamFacts DEF AllRead
  <2>2. view'.status = "live" /\ ~view'.missed =>
            (Root(t) \in view.before => view.root = Root(t))
    BY <1>2, <1>9, <1>12, ViewFacts DEF ViewOK, Complete
  <2> QED BY <1>4, <1>12, <1>13, <2>1, <2>2 DEF Complete, ListsRead
<1>19. Pending(view)'
  BY <1>2, <1>12, ViewFacts DEF Pending
<1>20. Own(view)'
  BY <1>2, <1>3, <1>7, <1>8, <1>12, ViewFacts DEF ViewOK, Own
<1> QED BY <1>2, <1>14, <1>15, <1>16, <1>17, <1>18, <1>19, <1>20, Goes DEF ViewOK

\* A listing by the root of a track: of its own while it is on the server, and
\* complete.
LEMMA RootedListing ==
    ASSUME IInv, view # None, view.target \in Tracks, NEW kind
    PROVE  LET listed == OfSystem(Collection(kind), view.root)
           IN  /\ listed \subseteq Collection(kind)
               /\ view.root = Root(view.target) =>
                     \A p \in view.before :
                         p[1] = kind /\ Root(view.target) \in Parents(p) => p \in listed
               /\ view.root = Root(view.target) =>
                     \A p \in listed : p[1] = kind /\ Root(view.target) \in Parents(p)
BY ViewFacts DEF OfSystem, Collection

\* While no GET has failed, what is on the server about a track hangs from the
\* root that was found; once the track is there, no other root is found.
LEMMA RootKnown ==
    ASSUME IInv, view # None, view.target \in Tracks,
           view.phase \notin {"root", "root list", "done"}
    PROVE  /\ view.root # None
           /\ ~view.missed =>
                 \A p \in view.before :
                     Root(view.target) \in Parents(p) => view.root = Root(view.target)
           /\ OwnResource(view.target) \subseteq view.before => view.root = Root(view.target)
<1>1. view.target \notin Messages
  BY ViewFacts
<1>2. view.root # None
  BY <1>1, ViewFacts DEF ViewOK, Rooted
<1>3. ~view.missed /\ Root(view.target) \in view.before => view.root = Root(view.target)
  BY ViewFacts DEF ViewOK, Complete
<1>4. Closed(view.before)
  BY ViewFacts DEF ViewOK, Shape
<1>5. OwnResource(view.target) \subseteq view.before => view.root = Root(view.target)
  BY <1>1, <1>2, ViewFacts DEF ViewOK, Own, NamedBy
<1> QED BY <1>2, <1>3, <1>4, <1>5 DEF Closed

LEMMA ListStreamsKeeps == IInv /\ ListStreams => IInv'
<1> SUFFICES ASSUME IInv, ListStreams PROVE IInv'
  OBVIOUS
<1> DEFINE t == view.target
           listed(ok) == IF ~ok THEN {}
                         ELSE IF t \in Operators THEN OperatorStreams(view.root)
                         ELSE OfSystem(Collection("datastream"), view.root)
           found(ok) == AppendAll(view.streams, listed(ok))
           missed(ok) == Failed(ok, TRUE)
           phase(ok) == AfterStreams(found(ok))
<1>1. PICK ok \in BOOLEAN :
          view' = Put(Put(Put(Put(view, "streams", found(ok)), "todo", found(ok)),
                          "missed", missed(ok)), "phase", phase(ok))
  BY Zenon DEF ListStreams, Put
<1>2. view # None /\ view.phase = "stream list" /\ UNCHANGED <<server, endpoint, later>>
  BY DEF ListStreams, AtPhase
<1>3. t \in Tracks /\ t \notin Messages
  BY <1>2, ViewFacts DEF PhasesOf
<1>4. listed(ok) \subseteq Collection("datastream")
  BY DEF OperatorStreams, OfSystem
<1>5. /\ found(ok) \in Seq(Resources)
      /\ ToSet(found(ok)) = ToSet(view.streams) \cup listed(ok)
  <2>1. view.streams \in Seq(Resources) /\ listed(ok) \subseteq server /\ ServerOK
    BY <1>2, <1>4, ViewFacts DEF ViewOK, Shape, Collection
  <2> HIDE DEF listed
  <2> QED BY <2>1, ListingFacts
<1>6. ~missed(ok) => ~view.missed /\ ok
  BY DEF Failed
<1>7. missed(ok) \in BOOLEAN
  BY DEF Failed
<1>8. \A p \in view.before : p[1] = "datastream" /\ Root(t) \in Parents(p) =>
          (~missed(ok) => p \in listed(ok))
  <2> SUFFICES ASSUME NEW p \in view.before, p[1] = "datastream", Root(t) \in Parents(p),
                      ~missed(ok)
               PROVE  p \in listed(ok)
    OBVIOUS
  <2>1. view.root = Root(t)
    BY <1>2, <1>3, <1>6, RootKnown
  <2>2. p \in OfSystem(Collection("datastream"), view.root)
    BY <1>2, <1>3, <2>1, RootedListing
  <2> QED BY <1>6, <2>2 DEF OperatorStreams
<1>9. OwnResource(t) \subseteq view.before => listed(ok) \subseteq About(t)
  <2> SUFFICES ASSUME OwnResource(t) \subseteq view.before, NEW p \in listed(ok)
               PROVE  p \in About(t)
    OBVIOUS
  <2>1. view.root = Root(t)
    BY <1>2, <1>3, RootKnown
  <2>2. p \in OfSystem(Collection("datastream"), view.root)
    <3>1. CASE t \in Operators
      <4>1. Datastream(<<t, "position">>) \in view.before
        BY <1>3, <3>1, OwnStreamFacts DEF OwnResource
      <4>2. /\ Datastream(<<t, "position">>)[1] = "datastream"
            /\ Root(t) \in Parents(Datastream(<<t, "position">>))
        BY <1>3, <3>1, OwnStreamFacts
      <4>3. OfSystem(Collection("datastream"), view.root) # {}
        BY <1>2, <1>3, <2>1, <4>1, <4>2, RootedListing
      <4> QED BY <3>1, <4>3 DEF OperatorStreams
    <3>2. CASE t \notin Operators
      BY <3>2
    <3> QED BY <3>1, <3>2
  <2>3. p[1] = "datastream" /\ Root(t) \in Parents(p) /\ p \in Resources
    BY <1>2, <2>1, <2>2, ViewFacts DEF ServerOK, OfSystem, Collection
  <2> QED BY <1>3, <2>3, AboutFacts
<1>10. /\ phase(ok) \in {"history", "event list", "done"}
       /\ phase(ok) = "history" => found(ok) # <<>>
       /\ phase(ok) = "event list" => t \in Vehicles
       /\ phase(ok) = "done" => t \notin Vehicles
  BY DEF AfterStreams, AfterHistories
<1> HIDE DEF listed, found, missed, phase
<1>11. /\ DOMAIN view' = Fields
       /\ view'.streams = found(ok) /\ view'.todo = found(ok)
       /\ view'.missed = missed(ok) /\ view'.phase = phase(ok)
       /\ \A g \in Fields \ {"streams", "missed", "todo", "phase"} : view'[g] = view[g]
  <2>1. DOMAIN view = Fields
    BY <1>2, ViewFacts
  <2> QED BY <1>1, <2>1, PutFacts DEF Fields
<1>12. /\ DOMAIN view' = Fields
       /\ view'.streams = found(ok) /\ view'.todo = found(ok)
       /\ view'.missed = missed(ok) /\ view'.phase = phase(ok)
       /\ view'.target = t /\ view'.status = view.status /\ view'.listed = view.listed
       /\ view'.root = view.root /\ view'.histories = view.histories
       /\ view'.events = view.events /\ view'.controls = view.controls
       /\ view'.commands = view.commands /\ view'.before = view.before
  BY <1>11 DEF Fields
<1>14. Shape(view)'
  BY <1>2, <1>3, <1>5, <1>7, <1>10, <1>12, ViewFacts DEF ViewOK, Shape, PhasesOf, ListsRead
<1>15. Held(view)'
  BY <1>2, <1>4, <1>5, <1>12, ViewFacts DEF ViewOK, Held, Collection
<1>16. ToGet(view)'
  BY <1>10, <1>12 DEF ToGet
<1>17. Rooted(view)'
  BY <1>2, <1>3, <1>10, <1>12, RootKnown DEF Rooted
<1>18. Complete(view)'
  <2>1. ~missed(ok) => AllRead(view', "datastream", found(ok))
    BY <1>5, <1>8, <1>12 DEF AllRead
  <2>2. view'.status = "live" /\ ~view'.missed =>
            (Root(t) \in view.before => view.root = Root(t))
    BY <1>2, <1>6, <1>12, ViewFacts DEF ViewOK, Complete
  <2> QED BY <1>3, <1>10, <1>12, <2>1, <2>2 DEF Complete, ListsRead
<1>19. Pending(view)'
  BY <1>2, <1>12, ViewFacts DEF Pending
<1>20. Own(view)'
  BY <1>2, <1>5, <1>9, <1>12, ViewFacts DEF ViewOK, Own
<1> QED BY <1>2, <1>14, <1>15, <1>16, <1>17, <1>18, <1>19, <1>20, Goes DEF ViewOK

LEMMA FetchHistoryKeeps == IInv /\ FetchHistory => IInv'
<1> SUFFICES ASSUME IInv, FetchHistory PROVE IInv'
  OBVIOUS
<1> DEFINE t == view.target
           p == Head(view.todo)
           histories(ok) == IF ok THEN view.histories \cup {p} ELSE view.histories
           missed(ok) == Failed(ok, TRUE)
           todo == Tail(view.todo)
           phase(ok) == IF todo = <<>> THEN AfterHistories ELSE view.phase
<1>1. PICK ok \in Answers(p) :
          view' = Put(Put(Put(Put(view, "histories", histories(ok)), "missed", missed(ok)),
                          "todo", todo), "phase", phase(ok))
  BY Zenon DEF FetchHistory, Put
<1>2. view # None /\ view.phase = "history" /\ UNCHANGED <<server, endpoint, later>>
  BY DEF FetchHistory, AtPhase
<1>3. t \in Tracks /\ t \notin Messages
  BY <1>2, ViewFacts DEF PhasesOf
<1>4. /\ view.todo \in Seq(Resources) /\ view.todo # <<>>
      /\ ToSet(view.todo) \subseteq ToSet(view.streams)
      /\ view.histories \subseteq ToSet(view.streams)
  BY <1>2, ViewFacts DEF ViewOK, Shape, ToGet, Held
<1>5. /\ p \in ToSet(view.streams) /\ todo \in Seq(Resources)
      /\ ToSet(todo) \subseteq ToSet(view.streams)
  BY <1>4, HeadTailFacts
<1>6. histories(ok) \subseteq ToSet(view.streams)
  BY <1>4, <1>5
<1>7. missed(ok) \in BOOLEAN /\ (~missed(ok) => ~view.missed)
  BY DEF Failed
<1>8. /\ phase(ok) \in {"history", "event list", "done"}
      /\ phase(ok) = "history" => todo # <<>>
      /\ phase(ok) = "event list" => t \in Vehicles
      /\ phase(ok) = "done" => t \notin Vehicles
  BY <1>2 DEF AfterHistories
<1> HIDE DEF p, histories, missed, todo, phase
<1>11. /\ DOMAIN view' = Fields
       /\ view'.histories = histories(ok) /\ view'.missed = missed(ok)
       /\ view'.todo = todo /\ view'.phase = phase(ok)
       /\ \A g \in Fields \ {"histories", "missed", "todo", "phase"} : view'[g] = view[g]
  <2>1. DOMAIN view = Fields
    BY <1>2, ViewFacts
  <2> QED BY <1>1, <2>1, PutFacts DEF Fields
<1>12. /\ DOMAIN view' = Fields
       /\ view'.histories = histories(ok) /\ view'.missed = missed(ok)
       /\ view'.todo = todo /\ view'.phase = phase(ok)
       /\ view'.target = t /\ view'.status = view.status /\ view'.listed = view.listed
       /\ view'.root = view.root /\ view'.streams = view.streams
       /\ view'.events = view.events /\ view'.controls = view.controls
       /\ view'.commands = view.commands /\ view'.before = view.before
  BY <1>11 DEF Fields
<1>14. Shape(view)'
  BY <1>2, <1>3, <1>5, <1>7, <1>8, <1>12, ViewFacts DEF ViewOK, Shape, PhasesOf, ListsRead
<1>15. Held(view)'
  BY <1>2, <1>6, <1>12, ViewFacts DEF ViewOK, Held, Collection
<1>16. ToGet(view)'
  BY <1>5, <1>8, <1>12 DEF ToGet
<1>17. Rooted(view)'
  BY <1>2, <1>3, <1>8, <1>12, RootKnown DEF Rooted
<1>18. Complete(view)'
  <2>1. ~view.missed => AllRead(view, "datastream", view.streams)
                        /\ (Root(t) \in view.before => view.root = Root(t))
    <3>1. Complete(view) /\ view.status = "live"
      BY <1>2, ViewFacts DEF ViewOK
    <3> QED BY <1>2, <1>3, <3>1 DEF Complete
  <2>2. ~missed(ok) => AllRead(view', "datastream", view.streams)
    BY <1>7, <1>12, <2>1 DEF AllRead
  <2> QED BY <1>3, <1>7, <1>8, <1>12, <2>1, <2>2 DEF Complete, ListsRead
<1>19. Pending(view)'
  BY <1>2, <1>12, ViewFacts DEF Pending
<1>20. Own(view)'
  BY <1>2, <1>12, ViewFacts DEF ViewOK, Own
<1> QED BY <1>2, <1>14, <1>15, <1>16, <1>17, <1>18, <1>19, <1>20, Goes DEF ViewOK

-----------------------------------------------------------------------------
(* Vehicles: events, control streams and commands.                         *)

\* What a vehicle's lens lists by its root.
LEMMA VehicleListing ==
    ASSUME IInv, view # None, view.target \in Vehicles,
           view.phase \notin {"root", "root list", "done"},
           NEW kind \in {"event", "controlstream"}
    PROVE  LET items == AppendAll(<<>>, OfSystem(Collection(kind), view.root))
           IN  /\ items \in Seq(Resources) /\ ToSet(items) \subseteq Collection(kind)
               /\ ~view.missed => AllRead(view, kind, items)
               /\ OwnResource(view.target) \subseteq view.before =>
                      ToSet(items) \subseteq About(view.target)
<1> DEFINE listed == OfSystem(Collection(kind), view.root)
           items == AppendAll(<<>>, listed)
<1>1. view.target \in Tracks
  BY DEF Tracks
<1>2. listed \subseteq Collection(kind) /\ listed \subseteq server /\ listed \subseteq Resources
  BY ViewFacts DEF OfSystem, Collection, ServerOK
<1>3. items \in Seq(Resources) /\ ToSet(items) = listed
  <2> HIDE DEF listed
  <2>1. ServerOK
    BY ViewFacts
  <2>2. IsFiniteSet(listed)
    BY <1>2, <2>1, FS_Subset DEF ServerOK
  <2> QED BY <1>2, <2>2, ListAllFacts
<1>4. ~view.missed => AllRead(view, kind, items)
  <2> SUFFICES ASSUME ~view.missed, NEW p \in view.before, p[1] = kind,
                      Root(view.target) \in Parents(p)
               PROVE  p \in ToSet(items)
    BY DEF AllRead
  <2>1. view.root = Root(view.target)
    BY <1>1, RootKnown
  <2>2. p \in listed
    BY <1>1, <2>1, RootedListing
  <2> QED BY <1>3, <2>2
<1>5. ASSUME OwnResource(view.target) \subseteq view.before, NEW p \in listed
      PROVE  p \in About(view.target)
  <2>1. view.root = Root(view.target)
    BY <1>1, <1>5, RootKnown
  <2>2. p[1] = kind /\ Root(view.target) \in Parents(p) /\ p \in Resources
    BY <1>2, <1>5, <2>1 DEF OfSystem, Collection
  <2> QED BY <1>1, <2>2, AboutFacts
<1> QED BY <1>2, <1>3, <1>4, <1>5

\* The lists of a vehicle's lens are those of a vehicle on its way.
LEMMA VehicleSoFar ==
    ASSUME IInv, view # None,
           view.phase \in {"event list", "control list", "command list", "command"},
           view.target \notin Messages
    PROVE  /\ view.target \in Vehicles /\ view.target \in Tracks
           /\ view.root # None /\ view.status = "live"
           /\ ~view.missed =>
                  /\ Root(view.target) \in view.before => view.root = Root(view.target)
                  /\ AllRead(view, "datastream", view.streams)
                  /\ view.phase # "event list" => AllRead(view, "event", view.events)
                  /\ view.phase \in {"command list", "command"} =>
                         AllRead(view, "controlstream", view.controls)
                  /\ view.phase = "command" =>
                         \A p \in view.before : p[1] = "command" /\ Subject[p[2]] = view.target
                                                    => p \in ToSet(view.commands)
<1>1. view.target \in Vehicles /\ view.target \in Tracks
  BY ViewFacts DEF PhasesOf, ListsRead
<1>2. view.root # None /\ view.status = "live"
  BY <1>1, RootKnown, ViewFacts
<1>3. Complete(view)
  BY ViewFacts DEF ViewOK
<1>4. view.phase \in ListsRead(view.target)
  BY <1>1 DEF ListsRead
<1>5. ~view.missed =>
          /\ Root(view.target) \in view.before => view.root = Root(view.target)
          /\ AllRead(view, "datastream", view.streams)
          /\ view.phase # "event list" => AllRead(view, "event", view.events)
  BY <1>1, <1>2, <1>3, <1>4 DEF Complete
<1>6. ~view.missed =>
          /\ view.phase \in {"command list", "command"} =>
                 AllRead(view, "controlstream", view.controls)
          /\ view.phase = "command" =>
                 \A p \in view.before : p[1] = "command" /\ Subject[p[2]] = view.target
                                            => p \in ToSet(view.commands)
  BY <1>1, <1>2, <1>3 DEF Complete
<1> QED BY <1>1, <1>2, <1>5, <1>6

LEMMA ListEventsKeeps == IInv /\ ListEvents => IInv'
<1> SUFFICES ASSUME IInv, ListEvents PROVE IInv'
  OBVIOUS
<1> DEFINE t == view.target
           events(ok) == IF ok THEN AppendAll(<<>>, EventsOf(view.root)) ELSE <<>>
           missed(ok) == Failed(ok, TRUE)
           phase == "control list"
<1>1. PICK ok \in BOOLEAN :
          view' = Put(Put(Put(view, "events", events(ok)), "missed", missed(ok)),
                      "phase", phase)
  BY Zenon DEF ListEvents, Put
<1>2. /\ view # None /\ view.phase = "event list" /\ UNCHANGED <<server, endpoint, later>>
      /\ t \notin Messages
  BY ViewFacts DEF ListEvents, AtPhase, Tracks
<1>3. /\ events(ok) \in Seq(Resources) /\ ToSet(events(ok)) \subseteq Collection("event")
      /\ ok /\ ~view.missed => AllRead(view, "event", events(ok))
      /\ OwnResource(t) \subseteq view.before => ToSet(events(ok)) \subseteq About(t)
  <2>1. CASE ok
    BY <1>2, <2>1, VehicleSoFar, VehicleListing DEF EventsOf
  <2>2. CASE ~ok
    BY <2>2 DEF ToSet
  <2> QED BY <2>1, <2>2
<1>4. missed(ok) \in BOOLEAN /\ (~missed(ok) => ~view.missed /\ ok) /\ phase = "control list"
  BY DEF Failed
<1> HIDE DEF events, missed, phase
<1>11. /\ DOMAIN view' = Fields
       /\ view'.events = events(ok) /\ view'.missed = missed(ok)
       /\ view'.phase = phase
       /\ \A g \in Fields \ {"events", "missed", "phase"} : view'[g] = view[g]
  <2>1. DOMAIN view = Fields
    BY <1>2, ViewFacts
  <2> QED BY <1>1, <2>1, PutFacts DEF Fields
<1>12. /\ DOMAIN view' = Fields
       /\ view'.events = events(ok) /\ view'.missed = missed(ok)
       /\ view'.phase = phase
       /\ view'.target = t /\ view'.status = view.status /\ view'.listed = view.listed
       /\ view'.root = view.root /\ view'.streams = view.streams
       /\ view'.histories = view.histories /\ view'.controls = view.controls
       /\ view'.commands = view.commands /\ view'.todo = view.todo
       /\ view'.before = view.before
  BY <1>11 DEF Fields
<1>14. Shape(view)'
  BY <1>2, <1>3, <1>4, <1>12, ViewFacts, VehicleSoFar DEF ViewOK, Shape, PhasesOf, ListsRead
<1>15. Held(view)'
  BY <1>2, <1>3, <1>12, ViewFacts DEF ViewOK, Held, Collection
<1>16. ToGet(view)' /\ Pending(view)'
  BY <1>2, <1>4, <1>12, ViewFacts DEF ToGet, Pending
<1>17. Rooted(view)'
  BY <1>2, <1>4, <1>12, VehicleSoFar DEF Rooted
<1>18. Complete(view)'
  <2>1. ~missed(ok) => /\ AllRead(view', "datastream", view.streams)
                       /\ AllRead(view', "event", events(ok))
    BY <1>2, <1>3, <1>4, <1>12, VehicleSoFar DEF AllRead
  <2> QED BY <1>2, <1>4, <1>12, <2>1, VehicleSoFar DEF Complete
<1>20. Own(view)'
  BY <1>2, <1>3, <1>12, ViewFacts DEF ViewOK, Own
<1> QED BY <1>2, <1>14, <1>15, <1>16, <1>17, <1>18, <1>20, Goes DEF ViewOK

LEMMA ListControlsKeeps == IInv /\ ListControls => IInv'
<1> SUFFICES ASSUME IInv, ListControls PROVE IInv'
  OBVIOUS
<1> DEFINE t == view.target
           controls(ok) == IF ok THEN AppendAll(<<>>,
                               OfSystem(Collection("controlstream"), view.root)) ELSE <<>>
           missed(ok) == Failed(ok, TRUE)
           phase == "command list"
<1>1. PICK ok \in BOOLEAN :
          view' = Put(Put(Put(view, "controls", controls(ok)), "missed", missed(ok)),
                      "phase", phase)
  BY Zenon DEF ListControls, Put
<1>2. /\ view # None /\ view.phase = "control list" /\ UNCHANGED <<server, endpoint, later>>
      /\ t \notin Messages
  BY ViewFacts DEF ListControls, AtPhase, PhasesOf
<1>3. /\ controls(ok) \in Seq(Resources)
      /\ ToSet(controls(ok)) \subseteq Collection("controlstream")
      /\ ok /\ ~view.missed => AllRead(view, "controlstream", controls(ok))
      /\ OwnResource(t) \subseteq view.before => ToSet(controls(ok)) \subseteq About(t)
  <2>1. CASE ok
    BY <1>2, <2>1, VehicleSoFar, VehicleListing
  <2>2. CASE ~ok
    BY <2>2 DEF ToSet
  <2> QED BY <2>1, <2>2
<1>4. missed(ok) \in BOOLEAN /\ (~missed(ok) => ~view.missed /\ ok) /\ phase = "command list"
  BY DEF Failed
<1> HIDE DEF controls, missed, phase
<1>11. /\ DOMAIN view' = Fields
       /\ view'.controls = controls(ok) /\ view'.missed = missed(ok)
       /\ view'.phase = phase
       /\ \A g \in Fields \ {"controls", "missed", "phase"} : view'[g] = view[g]
  <2>1. DOMAIN view = Fields
    BY <1>2, ViewFacts
  <2> QED BY <1>1, <2>1, PutFacts DEF Fields
<1>12. /\ DOMAIN view' = Fields
       /\ view'.controls = controls(ok) /\ view'.missed = missed(ok)
       /\ view'.phase = phase
       /\ view'.target = t /\ view'.status = view.status /\ view'.listed = view.listed
       /\ view'.root = view.root /\ view'.streams = view.streams
       /\ view'.histories = view.histories /\ view'.events = view.events
       /\ view'.commands = view.commands /\ view'.todo = view.todo
       /\ view'.before = view.before
  BY <1>11 DEF Fields
<1>14. Shape(view)'
  BY <1>2, <1>3, <1>4, <1>12, ViewFacts, VehicleSoFar DEF ViewOK, Shape, PhasesOf, ListsRead
<1>15. Held(view)'
  BY <1>2, <1>3, <1>12, ViewFacts DEF ViewOK, Held, Collection
<1>16. ToGet(view)' /\ Pending(view)'
  BY <1>2, <1>4, <1>12, ViewFacts DEF ToGet, Pending
<1>17. Rooted(view)'
  BY <1>2, <1>4, <1>12, VehicleSoFar DEF Rooted
<1>18. Complete(view)'
  <2>1. ~missed(ok) => /\ AllRead(view', "datastream", view.streams)
                       /\ AllRead(view', "event", view.events)
                       /\ AllRead(view', "controlstream", controls(ok))
    BY <1>2, <1>3, <1>4, <1>12, VehicleSoFar DEF AllRead
  <2> QED BY <1>2, <1>4, <1>12, <2>1, VehicleSoFar DEF Complete
<1>20. Own(view)'
  BY <1>2, <1>3, <1>12, ViewFacts DEF ViewOK, Own
<1> QED BY <1>2, <1>14, <1>15, <1>16, <1>17, <1>18, <1>20, Goes DEF ViewOK

\* A command that was there is of a control stream that was there.
LEMMA CommandsFound ==
    ASSUME IInv, view # None, view.target \in Vehicles,
           AllRead(view, "controlstream", view.controls),
           NEW p \in view.before, p[1] = "command", Subject[p[2]] = view.target
    PROVE  p \in CommandsFor(view.controls)
<1>1. p \in Resources /\ p \in server /\ Parents(p) \subseteq view.before
  BY ViewFacts DEF ViewOK, Shape, Closed, ServerOK
<1>2. PICK c \in Commands : p = CommandOf(c)
  BY <1>1, KindFacts
<1>3. Parents(p) = {ControlStream(view.target)}
  BY <1>2, ParentFacts DEF CommandOf
<1>4. /\ ControlStream(view.target)[1] = "controlstream"
      /\ Parents(ControlStream(view.target)) = {Root(view.target)}
  BY ViewFacts, ParentFacts, RootFacts DEF ControlStream, Tracks
<1>5. ControlStream(view.target) \in ToSet(view.controls)
  BY <1>1, <1>3, <1>4 DEF AllRead
<1> QED BY <1>1, <1>3, <1>5 DEF CommandsFor, Collection

LEMMA ListCommandsKeeps == IInv /\ ListCommands => IInv'
<1> SUFFICES ASSUME IInv, ListCommands PROVE IInv'
  OBVIOUS
<1> DEFINE t == view.target
           ids == { CommandOf(c) : c \in view.listed }
           commands(ok) == IF ok THEN AppendAll(<<>>, CommandsFor(view.controls)) ELSE <<>>
           missed(ok) == Failed(ok, TRUE)
           todo == AppendAll(<<>>, ids)
           phase == IF view.listed = {} THEN "done" ELSE "command"
<1>1. PICK ok \in BOOLEAN :
          view' = Put(Put(Put(Put(view, "commands", commands(ok)), "missed", missed(ok)),
                          "todo", todo), "phase", phase)
  BY Zenon DEF ListCommands, Put
<1>2. /\ view # None /\ view.phase = "command list" /\ UNCHANGED <<server, endpoint, later>>
      /\ t \notin Messages
  BY ViewFacts DEF ListCommands, AtPhase, PhasesOf
<1>3. /\ commands(ok) \in Seq(Resources)
      /\ ToSet(commands(ok)) \subseteq Collection("command")
      /\ ok => ToSet(commands(ok)) = CommandsFor(view.controls)
  <2>1. /\ CommandsFor(view.controls) \subseteq Collection("command")
        /\ Collection("command") \subseteq server
    BY DEF CommandsFor, Collection
  <2>2. /\ AppendAll(<<>>, CommandsFor(view.controls)) \in Seq(Resources)
        /\ ToSet(AppendAll(<<>>, CommandsFor(view.controls))) = CommandsFor(view.controls)
    <3>1. ServerOK
      BY <1>2, ViewFacts
    <3>2. CommandsFor(view.controls) \subseteq Resources /\ IsFiniteSet(CommandsFor(view.controls))
      BY <2>1, <3>1, FS_Subset DEF ServerOK
    <3> QED BY <3>2, ListAllFacts
  <2>3. CASE ok
    BY <2>1, <2>2, <2>3
  <2>4. CASE ~ok
    BY <2>4 DEF ToSet
  <2> QED BY <2>3, <2>4
<1>4. missed(ok) \in BOOLEAN /\ (~missed(ok) => ~view.missed /\ ok)
  BY DEF Failed
<1>5. todo \in Seq(Resources) /\ ToSet(todo) = ids /\ (phase = "command" => todo # <<>>)
  <2>1. view.listed \subseteq Commands
    BY <1>2, ViewFacts DEF ViewOK, Shape
  <2>2. IsFiniteSet(ids) /\ ids \subseteq Resources
    BY <2>1, CommandIdFacts
  <2>3. phase = "command" => ids # {}
    OBVIOUS
  <2> HIDE DEF ids, phase
  <2>4. todo \in Seq(Resources) /\ ToSet(todo) = ids
    BY <2>2, ListAllFacts
  <2> QED BY <2>3, <2>4, ToSetFacts
<1>6. phase \in {"command", "done"}
  OBVIOUS
<1>7. ~missed(ok) => \A p \in view.before : p[1] = "command" /\ Subject[p[2]] = t
                                               => p \in ToSet(commands(ok))
  BY <1>2, <1>3, <1>4, VehicleSoFar, CommandsFound
<1> HIDE DEF commands, missed, todo, phase
<1>11. /\ DOMAIN view' = Fields
       /\ view'.commands = commands(ok) /\ view'.missed = missed(ok)
       /\ view'.todo = todo /\ view'.phase = phase
       /\ \A g \in Fields \ {"commands", "missed", "todo", "phase"} : view'[g] = view[g]
  <2>1. DOMAIN view = Fields
    BY <1>2, ViewFacts
  <2> QED BY <1>1, <2>1, PutFacts DEF Fields
<1>12. /\ DOMAIN view' = Fields
       /\ view'.commands = commands(ok) /\ view'.missed = missed(ok)
       /\ view'.todo = todo /\ view'.phase = phase
       /\ view'.target = t /\ view'.status = view.status /\ view'.listed = view.listed
       /\ view'.root = view.root /\ view'.streams = view.streams
       /\ view'.histories = view.histories /\ view'.events = view.events
       /\ view'.controls = view.controls /\ view'.before = view.before
  BY <1>11 DEF Fields
<1>14. Shape(view)'
  BY <1>2, <1>3, <1>4, <1>5, <1>6, <1>12, ViewFacts, VehicleSoFar
     DEF ViewOK, Shape, PhasesOf, ListsRead
<1>15. Held(view)'
  BY <1>2, <1>3, <1>12, ViewFacts DEF ViewOK, Held, Collection
<1>16. ToGet(view)' /\ Pending(view)'
  BY <1>2, <1>5, <1>6, <1>12, ViewFacts DEF ToGet, Pending
<1>17. Rooted(view)'
  BY <1>2, <1>6, <1>12, VehicleSoFar DEF Rooted
<1>18. Complete(view)'
  <2>1. ~missed(ok) => /\ AllRead(view', "datastream", view.streams)
                       /\ AllRead(view', "event", view.events)
                       /\ AllRead(view', "controlstream", view.controls)
    BY <1>2, <1>4, <1>12, VehicleSoFar DEF AllRead
  <2> QED BY <1>2, <1>4, <1>6, <1>7, <1>12, <2>1, VehicleSoFar DEF Complete
<1>20. Own(view)'
  BY <1>2, <1>12, ViewFacts DEF ViewOK, Own
<1> QED BY <1>2, <1>14, <1>15, <1>16, <1>17, <1>18, <1>20, Goes DEF ViewOK

LEMMA FetchCommandKeeps == IInv /\ FetchCommand => IInv'
<1> SUFFICES ASSUME IInv, FetchCommand PROVE IInv'
  OBVIOUS
<1> DEFINE t == view.target
           p == Head(view.todo)
           ids == { CommandOf(c) : c \in view.listed }
           commands(ok) == IF ok THEN AppendUnique(view.commands, p) ELSE view.commands
           missed(ok) == Failed(ok, p \in server)
           todo == Tail(view.todo)
           phase == IF Tail(view.todo) = <<>> THEN "done" ELSE view.phase
<1>1. PICK ok \in Answers(p) :
          view' = Put(Put(Put(Put(view, "commands", commands(ok)), "missed", missed(ok)),
                          "todo", todo), "phase", phase)
  BY Zenon DEF FetchCommand, Put
<1>2. /\ view # None /\ view.phase = "command" /\ UNCHANGED <<server, endpoint, later>>
      /\ t \notin Messages
  BY ViewFacts DEF FetchCommand, AtPhase, PhasesOf
<1>3. ok \in BOOLEAN /\ (ok => p \in server)
  BY <1>1, AnswersFacts
<1>4. /\ view.todo \in Seq(Resources) /\ view.todo # <<>> /\ ToSet(view.todo) \subseteq ids
      /\ view.commands \in Seq(Resources)
  BY <1>2, ViewFacts DEF ViewOK, Shape, ToGet
<1>5. p \in Resources /\ p \in ids /\ todo \in Seq(Resources) /\ ToSet(todo) \subseteq ids
  BY <1>4, HeadTailFacts
<1>6. p[1] = "command"
  BY <1>5 DEF CommandOf
<1>7. /\ commands(ok) \in Seq(Resources)
      /\ ToSet(commands(ok)) = ToSet(view.commands) \cup (IF ok THEN {p} ELSE {})
  <2>1. /\ AppendUnique(view.commands, p) \in Seq(Resources)
        /\ ToSet(AppendUnique(view.commands, p)) = ToSet(view.commands) \cup {p}
    BY <1>4, <1>5, AppendUniqueFacts
  <2> QED BY <1>3, <1>4, <2>1
<1>8. missed(ok) \in BOOLEAN /\ (~missed(ok) => ~view.missed)
  BY DEF Failed
<1>9. phase \in {"command", "done"} /\ (phase = "command" => todo # <<>>)
  BY <1>2
<1> HIDE DEF p, commands, missed, todo, phase
<1>11. /\ DOMAIN view' = Fields
       /\ view'.commands = commands(ok) /\ view'.missed = missed(ok)
       /\ view'.todo = todo /\ view'.phase = phase
       /\ \A g \in Fields \ {"commands", "missed", "todo", "phase"} : view'[g] = view[g]
  <2>1. DOMAIN view = Fields
    BY <1>2, ViewFacts
  <2> QED BY <1>1, <2>1, PutFacts DEF Fields
<1>12. /\ DOMAIN view' = Fields
       /\ view'.commands = commands(ok) /\ view'.missed = missed(ok)
       /\ view'.todo = todo /\ view'.phase = phase
       /\ view'.target = t /\ view'.status = view.status /\ view'.listed = view.listed
       /\ view'.root = view.root /\ view'.streams = view.streams
       /\ view'.histories = view.histories /\ view'.events = view.events
       /\ view'.controls = view.controls /\ view'.before = view.before
  BY <1>11 DEF Fields
<1>14. Shape(view)'
  BY <1>2, <1>5, <1>7, <1>8, <1>9, <1>12, ViewFacts, VehicleSoFar
     DEF ViewOK, Shape, PhasesOf, ListsRead
<1>15. Held(view)'
  BY <1>2, <1>3, <1>6, <1>7, <1>12, ViewFacts DEF ViewOK, Held, Collection
<1>16. ToGet(view)' /\ Pending(view)'
  BY <1>2, <1>5, <1>9, <1>12, ViewFacts DEF ToGet, Pending
<1>17. Rooted(view)'
  BY <1>2, <1>9, <1>12, VehicleSoFar DEF Rooted
<1>18. Complete(view)'
  <2>1. ~missed(ok) => /\ AllRead(view', "datastream", view.streams)
                       /\ AllRead(view', "event", view.events)
                       /\ AllRead(view', "controlstream", view.controls)
    BY <1>2, <1>8, <1>12, VehicleSoFar DEF AllRead
  <2>2. ~missed(ok) => \A q \in view.before : q[1] = "command" /\ Subject[q[2]] = t
                                                 => q \in ToSet(commands(ok))
    BY <1>2, <1>7, <1>8, VehicleSoFar
  <2> QED BY <1>2, <1>8, <1>9, <1>12, <2>1, <2>2, VehicleSoFar DEF Complete
<1>20. Own(view)'
  BY <1>2, <1>12, ViewFacts DEF ViewOK, Own
<1> QED BY <1>2, <1>14, <1>15, <1>16, <1>17, <1>18, <1>20, Goes DEF ViewOK

-----------------------------------------------------------------------------
(* Messages: the event, then the system that sent it.                      *)

\* A lens of a message on its way: nothing but events is read, and what is
\* known of them while no GET has failed.
LEMMA MessageSoFar ==
    ASSUME IInv, view # None, view.target \in Messages, view.phase \notin {"root", "done"}
    PROVE  /\ view.status = "live" /\ view.target \notin Tracks
           /\ view.phase \in {"sender", "sender list"} => view.root = None /\ view.events # <<>>
           /\ Root(view.target) \in view.before /\ ~view.missed => view.root = Root(view.target)
           /\ view.phase = "event list" /\ Event(view.target) \in view.before => view.missed
           /\ view.phase \in {"sender", "sender list"} /\ Event(view.target) \in view.before
                 /\ ~view.missed => Event(view.target) \in ToSet(view.events)
<1>1. view.status = "live" /\ view.target \notin Tracks
  BY ViewFacts
<1>2. view.phase \in {"sender", "sender list"} => view.root = None /\ view.events # <<>>
  BY ViewFacts DEF ViewOK, Rooted
<1>3. Complete(view) /\ view.missed \in BOOLEAN
  BY ViewFacts DEF ViewOK, Shape
<1> QED BY <1>1, <1>2, <1>3 DEF Complete

\* A message's event names it, and was sent by its system.
LEMMA OwnEventFacts ==
    ASSUME NEW x \in Messages
    PROVE  /\ Event(x) \in Resources /\ Event(x)[1] = "event" /\ Event(x) \in About(x)
           /\ Parents(Event(x)) = {Root(x)} /\ OwnResource(x) = {Event(x)}
           /\ \A p \in About(x) : p[1] = "event" => p = Event(x)
<1>1. x \in Targets /\ x \notin Tracks
  BY RootFacts DEF Targets
<1>2. Event(x) \in Resources /\ Parents(Event(x)) = {Root(x)} /\ Root(x)[1] # "event"
  BY <1>1, RootFacts
<1>3. About(x) = {Root(x), Event(x)}
  BY <1>1 DEF About
<1> QED BY <1>2, <1>3 DEF Event, OwnResource

LEMMA FetchEventKeeps == IInv /\ FetchEvent => IInv'
<1> SUFFICES ASSUME IInv, FetchEvent PROVE IInv'
  OBVIOUS
<1> DEFINE t == view.target
           p == Event(t)
           events(ok) == IF ok THEN <<p>> ELSE <<>>
           missed(ok) == Failed(ok, p \in server)
           phase(ok) == IF ok THEN AfterEvents(events(ok)) ELSE "event list"
<1>1. PICK ok \in Answers(p) :
          view' = Put(Put(Put(view, "events", events(ok)), "missed", missed(ok)),
                      "phase", phase(ok))
  BY Zenon DEF FetchEvent, Put
<1>2. /\ view # None /\ view.phase = "event" /\ UNCHANGED <<server, endpoint, later>>
      /\ t \in Messages
  BY ViewFacts DEF FetchEvent, AtPhase, PhasesOf, ListsRead
<1>3. ok \in BOOLEAN /\ (ok => p \in server)
  BY <1>1, AnswersFacts
<1>4. /\ events(ok) \in Seq(Resources)
      /\ ok => ToSet(events(ok)) = {p} /\ events(ok) # <<>>
      /\ ~ok => ToSet(events(ok)) = {}
  <2>1. p \in Resources
    BY <1>2, OwnEventFacts
  <2>2. <<p>> \in Seq(Resources) /\ ToSet(<<p>>) = {p} /\ <<p>> # <<>>
    BY <2>1 DEF ToSet
  <2>3. <<>> \in Seq(Resources) /\ ToSet(<<>>) = {}
    BY DEF ToSet
  <2> HIDE DEF p
  <2> QED BY <1>3, <2>2, <2>3
<1>5. missed(ok) \in BOOLEAN /\ (~missed(ok) => ~view.missed /\ (p \in server => ok))
  BY DEF Failed
<1>6. /\ ~ok => phase(ok) = "event list"
      /\ ok => phase(ok) = IF view.root # None THEN "done" ELSE "sender"
  BY <1>4 DEF AfterEvents
<1>7. p[1] = "event" /\ p \in About(t) /\ OwnResource(t) = {p}
  BY <1>2, OwnEventFacts
<1> HIDE DEF p, events, missed, phase
<1>11. /\ DOMAIN view' = Fields
       /\ view'.events = events(ok) /\ view'.missed = missed(ok) /\ view'.phase = phase(ok)
       /\ \A g \in Fields \ {"events", "missed", "phase"} : view'[g] = view[g]
  <2>1. DOMAIN view = Fields
    BY <1>2, ViewFacts
  <2> QED BY <1>1, <2>1, PutFacts DEF Fields
<1>12. /\ DOMAIN view' = Fields
       /\ view'.events = events(ok) /\ view'.missed = missed(ok) /\ view'.phase = phase(ok)
       /\ view'.target = t /\ view'.status = view.status /\ view'.listed = view.listed
       /\ view'.root = view.root /\ view'.streams = view.streams
       /\ view'.histories = view.histories /\ view'.controls = view.controls
       /\ view'.commands = view.commands /\ view'.todo = view.todo
       /\ view'.before = view.before
  BY <1>11 DEF Fields
<1>13. phase(ok) \in {"event list", "sender", "done"}
  BY <1>3, <1>6
<1>14. Shape(view)'
  BY <1>2, <1>4, <1>5, <1>12, <1>13, ViewFacts, MessageSoFar DEF ViewOK, Shape, PhasesOf
<1>15. Held(view)'
  BY <1>2, <1>3, <1>4, <1>7, <1>12, ViewFacts DEF ViewOK, Held, Collection
<1>16. ToGet(view)' /\ Pending(view)'
  BY <1>2, <1>12, <1>13, ViewFacts DEF ToGet, Pending
<1>17. Rooted(view)'
  BY <1>2, <1>3, <1>4, <1>6, <1>12 DEF Rooted
<1>18. Complete(view)'
  <2>1. ~missed(ok) /\ p \in view.before =>
            ok /\ phase(ok) # "event list" /\ p \in ToSet(events(ok))
    BY <1>2, <1>4, <1>5, <1>6, ViewFacts
  <2> QED BY <1>2, <1>5, <1>12, <2>1, MessageSoFar DEF Complete, Tracks, p
<1>20. Own(view)'
  BY <1>2, <1>3, <1>4, <1>7, <1>12, ViewFacts DEF ViewOK, Own
<1> QED BY <1>2, <1>14, <1>15, <1>16, <1>17, <1>18, <1>20, Goes DEF ViewOK

LEMMA SearchEventsKeeps == IInv /\ SearchEvents => IInv'
<1> SUFFICES ASSUME IInv, SearchEvents PROVE IInv'
  OBVIOUS
<1> DEFINE t == view.target
           named == MessageEvents(t, view.root)
           found(ok) == IF ok THEN AppendAll(<<>>, named) ELSE <<>>
           status(ok) == IF found(ok) = <<>> THEN "pending" ELSE view.status
           missed(ok) == Failed(ok, TRUE)
           phase(ok) == AfterEvents(found(ok))
<1>1. PICK ok \in BOOLEAN :
          view' = Put(Put(Put(Put(view, "events", found(ok)), "status", status(ok)),
                          "missed", missed(ok)), "phase", phase(ok))
  BY Zenon DEF SearchEvents, Put
<1>2. /\ view # None /\ view.phase = "event list" /\ UNCHANGED <<server, endpoint, later>>
      /\ t \in Messages
  BY DEF SearchEvents, AtPhase
<1>3. named \subseteq Collection("event")
  BY DEF MessageEvents, EventsOf, OfSystem
<1>4. /\ found(ok) \in Seq(Resources) /\ ToSet(found(ok)) \subseteq named
  <2>1. ServerOK
    BY <1>2, ViewFacts
  <2>2. named \subseteq Resources /\ IsFiniteSet(named)
    BY <1>3, <2>1, FS_Subset DEF ServerOK, Collection
  <2> HIDE DEF named
  <2>3. AppendAll(<<>>, named) \in Seq(Resources) /\ ToSet(AppendAll(<<>>, named)) = named
    BY <2>2, ListAllFacts
  <2>4. CASE ok
    BY <2>3, <2>4
  <2>5. CASE ~ok
    BY <2>5 DEF ToSet
  <2> QED BY <2>4, <2>5
<1>5. missed(ok) \in BOOLEAN /\ (~missed(ok) => ~view.missed) /\ (view.missed => missed(ok))
  BY DEF Failed
<1>6. /\ found(ok) = <<>> => status(ok) = "pending" /\ phase(ok) = "done"
      /\ found(ok) # <<>> =>
            status(ok) = view.status /\ phase(ok) = IF view.root # None THEN "done" ELSE "sender"
  BY DEF AfterEvents
<1>7. OwnResource(t) \subseteq view.before => named \subseteq About(t) \cup NamedBy(t)
  <2> SUFFICES ASSUME OwnResource(t) \subseteq view.before, NEW q \in named
               PROVE  q \in About(t) \cup NamedBy(t)
    OBVIOUS
  <2>1. /\ Event(t) \in server /\ Event(t)[1] = "event" /\ Event(t) \in About(t)
        /\ server \subseteq Resources
    BY <1>2, OwnEventFacts, ViewFacts DEF ServerOK
  <2>2. named = { p \in Collection("event") : p = Event(t) \/ <<t, p>> \in Alike }
    BY <2>1 DEF MessageEvents, Collection
  <2> QED BY <1>2, <2>1, <2>2 DEF Collection, NamedBy
<1> HIDE DEF named, found, status, missed, phase
<1>11. /\ DOMAIN view' = Fields
       /\ view'.events = found(ok) /\ view'.status = status(ok)
       /\ view'.missed = missed(ok) /\ view'.phase = phase(ok)
       /\ \A g \in Fields \ {"events", "status", "missed", "phase"} : view'[g] = view[g]
  <2>1. DOMAIN view = Fields
    BY <1>2, ViewFacts
  <2> QED BY <1>1, <2>1, PutFacts DEF Fields
<1>12. /\ DOMAIN view' = Fields
       /\ view'.events = found(ok) /\ view'.status = status(ok)
       /\ view'.missed = missed(ok) /\ view'.phase = phase(ok)
       /\ view'.target = t /\ view'.listed = view.listed
       /\ view'.root = view.root /\ view'.streams = view.streams
       /\ view'.histories = view.histories /\ view'.controls = view.controls
       /\ view'.commands = view.commands /\ view'.todo = view.todo
       /\ view'.before = view.before
  BY <1>11 DEF Fields
<1>13. phase(ok) \in {"sender", "done"} /\ status(ok) \in {"pending", "live"}
       /\ (phase(ok) # "done" => status(ok) = "live")
  BY <1>2, <1>6, MessageSoFar
<1>14. Shape(view)'
  BY <1>2, <1>4, <1>5, <1>12, <1>13, ViewFacts, MessageSoFar DEF ViewOK, Shape, PhasesOf
<1>15. Held(view)'
  BY <1>2, <1>3, <1>4, <1>12, ViewFacts DEF ViewOK, Held, Collection
<1>16. ToGet(view)'
  BY <1>12, <1>13 DEF ToGet
<1>17. Rooted(view)'
  BY <1>2, <1>6, <1>12 DEF Rooted
<1>18. Complete(view)' /\ Pending(view)'
  BY <1>2, <1>5, <1>12, <1>13, MessageSoFar DEF Complete, Pending, Tracks
<1>20. Own(view)'
  BY <1>2, <1>4, <1>7, <1>12, ViewFacts DEF ViewOK, Own
<1> QED BY <1>2, <1>14, <1>15, <1>16, <1>17, <1>18, <1>20, Goes DEF ViewOK

\* The system that sent the first event is on the server, as the event is; it
\* is the message's own, or of an event that names it.
LEMMA SenderFacts ==
    ASSUME IInv, view # None, view.target \in Messages,
           view.phase \in {"sender", "sender list"}
    PROVE  LET p == SystemOf(Head(view.events))
           IN  /\ p \in server /\ p \in Resources
               /\ OwnResource(view.target) \subseteq view.before =>
                      \/ p = Root(view.target)
                      \/ \E e \in NamedBy(view.target) : p \in Parents(e)
<1> DEFINE e == Head(view.events)
<1>1. view.events \in Seq(Resources) /\ view.events # <<>>
  BY ViewFacts, MessageSoFar DEF ViewOK, Shape
<1>2. e \in ToSet(view.events) /\ e \in Resources
  BY <1>1, HeadTailFacts
<1>3. e \in server /\ e[1] = "event"
  BY <1>2, ViewFacts DEF ViewOK, Held, Collection
<1>4. Parents(e) = {SystemOf(e)} /\ SystemOf(e) \in Resources
  BY <1>2, <1>3, EventFacts
<1>5. SystemOf(e) \in server
  BY <1>3, <1>4, ViewFacts DEF ServerOK, Closed
<1>6. OwnResource(view.target) \subseteq view.before =>
          e \in About(view.target) \/ e \in NamedBy(view.target)
  BY <1>2, ViewFacts DEF ViewOK, Own
<1>7. e \in About(view.target) => SystemOf(e) = Root(view.target)
  BY <1>3, <1>4, OwnEventFacts
<1> QED BY <1>4, <1>5, <1>6, <1>7

LEMMA FetchSenderKeeps == IInv /\ FetchSender => IInv'
<1> SUFFICES ASSUME IInv, FetchSender PROVE IInv'
  OBVIOUS
<1> DEFINE t == view.target
           p == SystemOf(Head(view.events))
           root(ok) == IF ok THEN p ELSE None
           missed(ok) == Failed(ok, p \in server)
           phase(ok) == IF ok THEN "done" ELSE "sender list"
<1>1. PICK ok \in Answers(p) :
          view' = Put(Put(Put(view, "root", root(ok)), "missed", missed(ok)), "phase", phase(ok))
  BY Zenon DEF FetchSender, Put
<1>2. /\ view # None /\ view.phase = "sender" /\ UNCHANGED <<server, endpoint, later>>
      /\ t \in Messages
  BY ViewFacts DEF FetchSender, AtPhase, PhasesOf, ListsRead
<1>3. ok \in BOOLEAN
  BY <1>1, AnswersFacts
<1>4. /\ p \in Resources /\ p # None
      /\ OwnResource(t) \subseteq view.before =>
             p = Root(t) \/ \E e \in NamedBy(t) : p \in Parents(e)
  BY <1>2, SenderFacts, ViewAssumption
<1>5. missed(ok) \in BOOLEAN /\ (~missed(ok) => ~view.missed)
  BY DEF Failed
<1>6. /\ ok => root(ok) = p /\ phase(ok) = "done"
      /\ ~ok => root(ok) = None /\ phase(ok) = "sender list"
  OBVIOUS
<1> HIDE DEF p, root, missed, phase
<1>11. /\ DOMAIN view' = Fields
       /\ view'.root = root(ok) /\ view'.missed = missed(ok) /\ view'.phase = phase(ok)
       /\ \A g \in Fields \ {"root", "missed", "phase"} : view'[g] = view[g]
  <2>1. DOMAIN view = Fields
    BY <1>2, ViewFacts
  <2> QED BY <1>1, <2>1, PutFacts DEF Fields
<1>12. /\ DOMAIN view' = Fields
       /\ view'.root = root(ok) /\ view'.missed = missed(ok) /\ view'.phase = phase(ok)
       /\ view'.target = t /\ view'.status = view.status /\ view'.listed = view.listed
       /\ view'.streams = view.streams /\ view'.histories = view.histories
       /\ view'.events = view.events /\ view'.controls = view.controls
       /\ view'.commands = view.commands /\ view'.todo = view.todo
       /\ view'.before = view.before
  BY <1>11 DEF Fields
<1>14. Shape(view)'
  BY <1>2, <1>3, <1>4, <1>5, <1>6, <1>12, ViewFacts, MessageSoFar DEF ViewOK, Shape, PhasesOf
<1>15. Held(view)'
  BY <1>2, <1>12, ViewFacts DEF ViewOK, Held, Collection
<1>16. ToGet(view)' /\ Pending(view)'
  BY <1>2, <1>3, <1>6, <1>12, ViewFacts DEF ToGet, Pending
<1>17. Rooted(view)'
  BY <1>2, <1>3, <1>4, <1>6, <1>12, MessageSoFar DEF Rooted
<1>18. Complete(view)'
  <2>1. ~missed(ok) => Root(t) \notin view.before
    BY <1>2, <1>5, MessageSoFar, ViewFacts, RootFacts
  <2> QED BY <1>2, <1>3, <1>5, <1>6, <1>12, <2>1, MessageSoFar DEF Complete, Tracks
<1>20. Own(view)'
  BY <1>2, <1>3, <1>4, <1>6, <1>12, ViewFacts DEF ViewOK, Own
<1> QED BY <1>2, <1>14, <1>15, <1>16, <1>17, <1>18, <1>20, Goes DEF ViewOK

LEMMA SearchSenderKeeps == IInv /\ SearchSender => IInv'
<1> SUFFICES ASSUME IInv, SearchSender PROVE IInv'
  OBVIOUS
<1> DEFINE t == view.target
           p == SystemOf(Head(view.events))
           root(r) == IF r # None THEN r ELSE IF p \in server THEN p ELSE None
           phase == "done"
<1>2. /\ view # None /\ view.phase = "sender list" /\ UNCHANGED <<server, endpoint, later>>
      /\ t \in Messages
  BY ViewFacts DEF SearchSender, AtPhase, PhasesOf, ListsRead
<1>3. SUFFICES ASSUME \E found \in Matches(t) :
                   view' = Put(Put(view, "root", root(found)), "phase", phase)
               PROVE  IInv'
  BY <1>2, GivesUp, Zenon DEF SearchSender, Put
<1>4. PICK found \in Matches(t) : view' = Put(Put(view, "root", root(found)), "phase", phase)
  BY <1>3
<1>5. found \in Resources \cup {None} /\ (Root(t) \in server => found = Root(t))
  BY <1>2, MatchFacts, ViewFacts
<1>6. p \in server /\ p \in Resources /\ p # None
  BY <1>2, SenderFacts, ViewAssumption
<1>7. /\ root(found) \in Resources /\ root(found) # None
      /\ found # None => root(found) = found
  BY <1>5, <1>6
<1>8. OwnResource(t) \subseteq view.before => root(found) = Root(t)
  <2>1. OwnResource(t) \subseteq view.before => Root(t) \in view.before
    BY <1>2, OwnEventFacts, ViewFacts DEF ViewOK, Shape, Closed
  <2> QED BY <1>2, <1>5, <1>7, <2>1, ViewFacts, RootFacts
<1>9. phase = "done"
  OBVIOUS
<1> HIDE DEF p, root, phase
<1>11. /\ DOMAIN view' = Fields
       /\ view'.root = root(found) /\ view'.phase = phase
       /\ \A g \in Fields \ {"root", "phase"} : view'[g] = view[g]
  <2>1. DOMAIN view = Fields
    BY <1>2, ViewFacts
  <2> QED BY <1>4, <2>1, PutFacts DEF Fields
<1>12. /\ DOMAIN view' = Fields
       /\ view'.root = root(found) /\ view'.phase = phase
       /\ view'.target = t /\ view'.status = view.status /\ view'.listed = view.listed
       /\ view'.streams = view.streams /\ view'.histories = view.histories
       /\ view'.events = view.events /\ view'.controls = view.controls
       /\ view'.commands = view.commands /\ view'.todo = view.todo
       /\ view'.missed = view.missed /\ view'.before = view.before
  BY <1>11 DEF Fields
<1>14. Shape(view)'
  BY <1>2, <1>7, <1>9, <1>12, ViewFacts, MessageSoFar DEF ViewOK, Shape, PhasesOf
<1>15. Held(view)'
  BY <1>2, <1>12, ViewFacts DEF ViewOK, Held, Collection
<1>16. ToGet(view)' /\ Rooted(view)' /\ Pending(view)'
  BY <1>2, <1>7, <1>9, <1>12, ViewFacts DEF ToGet, Rooted, Pending
<1>18. Complete(view)'
  <2>1. ~view.missed => Root(t) \notin view.before
    BY <1>2, MessageSoFar, ViewFacts, RootFacts
  <2> QED BY <1>2, <1>9, <1>12, <2>1, MessageSoFar DEF Complete, Tracks
<1>20. Own(view)'
  BY <1>2, <1>8, <1>12, ViewFacts DEF ViewOK, Own
<1> QED BY <1>2, <1>14, <1>15, <1>16, <1>18, <1>20, Goes DEF ViewOK

-----------------------------------------------------------------------------
(* Requests come and go, and the server gets more.                         *)

LEMMA BeginKeeps == ASSUME IInv, NEW x \in Targets, Begin(x) PROVE IInv'
<1> DEFINE phase == IF endpoint = "valid" THEN "root" ELSE "done"
           status == CASE endpoint = "none"    -> "disabled"
                       [] endpoint = "invalid" -> "unavailable"
                       [] OTHER                -> "live"
           new(l) == [ target |-> x, phase |-> phase, status |-> status, listed |-> l,
                       root |-> None, streams |-> <<>>, histories |-> {}, events |-> <<>>,
                       controls |-> <<>>, commands |-> <<>>, todo |-> <<>>,
                       missed |-> FALSE, before |-> server ]
<1>1. PICK listed \in SUBSET Commands : view' = new(listed)
  BY DEF Begin
<1>2. later' = 0 /\ UNCHANGED <<server, endpoint>>
  BY DEF Begin
<1>3. \/ phase = "root" /\ status = "live"
      \/ phase = "done" /\ status \in {"disabled", "unavailable"}
  BY DEF IInv
<1> HIDE DEF phase, status
<1>4. /\ DOMAIN view' = Fields
      /\ view'.target = x /\ view'.phase = phase /\ view'.status = status
      /\ view'.listed = listed /\ view'.root = None /\ view'.streams = <<>>
      /\ view'.histories = {} /\ view'.events = <<>> /\ view'.controls = <<>>
      /\ view'.commands = <<>> /\ view'.todo = <<>> /\ view'.missed = FALSE
      /\ view'.before = server
  BY <1>1 DEF Fields
<1>5. <<>> \in Seq(Resources) /\ ToSet(<<>>) = {}
  BY DEF ToSet
<1>6. ServerOK /\ ServerOK'
  BY <1>2 DEF IInv, ServerOK
<1>7. Shape(view)'
  BY <1>2, <1>3, <1>4, <1>5, <1>6 DEF Shape, PhasesOf, ServerOK
<1>8. Held(view)'
  BY <1>4, <1>5 DEF Held
<1>9. ToGet(view)' /\ Rooted(view)' /\ Pending(view)'
  BY <1>3, <1>4 DEF ToGet, Rooted, Pending
<1>10. Complete(view)'
  BY <1>3, <1>4 DEF Complete, ListsRead
<1>11. Own(view)'
  BY <1>4, <1>5 DEF Own
<1>12. later' \in 0..MaxLater
  BY <1>2, ViewAssumption
<1> QED BY <1>2, <1>6, <1>7, <1>8, <1>9, <1>10, <1>11, <1>12 DEF IInv, ViewOK

LEMMA ReplyKeeps == IInv /\ Reply => IInv'
BY ViewAssumption DEF IInv, Reply, ServerOK

LEMMA AppearKeeps == ASSUME IInv, NEW p \in Resources, Appear(p) PROVE IInv'
<1>1. /\ server' = server \cup {p} /\ Parents(p) \subseteq server
      /\ UNCHANGED <<endpoint, view>>
  BY DEF Appear, Materialize
<1>2. ServerOK'
  BY <1>1, FS_AddElement DEF IInv, ServerOK, Closed
<1>3. later' \in 0..MaxLater
  BY ViewAssumption DEF IInv, Appear
<1>4. ASSUME view' # None PROVE ViewOK(view)'
  <2>1. ViewOK(view) /\ view' = view
    BY <1>1, <1>4 DEF IInv
  <2>2. Shape(view)'
    BY <1>1, <2>1 DEF ViewOK, Shape
  <2>3. Held(view)'
    BY <1>1, <2>1 DEF ViewOK, Held, Collection
  <2>4. ToGet(view)' /\ Rooted(view)' /\ Pending(view)'
    BY <2>1 DEF ViewOK, ToGet, Rooted, Pending
  <2>5. Complete(view)'
    BY <2>1 DEF ViewOK, Complete, AllRead
  <2>6. Own(view)'
    BY <2>1 DEF ViewOK, Own
  <2> QED BY <2>2, <2>3, <2>4, <2>5, <2>6 DEF ViewOK
<1> QED BY <1>1, <1>2, <1>3, <1>4 DEF IInv

LEMMA InitIInv == Init => IInv
BY FS_EmptySet, ViewAssumption DEF Init, ServerInit, IInv, ServerOK, Closed

LEMMA NextIInv == IInv /\ [Next]_vars => IInv'
<1> SUFFICES ASSUME IInv, [Next]_vars PROVE IInv'
  OBVIOUS
<1>1. CASE \E x \in Targets : Begin(x)
  BY <1>1, BeginKeeps
<1>2. CASE Handle
  BY <1>2, FetchRootKeeps, ListRootsKeeps, FetchStreamKeeps, ListStreamsKeeps,
     FetchHistoryKeeps, ListEventsKeeps, ListControlsKeeps, ListCommandsKeeps,
     FetchCommandKeeps, FetchEventKeeps, SearchEventsKeeps, FetchSenderKeeps,
     SearchSenderKeeps, ReplyKeeps DEF Handle
<1>3. CASE \E p \in Resources : Appear(p)
  BY <1>3, AppearKeeps
<1>4. CASE UNCHANGED vars
  <2>1. server' = server /\ endpoint' = endpoint /\ later' = later /\ view' = view
    BY <1>4 DEF vars
  <2>2. ServerOK'
    BY <2>1 DEF IInv, ServerOK
  <2>3. ASSUME view' # None PROVE ViewOK(view)'
    <3>1. ViewOK(view)
      BY <2>1, <2>3 DEF IInv
    <3>2. Shape(view)' /\ Held(view)'
      BY <2>1, <3>1 DEF ViewOK, Shape, Held, Collection
    <3>3. ToGet(view)' /\ Rooted(view)' /\ Pending(view)'
      BY <2>1, <3>1 DEF ViewOK, ToGet, Rooted, Pending
    <3>4. Complete(view)'
      BY <2>1, <3>1 DEF ViewOK, Complete, AllRead
    <3>5. Own(view)'
      BY <2>1, <3>1 DEF ViewOK, Own
    <3> QED BY <3>2, <3>3, <3>4, <3>5 DEF ViewOK
  <2> QED BY <2>1, <2>2, <2>3 DEF IInv
<1> QED BY <1>1, <1>2, <1>3, <1>4 DEF Next

-----------------------------------------------------------------------------
(* What the invariant says of the lens that is shown.                      *)

\* A command is shown with the control stream it is of.
LEMMA ShownCommandFacts ==
    ASSUME IInv, view # None, NEW p \in ShownCommands
    PROVE  /\ p \in Resources /\ p[1] = "command" /\ p \in ToSet(view.commands)
           /\ Subject[p[2]] \in Vehicles
           /\ ControlStream(Subject[p[2]]) \in ToSet(view.controls)
<1>1. p \in ToSet(view.commands) /\ Parents(p) \cap ToSet(view.controls) # {}
  BY DEF ShownCommands
<1>2. p \in Resources /\ p[1] = "command"
  BY <1>1, ViewFacts DEF ViewOK, Held, Collection, ServerOK
<1>3. PICK c \in Commands : p = CommandOf(c)
  BY <1>2, KindFacts
<1>4. p[2] = c /\ Parents(p) = {ControlStream(Subject[c])}
  BY <1>3, ParentFacts DEF CommandOf
<1>5. Subject[c] \in Vehicles
  BY ResourcesAssumption
<1> QED BY <1>1, <1>2, <1>4, <1>5

LEMMA LensJoined == IInv => EdgesJoinNodes
<1> SUFFICES ASSUME IInv, AtPhase("done"), NEW e \in Edges
             PROVE  e[1] \in Nodes /\ e[2] \in Nodes
  BY DEF EdgesJoinNodes
<1>1. view # None /\ view.phase = "done" /\ view.status = "live"
  BY DEF AtPhase, Edges
<1>2. view.root # None /\ view.root \in Nodes
  BY <1>1, ViewFacts DEF ViewOK, Rooted, Nodes
<1>3. CASE e \in {view.root} \X (ToSet(view.streams) \cup ToSet(view.controls))
  BY <1>1, <1>2, <1>3 DEF Nodes
<1>4. ASSUME NEW p \in ToSet(view.events), e = <<view.root, p>>
      PROVE  e[1] \in Nodes /\ e[2] \in Nodes
  BY <1>1, <1>2, <1>4 DEF Nodes
<1>5. ASSUME NEW p \in view.histories, e = <<p, History(p)>>
      PROVE  e[1] \in Nodes /\ e[2] \in Nodes
  <2>1. p \in ToSet(view.streams)
    BY <1>1, <1>5, ViewFacts DEF ViewOK, Held
  <2> QED BY <1>1, <1>5, <2>1 DEF Nodes
<1>6. ASSUME NEW p \in ShownCommands, e = <<ControlStream(Subject[p[2]]), p>>
      PROVE  e[1] \in Nodes /\ e[2] \in Nodes
  <2>1. ControlStream(Subject[p[2]]) \in ToSet(view.controls)
    BY <1>1, <1>6, ShownCommandFacts
  <2> QED BY <1>1, <1>6, <2>1 DEF Nodes
<1> QED BY <1>1, <1>2, <1>3, <1>4, <1>5, <1>6 DEF Edges

LEMMA LensComplete == IInv => CompleteUnlessMissed
<1> SUFFICES ASSUME IInv, AtPhase("done"), view.status = "live", ~view.missed,
                    NEW p \in About(view.target), p \in view.before
             PROVE  p \in Nodes
  BY DEF CompleteUnlessMissed
<1> DEFINE t == view.target
<1>1. view # None /\ view.phase = "done"
  BY DEF AtPhase
<1>2. t \in Targets /\ Complete(view) /\ Closed(view.before) /\ p \in Resources
  BY <1>1, ViewFacts DEF ViewOK, Shape, ServerOK
<1>3. CASE p = Root(t)
  <2>1. view.root = p /\ p # None
    BY <1>1, <1>2, <1>3, RootFacts DEF Complete
  <2> QED BY <2>1 DEF Nodes
<1>4. CASE t \in Messages /\ p = Event(t)
  <2>1. p \in ToSet(view.events)
    BY <1>1, <1>2, <1>4 DEF Complete
  <2> QED BY <2>1 DEF Nodes
<1>5. t \in Tracks => AllRead(view, "datastream", view.streams)
  BY <1>1, <1>2 DEF Complete, ListsRead
<1>6. t \in Vehicles => /\ AllRead(view, "event", view.events)
                        /\ AllRead(view, "controlstream", view.controls)
  BY <1>1, <1>2 DEF Complete, ListsRead
<1>7. CASE t \in Tracks /\ p[1] \in {"datastream", "controlstream", "event"}
           /\ Root(t) \in Parents(p) /\ (t \in Operators => p[1] = "datastream")
  <2>1. p \in ToSet(view.streams) \cup ToSet(view.events) \cup ToSet(view.controls)
    BY <1>5, <1>6, <1>7 DEF AllRead, Tracks
  <2> QED BY <2>1 DEF Nodes
<1>8. CASE t \in Tracks /\ p[1] = "command" /\ t = Subject[p[2]]
  <2>1. PICK c \in Commands : p = CommandOf(c)
    BY <1>2, <1>8, KindFacts
  <2>2. t \in Vehicles /\ Parents(p) = {ControlStream(t)}
    BY <1>8, <2>1, ParentFacts, ResourcesAssumption DEF CommandOf
  <2>3. p \in ToSet(view.commands)
    BY <1>1, <1>2, <1>8, <2>2 DEF Complete
  <2>4. ControlStream(t) \in view.before /\ ControlStream(t)[1] = "controlstream"
    BY <1>2, <2>2 DEF Closed, ControlStream
  <2>5. Root(t) \in Parents(ControlStream(t))
    BY <1>2, <1>8, ParentFacts, RootFacts
  <2>6. ControlStream(t) \in ToSet(view.controls)
    BY <1>6, <2>2, <2>4, <2>5 DEF AllRead
  <2> QED BY <2>2, <2>3, <2>6 DEF ShownCommands, Nodes
<1> QED BY <1>3, <1>4, <1>7, <1>8 DEF About

LEMMA PendingAbsent == IInv => PendingMeansAbsent
BY ViewFacts DEF PendingMeansAbsent, AtPhase, ViewOK, Pending

\* Nothing but a datastream or a command is about a vehicle it does not hang
\* from; a control stream about x is that of x.
LEMMA OwnControl ==
    ASSUME NEW x \in Targets, NEW v \in Vehicles, ControlStream(v) \in About(x)
    PROVE  x \in Tracks /\ x = v
<1> DEFINE q == ControlStream(v)
<1>1. q[1] = "controlstream" /\ Parents(q) = {System(v)}
  BY ParentFacts DEF ControlStream
<1> HIDE DEF q
<1>2. q # Root(x) /\ q # Event(x)
  <2>1. Root(x)[1] # "controlstream"
    BY RootFacts
  <2>2. Event(x)[1] # "controlstream"
    BY DEF Event
  <2> QED BY <1>1, <2>1, <2>2
<1>3. x \in Tracks /\ Root(x) \in Parents(q)
  BY <1>1, <1>2 DEF About, q
<1>4. System(x) = System(v)
  BY <1>1, <1>3, RootFacts
<1> QED BY <1>3, <1>4 DEF System

LEMMA LensOwn == IInv => OwnOnceMaterialized
<1> SUFFICES ASSUME IInv, AtPhase("done"), OwnResource(view.target) \subseteq view.before,
                    NEW p \in Nodes
             PROVE  \/ p \in About(view.target)
                    \/ p[1] = "history" /\ p[2] \in About(view.target)
                    \/ \E e \in NamedBy(view.target) : p = e \/ p \in Parents(e)
  BY DEF OwnOnceMaterialized
<1> DEFINE t == view.target
<1>1. view # None /\ t \in Targets
  BY ViewFacts DEF AtPhase
<1>2. /\ view.root \in {None, Root(t)} \/ \E e \in NamedBy(t) : view.root \in Parents(e)
      /\ \A q \in ToSet(view.streams) \cup ToSet(view.events) \cup ToSet(view.controls) :
             q \in About(t) \cup NamedBy(t)
  BY <1>1, ViewFacts DEF ViewOK, Own
<1>3. CASE p = view.root /\ p # None
  BY <1>2, <1>3 DEF About
<1>4. CASE p \in ToSet(view.streams) \cup ToSet(view.events) \cup ToSet(view.controls)
  BY <1>2, <1>4
<1>5. ASSUME NEW q \in view.histories, p = History(q)
      PROVE  p[1] = "history" /\ p[2] \in About(t)
  <2>1. q \in ToSet(view.streams) /\ q[1] = "datastream"
    BY <1>1, <1>5, ViewFacts DEF ViewOK, Held, Collection
  <2>2. q \notin NamedBy(t)
    BY <2>1 DEF NamedBy
  <2> QED BY <1>2, <1>5, <2>1, <2>2 DEF History
<1>6. CASE p \in ShownCommands
  <2>1. p \in Resources /\ p[1] = "command" /\ Subject[p[2]] \in Vehicles
    BY <1>1, <1>6, ShownCommandFacts
  <2> DEFINE q == ControlStream(Subject[p[2]])
  <2>2. q \in ToSet(view.controls) /\ q[1] = "controlstream"
    BY <1>1, <1>6, ShownCommandFacts DEF ControlStream
  <2>3. q \in About(t)
    BY <1>2, <2>2 DEF NamedBy
  <2>4. t \in Tracks /\ t = Subject[p[2]]
    BY <1>1, <2>1, <2>3, OwnControl
  <2> QED BY <2>1, <2>4 DEF About
<1> QED BY <1>3, <1>4, <1>5, <1>6 DEF Nodes

-----------------------------------------------------------------------------
(* The limits on what is shown.                                            *)

LEMMA FillFacts ==
    ASSUME NEW facts \in Nat, NEW n \in Nat, NEW limit \in Nat,
           NEW most \in Nat, facts <= most, limit <= most
    PROVE  Fill(facts, n, limit) \in Nat /\ Fill(facts, n, limit) <= most
BY MinFacts DEF Fill

LEMMA SemLinkLimit ==
    ASSUME NEW x \in Targets, NEW n \in 0..MaxFacts + 1,
           NEW listed \in SUBSET AlertsAndCommands(x)
    PROVE  SemLinkFacts(x, n, listed) <= MaxFacts
<1> DEFINE own == Min({n, GraphFacts})
           shown == IF own = 0 THEN 3 ELSE own
<1>1. /\ n \in Nat /\ GraphFacts \in Nat /\ MaxFacts \in Nat
      /\ GraphFacts <= MaxFacts /\ 6 <= MaxFacts
  BY ViewAssumption
<1>2. own \in Nat /\ own <= GraphFacts /\ Min({n, MaxFacts}) <= MaxFacts
  BY <1>1, MinFacts
<1>3. IsFiniteSet(listed)
  BY StoreAssumption, FS_Subset DEF AlertsAndCommands
<1>4. Cardinality(listed) \in Nat
  BY <1>3, FS_CardinalityType
<1>5. shown \in Nat /\ shown <= MaxFacts
  <2> HIDE DEF own
  <2> QED BY <1>1, <1>2
<1>6. VehicleFacts(n, listed) <= MaxFacts
  <2>1. VehicleFacts(n, listed) = Fill(shown, Cardinality(listed), MaxFacts)
    BY DEF VehicleFacts
  <2> HIDE DEF shown
  <2> QED BY <1>1, <1>4, <1>5, <2>1, FillFacts
<1>7. COPFacts(n) <= MaxFacts
  BY <1>1, <1>2 DEF COPFacts
<1> QED BY <1>6, <1>7 DEF SemLinkFacts

LEMMA CsapiLimit == ASSUME IInv, view # None PROVE CsapiFacts <= MaxFacts
<1> DEFINE streams   == Fill(IF view.target \in Vehicles THEN 1 ELSE 2,
                             Len(view.streams), LensFacts)
           histories == Fill(streams, Cardinality(view.histories), MaxFacts)
           events    == Fill(histories, Len(view.events), LensFacts)
           chats     == { n \in 1..Len(view.events) : 3 * n - 2 < LensFacts }
           shown     == Fill(events, Cardinality(ShownCommands), LensFacts)
           most      == (LensFacts + 1) \div 3
<1>1. LensFacts \in Nat /\ MaxFacts \in Nat /\ LensFacts + 2 <= MaxFacts /\ 6 <= MaxFacts
  BY ViewAssumption
<1>2. /\ view.streams \in Seq(Resources) /\ view.events \in Seq(Resources)
      /\ view.commands \in Seq(Resources) /\ view.histories \subseteq ToSet(view.streams)
  BY ViewFacts DEF ViewOK, Shape, Held
<1>3. Len(view.streams) \in Nat /\ Len(view.events) \in Nat
  BY <1>2
<1>4. Cardinality(view.histories) \in Nat /\ Cardinality(ShownCommands) \in Nat
  <2>1. IsFiniteSet(ToSet(view.streams)) /\ IsFiniteSet(ToSet(view.commands))
    BY <1>2, ToSetFacts
  <2>2. ShownCommands \subseteq ToSet(view.commands)
    BY DEF ShownCommands
  <2>3. IsFiniteSet(view.histories) /\ IsFiniteSet(ShownCommands)
    BY <1>2, <2>1, <2>2, FS_Subset
  <2> QED BY <2>3, FS_CardinalityType
<1>5. streams \in Nat /\ streams <= MaxFacts
  <2> DEFINE first == IF view.target \in Vehicles THEN 1 ELSE 2
  <2>1. first \in Nat /\ first <= MaxFacts /\ LensFacts <= MaxFacts
    BY <1>1
  <2> HIDE DEF first
  <2>2. Fill(first, Len(view.streams), LensFacts) \in Nat
        /\ Fill(first, Len(view.streams), LensFacts) <= MaxFacts
    BY <1>1, <1>3, <2>1, FillFacts
  <2> QED BY <2>2 DEF first
<1> HIDE DEF chats, most
<1> HIDE DEF streams
<1>6. histories \in Nat /\ histories <= MaxFacts
  <2> DEFINE n == Cardinality(view.histories)
  <2>1. n \in Nat /\ MaxFacts <= MaxFacts
    BY <1>1, <1>4
  <2> HIDE DEF n
  <2>2. Fill(streams, n, MaxFacts) \in Nat /\ Fill(streams, n, MaxFacts) <= MaxFacts
    BY <1>1, <1>5, <2>1, FillFacts
  <2> QED BY <2>2 DEF histories, n
<1> HIDE DEF histories
<1>7. events \in Nat /\ events <= MaxFacts
  <2>1. LensFacts <= MaxFacts
    BY <1>1
  <2> QED BY <1>1, <1>3, <1>6, <2>1, FillFacts DEF events
<1> HIDE DEF events
<1>8. shown <= MaxFacts
  <2>1. LensFacts <= MaxFacts
    BY <1>1
  <2> QED BY <1>1, <1>4, <1>7, <2>1, FillFacts DEF shown
<1> HIDE DEF shown
<1>9. most \in Nat /\ 1 + 3 * most <= MaxFacts
  BY <1>1 DEF most
<1>10. chats \subseteq 1..most
  BY <1>1, <1>3 DEF chats, most
<1>11. Cardinality(chats) \in Nat /\ Cardinality(chats) <= most
  <2>1. IsFiniteSet(1..most) /\ Cardinality(1..most) = most
    BY <1>9, FS_Interval
  <2>2. IsFiniteSet(chats) /\ Cardinality(chats) <= Cardinality(1..most)
    BY <1>10, <2>1, FS_Subset
  <2> QED BY <2>1, <2>2, FS_CardinalityType
<1>12. 1 + 3 * Cardinality(chats) <= MaxFacts
  BY <1>1, <1>9, <1>11
<1>13. CsapiFacts = CASE view.target \in Vehicles  -> shown
                      [] view.target \in Operators -> streams
                      [] view.target \in Markers   -> 3
                      [] OTHER                     -> 1 + 3 * Cardinality(chats)
  BY DEF CsapiFacts, shown, events, histories, streams, chats
<1>14. /\ view.target \in Vehicles => view.target \notin Operators /\ view.target \notin Markers
       /\ view.target \in Operators => view.target \notin Markers
  BY KindsAssumption
<1>15. CASE view.target \in Vehicles
  BY <1>8, <1>13, <1>14, <1>15
<1>16. CASE view.target \in Operators
  BY <1>5, <1>13, <1>14, <1>16
<1>17. CASE view.target \in Markers
  BY <1>1, <1>13, <1>14, <1>17
<1>18. CASE view.target \notin Vehicles \cup Operators \cup Markers
  BY <1>12, <1>13, <1>18
<1> QED BY <1>15, <1>16, <1>17, <1>18

LEMMA LensTyped == IInv => TypeOK
<1> SUFFICES ASSUME IInv PROVE TypeOK
  OBVIOUS
<1>1. server \subseteq Resources /\ endpoint \in {"none", "invalid", "valid"}
      /\ later \in 0..MaxLater
  BY DEF IInv, ServerOK
<1>2. ASSUME view # None
      PROVE  /\ view.target \in Targets
             /\ view.status \in {"disabled", "unavailable", "pending", "live"}
             /\ view.root \in Resources \cup {None}
             /\ \A items \in {view.streams, view.events, view.controls, view.commands} :
                    items \in Seq(Resources)
  BY <1>2, ViewFacts DEF ViewOK, Shape
<1>3. ASSUME view # None
      PROVE  \A n \in 0..MaxFacts + 1, listed \in SUBSET AlertsAndCommands(view.target) :
                 SemLinkFacts(view.target, n, listed) <= MaxFacts
  BY <1>2, <1>3, SemLinkLimit
<1> QED BY <1>1, <1>2, <1>3, CsapiLimit DEF TypeOK

-----------------------------------------------------------------------------
(* The theorems: for every store, server, set of look-alikes and bound.    *)

\* Whatever the handler reads and whatever fails, at every step: what it has
\* read is of the collection it asked, nothing hangs from a root that was not
\* found, and as long as no GET failed it is complete.
THEOREM ViewInvariant == Spec => []IInv
BY InitIInv, NextIInv, PTL DEF Spec

\* The handler reads nothing but resources, answers with a known status, and
\* neither lens ever grows past twelve facts: the limit is looked at before
\* some facts and not before others, and the constants leave just enough room.
THEOREM TypeCorrect == Spec => []TypeOK
BY ViewInvariant, LensTyped, PTL

\* No edge of the graph that BuildGraphView answers hangs in the air, however
\* the GETs fail and whatever appears between them.
THEOREM WellFormed == Spec => []EdgesJoinNodes
BY ViewInvariant, LensJoined, PTL

\* A live lens none of whose GETs failed has all that was on the server about
\* the entity when the request began, though the server went on changing.
THEOREM Completeness == Spec => []CompleteUnlessMissed
BY ViewInvariant, LensComplete, PTL

\* "Not materialized yet" is never said of a vehicle, operator or marker that
\* was there, nor of a message unless a GET failed.
THEOREM HonestPending == Spec => []PendingMeansAbsent
BY ViewInvariant, PendingAbsent, PTL

\* Once its own resources are there, the lens of an entity shows no other's,
\* but for an event that names it and the sender of that event: none of the
\* fallbacks by name of fetchCSAPILens is taken, whichever GETs fail.
THEOREM OwnLens == Spec => []OwnOnceMaterialized
BY ViewInvariant, LensOwn, PTL
=============================================================================
