------------------------- MODULE CsapiBridgeProofs -------------------------
(***************************************************************************)
(* What CsapiBridge guarantees for every set of vehicles, operators,       *)
(* alerts, commands, markers and messages, whatever fails: its types, that *)
(* the bridge's memory is true, and that a resource reaches the server     *)
(* after the resource it refers to.                                        *)
(***************************************************************************)
EXTENDS CsapiBridge, TLAPS

\* A late POST had its parents on the server when it was sent: with this and
\* MemoryIsTrue, ParentsFirst is inductive.
LateHasParents == \A p \in late : Parents(p) \subseteq server

IInv == TypeOK /\ MemoryIsTrue /\ ParentsFirst /\ LateHasParents

\* An item of a snapshot needs resources of the model, and with every
\* resource also its parents, at an earlier stage: bridge.go calls ensure
\* before each POST of a child.
LEMMA ItemFacts ==
    ASSUME TypeOK, view # None, NEW x \in Items, NEW p \in ItemNeeds(x)
    PROVE  /\ p \in Resources
           /\ \A q \in Parents(p) :
                 q \in ItemNeeds(x) /\ Stage(q) < Stage(p) /\ q[1] # "observation"
<1> USE ConstantsAssumption, ResourcesAssumption, KindsAssumption
<1>v. /\ view.seen \in [Tracks -> 0..MaxTime] /\ view.known \subseteq Facts
      /\ view.commands \in Seq(Commands)
  BY DEF TypeOK
<1>1. CASE x \in Tracks
  <2>1. view.seen[x] \in 1..MaxTime
    <3>1. x \notin Facts /\ x \notin Commands
      BY <1>1 DEF Tracks, Facts
    <3>2. x \notin ToSet(view.commands)
      BY <1>v, <3>1 DEF ToSet
    <3> QED BY <1>v, <1>1, <3>1, <3>2 DEF Items
  <2>2. ItemNeeds(x) = {System(x)} \cup { Datastream(s) : s \in StreamsOf(x) }
             \cup { Observation(s, view.seen[x]) : s \in StreamsOf(x) }
    BY <1>1 DEF ItemNeeds, TrackNeeds
  <2>3. CASE p = System(x)
    BY <2>3, <1>1 DEF System, Resources, Parents
  <2>4. CASE \E s \in StreamsOf(x) : p = Datastream(s)
    <3>1. PICK s \in StreamsOf(x) : p = Datastream(s)
      BY <2>4
    <3>2. s \in Streams /\ s[1] = x
      BY <1>1 DEF Streams, StreamsOf
    <3>3. Parents(p) = {System(x)} /\ Stage(p) = 2
      BY <3>1, <3>2 DEF Parents, Stage, Datastream
    <3>4. Stage(System(x)) = 1 /\ System(x)[1] # "observation"
      BY DEF Stage, System
    <3> QED BY <2>2, <3>1, <3>2, <3>3, <3>4 DEF Resources
  <2>5. CASE \E s \in StreamsOf(x) : p = Observation(s, view.seen[x])
    <3>1. PICK s \in StreamsOf(x) : p = Observation(s, view.seen[x])
      BY <2>5
    <3>2. s \in Streams
      BY <1>1 DEF Streams
    <3>3. Parents(p) = {Datastream(s)} /\ Stage(p) = 3
      BY <3>1 DEF Parents, Stage, Observation
    <3>4. Stage(Datastream(s)) = 2 /\ Datastream(s)[1] # "observation"
      BY DEF Stage, Datastream
    <3> QED BY <2>1, <2>2, <3>1, <3>2, <3>3, <3>4 DEF Resources
  <2> QED BY <2>2, <2>3, <2>4, <2>5
<1>2. CASE x \in Alerts
  <2>1. ItemNeeds(x) = {System(Subject[x]), Event(x)}
    BY <1>2, KindsAssumption DEF ItemNeeds, Tracks, AlertNeeds
  <2>2. Subject[x] \in Tracks
    BY <1>2 DEF Tracks
  <2>3. Parents(System(Subject[x])) = {} /\ Parents(Event(x)) = {System(Subject[x])}
    BY <1>2 DEF Parents, System, Event
  <2>4. Stage(System(Subject[x])) = 1 /\ Stage(Event(x)) = 3
    BY DEF Stage, System, Event
  <2> QED BY <1>2, <2>1, <2>2, <2>3, <2>4 DEF Resources, System
<1>3. CASE x \in Commands
  <2>1. ItemNeeds(x) = {System(Subject[x]), ControlStream(Subject[x]), CommandOf(x)}
    BY <1>3, KindsAssumption DEF ItemNeeds, Tracks, CommandNeeds
  <2>2. Subject[x] \in Vehicles /\ Subject[x] \in Tracks
    BY <1>3 DEF Tracks
  <2>3. /\ Parents(System(Subject[x])) = {}
        /\ Parents(ControlStream(Subject[x])) = {System(Subject[x])}
        /\ Parents(CommandOf(x)) = {ControlStream(Subject[x])}
    BY DEF Parents, System, ControlStream, CommandOf
  <2>4. /\ Stage(System(Subject[x])) = 1 /\ Stage(ControlStream(Subject[x])) = 2
        /\ Stage(CommandOf(x)) = 3
    BY DEF Stage, System, ControlStream, CommandOf
  <2>5. System(Subject[x])[1] # "observation" /\ ControlStream(Subject[x])[1] # "observation"
    BY DEF System, ControlStream
  <2> QED BY <1>3, <2>1, <2>2, <2>3, <2>4, <2>5 DEF Resources
<1>4. CASE x \in Markers
  <2>1. ItemNeeds(x) = {Feature(x)}
    BY <1>4 DEF ItemNeeds, Tracks
  <2>2. Parents(Feature(x)) = {}
    BY DEF Parents, Feature
  <2> QED BY <1>4, <2>1, <2>2 DEF Resources
<1>5. CASE x \in Messages
  <2>1. ItemNeeds(x) = {System(Sender[x]), Event(x)}
    BY <1>5, KindsAssumption DEF ItemNeeds, Tracks, MessageNeeds
  <2>2. Sender[x] \in Tracks \cup Messages /\ x \notin Alerts
    BY <1>5 DEF Tracks
  <2>3. Parents(System(Sender[x])) = {} /\ Parents(Event(x)) = {System(Sender[x])}
    BY <2>2 DEF Parents, System, Event
  <2>4. Stage(System(Sender[x])) = 1 /\ Stage(Event(x)) = 3
    BY DEF Stage, System, Event
  <2> QED BY <1>5, <2>1, <2>2, <2>3, <2>4 DEF Resources, System
<1>6. x \in Tracks \/ x \in Facts \/ x \in Commands
  BY <1>v DEF Items, ToSet
<1> QED BY <1>1, <1>2, <1>3, <1>4, <1>5, <1>6 DEF Facts

\* What a Sync posts next is a resource whose parents are on the server.
LEMMA NextPostFacts ==
    ASSUME TypeOK, MemoryIsTrue, NEW p \in NextPosts
    PROVE  /\ view # None
           /\ p \in Resources
           /\ Parents(p) \subseteq server
<1>1. view # None
  BY DEF NextPosts
<1>2. PICK x \in Items : p \in ItemNext(x)
  BY <1>1 DEF NextPosts
<1>3. p \in ItemNeeds(x) /\ \A q \in ItemNeeds(x) : Due(q) => Stage(p) <= Stage(q)
  BY <1>2 DEF ItemNext
<1>4. p \in Resources /\ \A q \in Parents(p) :
          q \in ItemNeeds(x) /\ Stage(q) < Stage(p) /\ q[1] # "observation"
  BY <1>1, <1>3, ItemFacts
<1>5. ASSUME NEW q \in Parents(p) PROVE q \in server
  <2>1. Stage(p) \in Int /\ Stage(q) \in Int
    BY DEF Stage
  <2>2. ~ Due(q)
    BY <1>3, <1>4, <2>1
  <2>3. q \in posted
    BY <2>2, <1>4 DEF Due
  <2> QED BY <2>3 DEF MemoryIsTrue
<1> QED BY <1>1, <1>4, <1>5

-----------------------------------------------------------------------------
\* The invariant holds in the initial state.
LEMMA InitIInv == Init => IInv
<1> SUFFICES ASSUME Init PROVE IInv
  OBVIOUS
<1> USE ConstantsAssumption, ResourcesAssumption DEF Init
<1>1. TypeOK
  <2>1. commands \in Seq(Commands) /\ Len(commands) <= MaxCommands
    OBVIOUS
  <2> QED BY <2>1 DEF TypeOK
<1>2. MemoryIsTrue /\ ParentsFirst /\ LateHasParents
  BY DEF MemoryIsTrue, ParentsFirst, LateHasParents
<1> QED BY <1>1, <1>2 DEF IInv

\* A new command keeps the store's list within its bound.
LEMMA AddCommandType ==
    ASSUME TypeOK, NEW c \in Commands, AddCommand(c)
    PROVE  commands' \in Seq(Commands) /\ Len(commands') <= MaxCommands
<1> USE ConstantsAssumption, ResourcesAssumption
<1>1. /\ commands \in Seq(Commands) /\ Len(commands) \in Nat
      /\ Len(commands) <= MaxCommands
  BY DEF TypeOK
<1> DEFINE longer == <<c>> \o commands
<1>2. longer \in Seq(Commands) /\ Len(longer) = Len(commands) + 1
  BY <1>1
<1>3. CASE Len(commands) < MaxCommands
  BY <1>1, <1>2, <1>3 DEF AddCommand
<1>4. CASE ~ (Len(commands) < MaxCommands)
  <2>1. Len(longer) = MaxCommands + 1
    BY <1>1, <1>2, <1>4
  <2> DEFINE cut == SubSeq(longer, 1, MaxCommands)
  <2>2. commands' = cut
    BY <1>4 DEF AddCommand
  <2>3. cut \in Seq(Commands) /\ Len(cut) = MaxCommands
    BY <1>2, <2>1
  <2> HIDE DEF cut
  <2> QED BY <2>2, <2>3
<1> QED BY <1>3, <1>4

\* Every step keeps the types.
LEMMA NextTypeOK ==
    ASSUME TypeOK, MemoryIsTrue, [Next]_vars
    PROVE  TypeOK'
<1> USE ConstantsAssumption, ResourcesAssumption
<1>1. ASSUME NEW x \in Tracks, Report(x) PROVE TypeOK'
  BY <1>1 DEF TypeOK, Report, bridge
<1>2. ASSUME NEW f \in Facts, Appear(f) PROVE TypeOK'
  BY <1>2 DEF TypeOK, Appear, bridge
<1>3. ASSUME NEW c \in Commands, AddCommand(c) PROVE TypeOK'
  <2>1. commands' \in Seq(Commands) /\ Len(commands') <= MaxCommands
    BY <1>3, AddCommandType
  <2> QED BY <1>3, <2>1 DEF TypeOK, AddCommand, bridge
<1>4. CASE StartSync
  BY <1>4 DEF TypeOK, StartSync, store, bridge
<1>5. ASSUME NEW p \in NextPosts, Post(p) PROVE TypeOK'
  <2>1. p \in Resources
    BY NextPostFacts
  <2>2. CASE p[1] = "observation"
    <3>1. PICK s \in Streams, t \in 1..MaxTime : p = Observation(s, t)
      BY <2>1, <2>2 DEF Resources, System, Datastream, Observation,
            ControlStream, CommandOf, Event, Feature
    <3>2. p[2] \in Streams /\ p[3] \in 0..MaxTime
      BY <3>1 DEF Observation
    <3>3. lastObservations' \in [Streams -> 0..MaxTime] /\ posted' = posted
      BY <1>5, <2>2, <3>2 DEF Post, TypeOK
    <3> QED BY <1>5, <2>1, <3>3 DEF TypeOK, Post, store
  <2>3. CASE p[1] # "observation"
    BY <1>5, <2>1, <2>3 DEF TypeOK, Post, store
  <2> QED BY <2>2, <2>3
<1>6. CASE EndSync
  BY <1>6 DEF TypeOK, EndSync, store, bridge
<1>7. ASSUME NEW p \in NextPosts, PostFails(p) PROVE TypeOK'
  <2>1. p \in Resources
    BY NextPostFacts
  <2> QED BY <1>7, <2>1 DEF TypeOK, PostFails, store, bridge
<1>8. ASSUME NEW p \in late, Arrive(p) PROVE TypeOK'
  BY <1>8 DEF TypeOK, Arrive, store, bridge
<1>9. CASE Crash
  <2>1. commands' \in Seq(Commands) /\ Len(commands') <= MaxCommands
    BY <1>9 DEF Crash
  <2> QED BY <1>9, <2>1 DEF TypeOK, Crash
<1>10. CASE UNCHANGED vars
  BY <1>10 DEF TypeOK, vars, store, bridge
<1> QED BY <1>1, <1>2, <1>3, <1>4, <1>5, <1>6, <1>7, <1>8, <1>9, <1>10
        DEF Next, StoreStep, SyncStep

\* Every step keeps what the invariant says of the server.
LEMMA NextIInv == IInv /\ [Next]_vars => IInv'
<1> SUFFICES ASSUME IInv, [Next]_vars PROVE IInv'
  OBVIOUS
<1>t. TypeOK /\ MemoryIsTrue /\ ParentsFirst /\ LateHasParents
  BY DEF IInv
<1>u. TypeOK'
  BY <1>t, NextTypeOK
<1> DEFINE Server == MemoryIsTrue /\ ParentsFirst /\ LateHasParents
<1>1. ASSUME UNCHANGED <<posted, lastObservations, server, late>> PROVE Server'
  BY <1>t, <1>1 DEF MemoryIsTrue, ParentsFirst, LateHasParents
<1>2. ASSUME NEW p \in NextPosts, Post(p) PROVE Server'
  <2>1. Parents(p) \subseteq server
    BY <1>t, NextPostFacts
  <2>2. server' = server \cup {p} /\ late' = late
    BY <1>2 DEF Post
  <2>3. ParentsFirst' /\ LateHasParents'
    BY <1>t, <2>1, <2>2 DEF ParentsFirst, LateHasParents
  <2>4. MemoryIsTrue'
    <3>1. CASE p[1] = "observation"
      <4>1. p \in Resources
        BY <1>t, NextPostFacts
      <4>2. PICK s \in Streams, t \in 1..MaxTime : p = Observation(s, t)
        BY <3>1, <4>1 DEF Resources, System, Datastream, Observation,
              ControlStream, CommandOf, Event, Feature
      <4>3. /\ lastObservations' = [lastObservations EXCEPT ![s] = t]
            /\ posted' = posted
        BY <1>2, <3>1, <4>2 DEF Post, Observation
      <4>4. lastObservations \in [Streams -> 0..MaxTime]
        BY <1>t DEF TypeOK
      <4>5. ASSUME NEW r \in Streams, lastObservations'[r] # 0
            PROVE  Observation(r, lastObservations'[r]) \in server'
        <5>1. CASE r = s
          BY <2>2, <4>2, <4>3, <4>4, <5>1
        <5>2. CASE r # s
          BY <1>t, <2>2, <4>3, <4>4, <4>5, <5>2 DEF MemoryIsTrue
        <5> QED BY <5>1, <5>2
      <4> QED BY <1>t, <2>2, <4>3, <4>5 DEF MemoryIsTrue
    <3>2. CASE p[1] # "observation"
      BY <1>t, <1>2, <2>2, <3>2 DEF Post, MemoryIsTrue
    <3> QED BY <3>1, <3>2
  <2> QED BY <2>3, <2>4
<1>3. ASSUME NEW p \in NextPosts, PostFails(p) PROVE Server'
  <2>1. Parents(p) \subseteq server
    BY <1>t, NextPostFacts
  <2> QED BY <1>t, <1>3, <2>1
          DEF PostFails, bridge, MemoryIsTrue, ParentsFirst, LateHasParents
<1>4. ASSUME NEW p \in late, Arrive(p) PROVE Server'
  BY <1>t, <1>4 DEF Arrive, bridge, MemoryIsTrue, ParentsFirst, LateHasParents
<1>5. ASSUME Crash PROVE Server'
  BY <1>t, <1>5 DEF Crash, MemoryIsTrue, ParentsFirst, LateHasParents
<1>6. ASSUME StoreStep \/ StartSync \/ EndSync \/ UNCHANGED vars PROVE Server'
  BY <1>1, <1>6 DEF StoreStep, Report, Appear, AddCommand, StartSync, EndSync,
        bridge, store, vars, IInv
<1> QED BY <1>t, <1>u, <1>2, <1>3, <1>4, <1>5, <1>6 DEF Next, SyncStep, IInv

\* The types of bridge.go's memory, the store and the server hold always.
THEOREM TypeCorrect == Spec => []TypeOK
<1>1. Spec => []IInv
  BY InitIInv, NextIInv, PTL DEF Spec
<1> QED BY <1>1, PTL DEF IInv

\* No resource reaches the server before the one it refers to, whatever is
\* lost, delayed or repeated, and across restarts of the process (the ensure
\* calls of bridge.go).
THEOREM ParentsAlwaysFirst == Spec => []ParentsFirst
<1>1. Spec => []IInv
  BY InitIInv, NextIInv, PTL DEF Spec
<1> QED BY <1>1, PTL DEF IInv

\* The bridge never takes for published what the server does not have.
THEOREM MemoryAlwaysTrue == Spec => []MemoryIsTrue
<1>1. Spec => []IInv
  BY InitIInv, NextIInv, PTL DEF Spec
<1> QED BY <1>1, PTL DEF IInv

\* The bridge implements the server its readers rely on: resources only
\* appear, one at a time and parents first.
THEOREM ImplementsServer == Spec => PublishesInOrder
<1>1. Spec => []IInv
  BY InitIInv, NextIInv, PTL DEF Spec
<1>2. Init => Readable!ServerInit
  BY DEF Init, Readable!ServerInit
<1>3. IInv /\ [Next]_vars => [Readable!ServerNext]_server
  <2> SUFFICES ASSUME IInv, [Next]_vars PROVE [Readable!ServerNext]_server
    OBVIOUS
  <2>1. TypeOK /\ MemoryIsTrue /\ LateHasParents
    BY DEF IInv
  <2>2. ASSUME NEW p \in Resources, Parents(p) \subseteq server,
               server' = server \cup {p}
        PROVE  Readable!ServerNext
    BY <2>2 DEF Readable!ServerNext, Readable!Materialize, Readable!Resources, Readable!Parents,
       Readable!System, Readable!Datastream, Readable!Observation, Readable!ControlStream,
       Readable!CommandOf, Readable!Event, Readable!Feature, Readable!Streams,
       Readable!StreamsOf, Readable!Tracks, Resources, Parents, System, Datastream,
       Observation, ControlStream, CommandOf, Event, Feature, Streams, StreamsOf, Tracks
  <2>3. ASSUME NEW p \in NextPosts, Post(p) PROVE Readable!ServerNext
    BY <2>1, <2>2, <2>3, NextPostFacts DEF Post
  <2>4. ASSUME NEW p \in late, Arrive(p) PROVE Readable!ServerNext
    BY <2>1, <2>2, <2>4 DEF Arrive, LateHasParents, TypeOK
  <2> QED BY <2>3, <2>4 DEF Next, StoreStep, SyncStep, Report, Appear, AddCommand,
             StartSync, EndSync, PostFails, Crash, vars
<1> QED BY <1>1, <1>2, <1>3, PTL DEF Spec, PublishesInOrder, Readable!ServerSpec
=============================================================================
