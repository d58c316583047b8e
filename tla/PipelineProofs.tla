---------------------------- MODULE PipelineProofs ----------------------------
(***************************************************************************)
(* What Pipeline guarantees for every fleet, buffer, batch and clock and   *)
(* however its goroutines interleave: its types, that every frame is       *)
(* accounted for, that the drops the store shows are not left behind, and  *)
(* that the store never shows a vehicle lost without its alert.            *)
(***************************************************************************)
EXTENDS Pipeline, FiniteSetTheorems, SequenceTheorems, TLAPS

AnyFrame == [vehicle : Vehicles, kind : FrameKinds, level : Nat, at : 0..MaxTime]
AnyProjection == [entity : Entities, says : {"online", "lost", "active"}]
StateMap == [Vehicles -> {None} \union VehicleState]
AlertMap == [Alerts -> {None} \union Nat]
Shot == [states : StateMap, alerts : AlertMap]
Job == [pc : {"idle", "run", "shot", "applied", "stats"}, batch : Seq(AnyFrame), todo : Seq(AnyProjection),
        wrote : BOOLEAN, shot : Shot \union {NoShot}]

Typed ==
    /\ job \in [Goroutines -> Job]
    /\ buffer \in Seq(AnyFrame)
    /\ late \subseteq AnyProjection

\* Nothing is later than the clock.
InTime ==
    /\ \A i \in 1..Len(buffer) : buffer[i].at <= now
    /\ \A g \in Goroutines : \A i \in 1..Len(job[g].batch) : job[g].batch[i].at <= now

\* A vehicle that is lost has its alert.
LostTold(vehicles, raised) ==
    \A v \in Vehicles : vehicles[v] # None /\ vehicles[v].link = "lost" =>
        raised[<<"lost-link", v>>] # None

\* A snapshot is what the projector was when it was taken; frames are in hand
\* only while a goroutine runs, and only the projector's.
Shots ==
    \A g \in Goroutines :
        /\ job[g].pc # "run" => job[g].batch = <<>>
        /\ job[g].pc = "shot" =>
              /\ job[g].shot \in Shot /\ LostTold(job[g].shot.states, job[g].shot.alerts)
              /\ \A a \in Alerts : job[g].shot.alerts[a] \in {None} \union 0..now

\* Graph writes are left only in a run, and the one that awaits its record is
\* the next of them.
Writing ==
    \A g \in Goroutines : /\ job[g].todo # <<>> => job[g].pc = "run"
                          /\ job[g].wrote => job[g].todo # <<>>

IInv == /\ TypeOK /\ Typed /\ InTime /\ Shots /\ Writing
        /\ LostTold(states, alerts) /\ LostHasAlert /\ FramesAccounted

-----------------------------------------------------------------------------
LEMMA InitIInv == Init => IInv
<1> SUFFICES ASSUME Init PROVE IInv
  OBVIOUS
<1>1. TypeOK
  BY PipelineBounds, ConfigAssumption DEF Init, TypeOK, NoAlerts, NoStats
<1>2. /\ IdleJob \in Job /\ IdleJob.batch = <<>> /\ IdleJob.pc = "idle"
      /\ IdleJob.todo = <<>> /\ IdleJob.wrote = FALSE
  BY DEF IdleJob, Job
<1>3. \A g \in Goroutines : job[g] = IdleJob
  BY DEF Init
<1>4. Typed
  BY <1>2 DEF Init, Typed
<1>5. InTime
  BY <1>2, <1>3 DEF Init, InTime
<1>6. Shots /\ Writing
  BY <1>2, <1>3 DEF Shots, Writing
<1>7. LostTold(states, alerts) /\ LostHasAlert
  BY DEF Init, LostTold, LostHasAlert
<1>8. FramesAccounted
  BY <1>2, <1>3 DEF Init, FramesAccounted, Goroutines
<1> QED BY <1>1, <1>4, <1>5, <1>6, <1>7, <1>8 DEF IInv

\* One goroutine's job changes, and may have taken frames from the buffer.
LEMMA OneJob ==
    ASSUME IInv, NEW g \in Goroutines, NEW new \in Job, job' = [job EXCEPT ![g] = new]
    PROVE  /\ job' \in [Goroutines -> Job] /\ job'[g] = new
           /\ \A h \in Goroutines \ {g} : job'[h] = job[h]
BY DEF IInv, Typed

\* A job that goes on with its own batch and shot, in the same phase.
LEMMA SameShot ==
    ASSUME IInv, NEW g \in Goroutines, NEW new \in Job, job' = [job EXCEPT ![g] = new],
           new.pc = job[g].pc, new.batch = job[g].batch, new.shot = job[g].shot,
           job[g].todo # <<>>, ~(new.wrote /\ new.todo = <<>>),
           UNCHANGED <<now, buffer>>
    PROVE  /\ job' \in [Goroutines -> Job] /\ InTime' /\ Shots' /\ Writing'
           /\ job'["projector"].batch = job["projector"].batch
<1>1. /\ job' \in [Goroutines -> Job] /\ job'[g] = new
      /\ \A h \in Goroutines \ {g} : job'[h] = job[h]
  BY OneJob
<1>2. \A h \in Goroutines : /\ job'[h].pc = job[h].pc /\ job'[h].batch = job[h].batch
                            /\ job'[h].shot = job[h].shot
  BY <1>1
<1>3. InTime'
  BY <1>2 DEF IInv, InTime
<1>4. Shots'
  BY <1>2 DEF IInv, Shots
<1>5. Writing'
  BY <1>1 DEF IInv, Writing
<1> QED BY <1>1, <1>2, <1>3, <1>4, <1>5 DEF Goroutines

LEMMA NoneIsNoAlert ==
    ASSUME IInv PROVE None \notin [raised : 0..now, revision : BOOLEAN] /\ None \notin 0..now
<1>1. 0..now \subseteq Nat
  OBVIOUS
<1>2. [raised : 0..now, revision : BOOLEAN] \subseteq [raised : Nat, revision : BOOLEAN]
  BY <1>1
<1> QED BY <1>1, <1>2, NoneAssumption

LEMMA TickKeeps == ASSUME IInv, Tick PROVE IInv'
<1>1. /\ now \in Nat /\ now' = now + 1 /\ now' \in 0..MaxTime
      /\ UNCHANGED <<source, buffer, dropped, stats, counts, states, alerts, job, graph, failures, late,
                     store, storeAlerts>>
  BY PipelineBounds DEF Tick, IInv, TypeOK, sourceVars, bufferVars, graphVars, storeVars
<1>2. 0..now \subseteq 0..now'
  BY <1>1
<1>3. alerts' \in [Alerts -> {None} \union 0..now']
  BY <1>1, <1>2 DEF IInv, TypeOK
<1>4. storeAlerts' \in [Alerts -> {None} \union [raised : 0..now', revision : BOOLEAN]]
  BY <1>1, <1>2 DEF IInv, TypeOK
<1>5. TypeOK'
  BY <1>1, <1>3, <1>4, Zenon DEF IInv, TypeOK
<1>6. Typed'
  BY <1>1 DEF IInv, Typed
<1>7. InTime'
  <2>1. \A f \in AnyFrame : f.at \in Nat
    BY PipelineBounds DEF AnyFrame
  <2>2. \A i \in 1..Len(buffer) : buffer[i] \in AnyFrame
    BY DEF IInv, Typed
  <2>3. \A g \in Goroutines : job[g].batch \in Seq(AnyFrame)
    BY DEF IInv, Typed, Job
  <2>4. \A g \in Goroutines : \A i \in 1..Len(job[g].batch) : job[g].batch[i] \in AnyFrame
    BY <2>3
  <2>5. \A i \in 1..Len(buffer) : buffer[i].at <= now + 1
    BY <1>1, <2>1, <2>2 DEF IInv, InTime
  <2>6. \A g \in Goroutines : \A i \in 1..Len(job[g].batch) : job[g].batch[i].at <= now + 1
    BY <1>1, <2>1, <2>4 DEF IInv, InTime
  <2> QED BY <1>1, <2>5, <2>6 DEF InTime
<1>8. Shots' /\ Writing'
  BY <1>1, <1>2 DEF IInv, Shots, Writing
<1>9. LostTold(states, alerts)' /\ LostHasAlert' /\ FramesAccounted'
  BY <1>1 DEF IInv, LostTold, LostHasAlert, FramesAccounted
<1> QED BY <1>5, <1>6, <1>7, <1>8, <1>9 DEF IInv

\* A full buffer drops its oldest frame for another.
LEMMA KeptFacts ==
    ASSUME IInv
    PROVE  /\ Kept \in Seq(AnyFrame) /\ Len(Kept) \in Nat /\ Len(buffer) \in Nat
           /\ Len(Kept) <= Len(buffer) /\ Len(Kept) < Capacity
           /\ \A i \in 1..Len(Kept) : \E j \in 1..Len(buffer) : Kept[i] = buffer[j]
<1>1. buffer \in Seq(AnyFrame) /\ Len(buffer) <= Capacity /\ Capacity \in Nat \ {0}
  BY ConfigAssumption DEF IInv, TypeOK, Typed
<1>2. CASE Len(buffer) = Capacity
  <2>1. /\ Tail(buffer) \in Seq(AnyFrame) /\ Len(Tail(buffer)) = Len(buffer) - 1
        /\ \A i \in 1..(Len(buffer) - 1) : Tail(buffer)[i] = buffer[i + 1]
    BY <1>1, <1>2
  <2> QED BY <1>1, <1>2, <2>1 DEF Kept
<1>3. CASE Len(buffer) # Capacity
  BY <1>1, <1>3 DEF Kept
<1> QED BY <1>2, <1>3

LEMMA BufferWriteKeeps == ASSUME IInv, NEW f \in Frames, BufferWrite(f) PROVE IInv'
<1>1. /\ source = "idle" /\ source' = "written" /\ buffer' = Append(Kept, f)
      /\ dropped' = dropped + Len(buffer) - Len(Kept)
      /\ UNCHANGED <<now, stats, counts, states, alerts, job, graph, failures, late, store, storeAlerts>>
  BY DEF BufferWrite, graphVars, storeVars
<1>2. f \in AnyFrame /\ f.at = now
  <2>1. now \in 0..MaxTime /\ FullBattery \in Nat /\ Levels \subseteq Nat
    BY ConfigAssumption DEF IInv, TypeOK
  <2> QED BY <2>1 DEF Frames, AnyFrame, FrameKinds
<1>3. /\ Kept \in Seq(AnyFrame) /\ Len(Kept) \in Nat /\ Len(buffer) \in Nat
      /\ Len(Kept) <= Len(buffer) /\ Len(Kept) < Capacity /\ Capacity \in Nat
      /\ \A i \in 1..Len(Kept) : \E j \in 1..Len(buffer) : Kept[i] = buffer[j]
  BY KeptFacts, ConfigAssumption
<1>4. /\ buffer' \in Seq(AnyFrame) /\ Len(buffer') = Len(Kept) + 1
      /\ \A i \in 1..Len(Kept) : buffer'[i] = Kept[i]
      /\ buffer'[Len(Kept) + 1] = f
  <2> HIDE DEF Kept
  <2> QED BY <1>1, <1>2, <1>3
<1>5. counts \in [raw : Nat, decoded : Nat, errors : Nat, drops : Nat] /\ dropped \in Nat /\ dropped' \in Nat
  <2>1. counts \in [raw : Nat, decoded : Nat, errors : Nat, drops : Nat] /\ dropped \in Nat
    BY DEF IInv, TypeOK
  <2> HIDE DEF Kept
  <2> QED BY <1>1, <1>3, <2>1
<1>6. TypeOK'
  BY <1>1, <1>3, <1>4, <1>5 DEF IInv, TypeOK
<1>7. Typed'
  BY <1>1, <1>4 DEF IInv, Typed
<1>8. InTime'
  <2>1. ASSUME NEW i \in 1..Len(buffer') PROVE buffer'[i].at <= now
    <3>1. CASE i = Len(Kept) + 1
      <4>1. now <= now
        BY PipelineBounds DEF IInv, TypeOK
      <4> QED BY <1>2, <1>4, <3>1, <4>1
    <3>2. CASE i # Len(Kept) + 1
      <4>1. i \in 1..Len(Kept)
        BY <1>3, <1>4, <3>2
      <4>2. PICK j \in 1..Len(buffer) : buffer'[i] = buffer[j]
        BY <1>3, <1>4, <4>1
      <4> QED BY <4>2 DEF IInv, InTime
    <3> QED BY <3>1, <3>2
  <2> QED BY <1>1, <2>1 DEF IInv, InTime
<1>9. Shots' /\ Writing' /\ LostTold(states, alerts)' /\ LostHasAlert'
  BY <1>1 DEF IInv, Shots, Writing, LostTold, LostHasAlert
<1>10. FramesAccounted'
  <2>1. Len(job["projector"].batch) \in Nat
    BY DEF IInv, Typed, Goroutines, Job
  <2>2. counts.raw = dropped + Len(buffer) + Len(job["projector"].batch)
                        + counts.decoded + counts.errors
    <3>1. counts.raw + 0 = dropped + Len(buffer) + Len(job["projector"].batch)
                        + counts.decoded + counts.errors
      BY <1>1, Zenon DEF IInv, FramesAccounted
    <3>2. counts.raw \in Nat
      BY <1>5
    <3>3. counts.raw + 0 = counts.raw
      BY <3>2
    <3> QED BY <3>1, <3>3, Zenon
  <2>3. counts.raw + 1 = dropped' + Len(buffer') + Len(job["projector"].batch)
                        + counts.decoded + counts.errors
    <3> DEFINE raw == counts.raw  drops == dropped  held == Len(buffer)
               kept == Len(Kept)  batch == Len(job["projector"].batch)
               decoded == counts.decoded  errors == counts.errors
    <3>1. /\ raw \in Nat /\ drops \in Nat /\ held \in Nat /\ kept \in Nat /\ batch \in Nat
          /\ decoded \in Nat /\ errors \in Nat
          /\ raw = drops + held + batch + decoded + errors
          /\ dropped' = drops + held - kept /\ Len(buffer') = kept + 1
      BY <1>1, <1>3, <1>4, <1>5, <2>1, <2>2 
    <3> HIDE DEF raw, drops, held, kept, batch, decoded, errors
    <3>2. raw + 1 = (drops + held - kept) + (kept + 1) + batch + decoded + errors
      BY <3>1
    <3>3. raw + 1 = dropped' + Len(buffer') + batch + decoded + errors
      BY <3>1, <3>2
    <3> QED BY <3>3 DEF raw, batch, decoded, errors
  <2>4. source' = "written" /\ job' = job /\ counts' = counts
    BY <1>1
  <2> QED BY <2>3, <2>4 DEF FramesAccounted
<1> QED BY <1>6, <1>7, <1>8, <1>9, <1>10 DEF IInv

LEMMA RecordRawKeeps == ASSUME IInv, RecordRawFrame PROVE IInv'
<1>1. /\ source = "written" /\ source' = "counted" /\ counts' = [counts EXCEPT !.raw = @ + 1]
      /\ UNCHANGED <<now, buffer, dropped, stats, states, alerts, job, graph, failures, late, store, storeAlerts>>
  BY DEF RecordRawFrame, bufferVars, graphVars, storeVars
<1>2. /\ counts \in [raw : Nat, decoded : Nat, errors : Nat, drops : Nat]
      /\ counts' \in [raw : Nat, decoded : Nat, errors : Nat, drops : Nat]
      /\ counts'.raw = counts.raw + 1 /\ counts'.decoded = counts.decoded
      /\ counts'.drops = counts.drops /\ counts'.errors = counts.errors
  <2>1. counts \in [raw : Nat, decoded : Nat, errors : Nat, drops : Nat]
    BY DEF IInv, TypeOK
  <2> QED BY <1>1, <2>1
<1>3. TypeOK' /\ Typed'
  BY <1>1, <1>2 DEF IInv, TypeOK, Typed
<1>4. InTime' /\ Shots' /\ Writing' /\ LostTold(states, alerts)' /\ LostHasAlert'
  BY <1>1 DEF IInv, InTime, Shots, Writing, LostTold, LostHasAlert
<1>5. FramesAccounted'
  <2>1. Len(job["projector"].batch) \in Nat /\ Len(buffer) \in Nat
    BY DEF IInv, Typed, Goroutines, Job
  <2> QED BY <1>1, <1>2, <2>1 DEF IInv, FramesAccounted
<1> QED BY <1>3, <1>4, <1>5 DEF IInv

-----------------------------------------------------------------------------
\* The next projection of a goroutine, and what it is left with after it.
LEMMA HeadFacts ==
    ASSUME IInv, NEW g \in Goroutines, job[g].todo # <<>>
    PROVE  Head(job[g].todo) \in AnyProjection /\ Tail(job[g].todo) \in Seq(AnyProjection)
<1>1. job[g].todo \in Seq(AnyProjection)
  BY DEF IInv, Typed, Job
<1> QED BY <1>1

LEMMA WriteKeeps == ASSUME IInv, NEW g \in Goroutines, WriteProjection(g) PROVE IInv'
<1> DEFINE new == [job[g] EXCEPT !.wrote = TRUE]
<1>1. /\ job[g].todo # <<>> /\ job' = [job EXCEPT ![g] = new]
      /\ graph' = [graph EXCEPT ![Head(job[g].todo).entity] = Head(job[g].todo).says]
      /\ UNCHANGED <<now, source, buffer, dropped, stats, counts, states, alerts, failures, late, store, storeAlerts>>
  BY DEF WriteProjection, sourceVars, bufferVars, storeVars
<1>2. /\ new \in Job /\ new.pc = job[g].pc /\ new.batch = job[g].batch
      /\ new.shot = job[g].shot /\ new.todo = job[g].todo
  <2>1. job[g] \in Job
    BY DEF IInv, Typed
  <2> QED BY <2>1 DEF Job
<1> HIDE DEF new
<1>3. /\ job' \in [Goroutines -> Job] /\ InTime' /\ Shots' /\ Writing'
      /\ job'["projector"].batch = job["projector"].batch
  BY <1>1, <1>2, SameShot
<1>4. graph' \in [Entities -> {"online", "lost", "active", None}]
  <2>1. Head(job[g].todo).says \in {"online", "lost", "active"}
    BY <1>1, HeadFacts DEF AnyProjection
  <2> QED BY <1>1, <2>1 DEF IInv, TypeOK
<1>5. TypeOK' /\ Typed'
  BY <1>1, <1>3, <1>4 DEF IInv, TypeOK, Typed
<1>6. LostTold(states, alerts)' /\ LostHasAlert' /\ FramesAccounted'
  BY <1>1, <1>3 DEF IInv, LostTold, LostHasAlert, FramesAccounted
<1> QED BY <1>3, <1>5, <1>6 DEF IInv

LEMMA FailKeeps == ASSUME IInv, NEW g \in Goroutines, FailProjection(g) PROVE IInv'
<1> DEFINE new == [job[g] EXCEPT !.todo = Tail(job[g].todo)]
<1>1. /\ job[g].todo # <<>> /\ ~job[g].wrote /\ job' = [job EXCEPT ![g] = new]
      /\ failures < MaxFailures /\ failures' = failures + 1
      /\ late' \in {late, late \union {Head(job[g].todo)}}
      /\ UNCHANGED <<now, source, buffer, dropped, stats, counts, states, alerts, graph, store, storeAlerts>>
  BY DEF FailProjection, sourceVars, bufferVars, storeVars
<1>2. /\ new \in Job /\ new.pc = job[g].pc /\ new.batch = job[g].batch
      /\ new.shot = job[g].shot /\ ~new.wrote
  <2>1. job[g] \in Job
    BY DEF IInv, Typed
  <2> QED BY <1>1, <2>1, HeadFacts DEF Job
<1> HIDE DEF new
<1>3. /\ job' \in [Goroutines -> Job] /\ InTime' /\ Shots' /\ Writing'
      /\ job'["projector"].batch = job["projector"].batch
  BY <1>1, <1>2, SameShot
<1>4. failures' \in 0..MaxFailures
  BY <1>1, PipelineBounds DEF IInv, TypeOK
<1>5. TypeOK'
  BY <1>1, <1>4 DEF IInv, TypeOK
<1>6. Typed'
  BY <1>1, <1>3, HeadFacts DEF IInv, Typed
<1>7. LostTold(states, alerts)' /\ LostHasAlert' /\ FramesAccounted'
  BY <1>1, <1>3 DEF IInv, LostTold, LostHasAlert, FramesAccounted
<1> QED BY <1>3, <1>5, <1>6, <1>7 DEF IInv

LEMMA LateWriteKeeps == ASSUME IInv, LateWrite PROVE IInv'
<1>1. PICK p \in late : /\ late' = late \ {p} /\ graph' = [graph EXCEPT ![p.entity] = p.says]
                        /\ UNCHANGED <<now, source, buffer, dropped, stats, counts, states, alerts, job, failures,
                                       store, storeAlerts>>
  BY DEF LateWrite, sourceVars, bufferVars, storeVars
<1>2. p.says \in {"online", "lost", "active"}
  BY DEF IInv, Typed, AnyProjection
<1>3. graph' \in [Entities -> {"online", "lost", "active", None}]
  BY <1>1, <1>2 DEF IInv, TypeOK
<1>4. TypeOK' /\ Typed'
  BY <1>1, <1>3 DEF IInv, TypeOK, Typed
<1>5. /\ InTime' /\ Shots' /\ Writing' /\ LostTold(states, alerts)' /\ LostHasAlert'
      /\ FramesAccounted'
  BY <1>1 DEF IInv, InTime, Shots, Writing, LostTold, LostHasAlert, FramesAccounted
<1> QED BY <1>4, <1>5 DEF IInv

\* Noting a revision changes nothing else of what the store has.
LEMMA RecordGraphKeeps == ASSUME IInv, NEW g \in Goroutines, RecordGraphWrite(g) PROVE IInv'
<1> DEFINE e == Head(job[g].todo).entity
           half == [job[g] EXCEPT !.wrote = FALSE]
           new == [half EXCEPT !.todo = Tail(half.todo)]
           newStore(v) == IF e = VehicleEntity(v) /\ store[v] # None
                          THEN [store[v] EXCEPT !.revision = TRUE] ELSE store[v]
           newAlert(a) == IF e = a /\ storeAlerts[a] # None
                          THEN [storeAlerts[a] EXCEPT !.revision = TRUE] ELSE storeAlerts[a]
<1>1. /\ job[g].todo # <<>> /\ job' = [job EXCEPT ![g] = new]
      /\ store' = [v \in Vehicles |-> newStore(v)]
      /\ storeAlerts' = [a \in Alerts |-> newAlert(a)]
      /\ UNCHANGED <<now, source, buffer, dropped, stats, counts, states, alerts, graph, failures, late>>
  <2>1. job[g].todo # <<>>
    BY DEF RecordGraphWrite, IInv, Writing
  <2> QED BY <2>1 DEF RecordGraphWrite, sourceVars, bufferVars, graphVars
<1>2. /\ new \in Job /\ new.pc = job[g].pc /\ new.batch = job[g].batch
      /\ new.shot = job[g].shot /\ new.wrote = FALSE
  <2>1. job[g] \in Job
    BY DEF IInv, Typed
  <2>2. /\ half \in Job /\ half.pc = job[g].pc /\ half.batch = job[g].batch
        /\ half.shot = job[g].shot /\ half.todo = job[g].todo /\ half.wrote = FALSE
    BY <2>1 DEF Job
  <2> HIDE DEF half
  <2>3. Tail(half.todo) \in Seq(AnyProjection)
    BY <1>1, <2>2, HeadFacts
  <2> QED BY <2>2, <2>3 DEF Job
<1> HIDE DEF new
<1>3. /\ job' \in [Goroutines -> Job] /\ InTime' /\ Shots' /\ Writing'
      /\ job'["projector"].batch = job["projector"].batch
  BY <1>1, <1>2, SameShot
<1>4. ASSUME NEW v \in Vehicles
      PROVE  /\ newStore(v) \in {None} \union [state : VehicleState, revision : BOOLEAN]
             /\ newStore(v) # None => store[v] # None
             /\ store[v] # None => newStore(v).state = store[v].state
  <2>1. store[v] \in {None} \union [state : VehicleState, revision : BOOLEAN]
    BY DEF IInv, TypeOK
  <2> QED BY <2>1
<1>5. ASSUME NEW a \in Alerts
      PROVE  /\ newAlert(a) \in {None} \union [raised : 0..now, revision : BOOLEAN]
             /\ storeAlerts[a] # None => newAlert(a) # None
  <2>1. storeAlerts[a] \in {None} \union [raised : 0..now, revision : BOOLEAN]
    BY DEF IInv, TypeOK
  <2>2. None \notin [raised : 0..now, revision : BOOLEAN]
    BY NoneIsNoAlert
  <2>3. storeAlerts[a] # None =>
            [storeAlerts[a] EXCEPT !.revision = TRUE] \in [raised : 0..now, revision : BOOLEAN]
    BY <2>1
  <2> QED BY <2>1, <2>2, <2>3
<1> HIDE DEF newStore, newAlert, e
<1>6. /\ store' \in [Vehicles -> {None} \union [state : VehicleState, revision : BOOLEAN]]
      /\ storeAlerts' \in [Alerts -> {None} \union [raised : 0..now, revision : BOOLEAN]]
  BY <1>1, <1>4, <1>5
<1>7. TypeOK' /\ Typed'
  BY <1>1, <1>3, <1>6 DEF IInv, TypeOK, Typed
<1>8. LostHasAlert'
  <2>1. \A v \in Vehicles : <<"lost-link", v>> \in Alerts
    BY DEF Alerts, AlertKinds
  <2>2. \A v \in Vehicles : store'[v] = newStore(v)
    BY <1>1
  <2>3. \A a \in Alerts : storeAlerts'[a] = newAlert(a)
    BY <1>1
  <2> QED BY <2>1, <2>2, <2>3, <1>4, <1>5 DEF IInv, LostHasAlert
<1>9. LostTold(states, alerts)' /\ FramesAccounted'
  BY <1>1, <1>3 DEF IInv, LostTold, FramesAccounted
<1> QED BY <1>3, <1>7, <1>8, <1>9 DEF IInv

LEMMA SnapshotKeeps == ASSUME IInv, NEW g \in Goroutines, TakeSnapshot(g) PROVE IInv'
<1> DEFINE shot == [states |-> states, alerts |-> alerts]
           half == [job[g] EXCEPT !.pc = "shot"]
           new == [half EXCEPT !.shot = shot]
<1>1. /\ job[g].pc = "run" /\ job[g].batch = <<>> /\ job[g].todo = <<>>
      /\ job' = [job EXCEPT ![g] = new]
      /\ UNCHANGED <<now, source, buffer, dropped, stats, counts, states, alerts, graph, failures, late,
                     store, storeAlerts>>
  BY DEF TakeSnapshot, sourceVars, bufferVars, graphVars, storeVars
<1>2. now \in 0..MaxTime /\ now \in Nat
  BY PipelineBounds DEF IInv, TypeOK
<1>3. /\ shot \in Shot /\ LostTold(shot.states, shot.alerts)
      /\ \A a \in Alerts : shot.alerts[a] \in {None} \union 0..now
  <2>1. /\ states \in StateMap /\ alerts \in [Alerts -> {None} \union 0..now]
        /\ LostTold(states, alerts)
    BY DEF IInv, TypeOK, StateMap
  <2>2. alerts \in AlertMap
    BY <1>2, <2>1 DEF AlertMap
  <2> QED BY <2>1, <2>2 DEF Shot
<1> HIDE DEF shot
<1>4. /\ new \in Job /\ new.pc = "shot" /\ new.batch = job[g].batch /\ new.shot = shot
      /\ new.todo = <<>> /\ ~new.wrote
  <2>1. job[g] \in Job
    BY DEF IInv, Typed
  <2>2. /\ half \in Job /\ half.pc = "shot" /\ half.batch = job[g].batch
        /\ half.todo = <<>> /\ ~half.wrote
    BY <1>1, <2>1 DEF Job, IInv, Writing
  <2> HIDE DEF half
  <2> QED BY <1>3, <2>2 DEF Job
<1> HIDE DEF new
<1>5. /\ job' \in [Goroutines -> Job] /\ job'[g] = new
      /\ \A h \in Goroutines \ {g} : job'[h] = job[h]
  BY <1>1, <1>4, OneJob
<1>6. TypeOK' /\ Typed'
  BY <1>1, <1>5 DEF IInv, TypeOK, Typed
<1>7. \A h \in Goroutines : job'[h].batch = job[h].batch
  BY <1>4, <1>5
<1>8. InTime'
  BY <1>1, <1>7 DEF IInv, InTime
<1>9. Shots'
  <2>1. job'[g].pc = "shot" /\ job'[g].batch = <<>> /\ job'[g].shot = shot
    BY <1>1, <1>4, <1>5
  <2> QED BY <1>1, <1>3, <1>5, <2>1 DEF IInv, Shots
<1>10. LostTold(states, alerts)' /\ LostHasAlert' /\ FramesAccounted'
  BY <1>1, <1>7 DEF IInv, LostTold, LostHasAlert, FramesAccounted, Goroutines
<1>11. Writing'
  BY <1>4, <1>5 DEF IInv, Writing
<1> QED BY <1>6, <1>8, <1>9, <1>10, <1>11 DEF IInv

\* The store becomes the snapshot, which has the alert of every lost vehicle.
LEMMA ApplyKeeps == ASSUME IInv, NEW g \in Goroutines, ApplySnapshot(g) PROVE IInv'
<1> DEFINE shot == job[g].shot
           done == IF g = "projector" THEN "applied" ELSE "idle"
           new == [IdleJob EXCEPT !.pc = done]
           newStore(v) == IF shot.states[v] = None THEN store[v]
                          ELSE [state |-> shot.states[v],
                                revision |-> store[v] # None /\ store[v].revision]
           newAlert(a) == IF shot.alerts[a] = None THEN storeAlerts[a]
                          ELSE [raised |-> shot.alerts[a],
                                revision |-> storeAlerts[a] # None /\ storeAlerts[a].revision]
<1>1. /\ job[g].pc = "shot" /\ job' = [job EXCEPT ![g] = new]
      /\ store' = [v \in Vehicles |-> newStore(v)]
      /\ storeAlerts' = [a \in Alerts |-> newAlert(a)]
      /\ UNCHANGED <<now, source, buffer, dropped, stats, counts, states, alerts, graph, failures, late>>
  BY DEF ApplySnapshot, sourceVars, bufferVars, graphVars
<1>2. /\ shot.states \in StateMap /\ LostTold(shot.states, shot.alerts)
      /\ \A a \in Alerts : shot.alerts[a] \in {None} \union 0..now
      /\ job[g].batch = <<>>
  BY <1>1 DEF IInv, Shots, Shot
<1>3. /\ new \in Job /\ new.batch = <<>> /\ new.pc \in {"applied", "idle"}
      /\ new.todo = <<>> /\ new.wrote = FALSE
  <2>1. /\ IdleJob \in Job /\ IdleJob.batch = <<>>
        /\ IdleJob.todo = <<>> /\ IdleJob.wrote = FALSE
    BY DEF IdleJob, Job
  <2>2. done \in {"applied", "idle"}
    OBVIOUS
  <2> HIDE DEF done
  <2> QED BY <2>1, <2>2 DEF Job
<1> HIDE DEF new
<1>4. /\ job' \in [Goroutines -> Job] /\ job'[g] = new
      /\ \A h \in Goroutines \ {g} : job'[h] = job[h]
  BY <1>1, <1>3, OneJob
<1> HIDE DEF shot
<1>5. ASSUME NEW v \in Vehicles
      PROVE  /\ newStore(v) \in {None} \union [state : VehicleState, revision : BOOLEAN]
             /\ \/ newStore(v) = store[v]
                \/ newStore(v).state = shot.states[v] /\ shot.states[v] # None
  <2>1. /\ store[v] \in {None} \union [state : VehicleState, revision : BOOLEAN]
        /\ shot.states[v] \in {None} \union VehicleState
    BY <1>2 DEF IInv, TypeOK, StateMap
  <2>2. (store[v] # None /\ store[v].revision) \in BOOLEAN
    BY <2>1
  <2>3. CASE shot.states[v] = None
    BY <2>1, <2>3
  <2>4. CASE shot.states[v] # None
    <3>1. newStore(v) = [state |-> shot.states[v],
                         revision |-> store[v] # None /\ store[v].revision]
      BY <2>4, Zenon
    <3>2. newStore(v) \in [state : VehicleState, revision : BOOLEAN]
      BY <2>1, <2>2, <2>4, <3>1, Zenon
    <3>3. newStore(v).state = shot.states[v]
      <4> DEFINE noted == store[v] # None /\ store[v].revision
      <4>1. newStore(v) = [state |-> shot.states[v], revision |-> noted]
        BY <3>1, Zenon
      <4> HIDE DEF noted, newStore
      <4> QED BY <4>1
    <3> QED BY <2>4, <3>2, <3>3, Zenon
  <2> QED BY <2>3, <2>4
<1>6. ASSUME NEW a \in Alerts
      PROVE  /\ newAlert(a) \in {None} \union [raised : 0..now, revision : BOOLEAN]
             /\ shot.alerts[a] # None \/ storeAlerts[a] # None => newAlert(a) # None
  <2>1. /\ storeAlerts[a] \in {None} \union [raised : 0..now, revision : BOOLEAN]
        /\ shot.alerts[a] \in {None} \union 0..now
    BY <1>2 DEF IInv, TypeOK
  <2>2. (storeAlerts[a] # None /\ storeAlerts[a].revision) \in BOOLEAN
    BY <2>1
  <2>3. CASE shot.alerts[a] = None
    BY <2>1, <2>3
  <2>4. CASE shot.alerts[a] # None
    <3>1. newAlert(a) \in [raised : 0..now, revision : BOOLEAN]
      BY <2>1, <2>2, <2>4, Zenon
    <3> HIDE DEF newAlert
    <3> QED BY <3>1, NoneIsNoAlert
  <2> QED BY <2>3, <2>4
<1> HIDE DEF newStore, newAlert
<1>7. /\ store' \in [Vehicles -> {None} \union [state : VehicleState, revision : BOOLEAN]]
      /\ storeAlerts' \in [Alerts -> {None} \union [raised : 0..now, revision : BOOLEAN]]
  BY <1>1, <1>5, <1>6
<1>8. TypeOK' /\ Typed'
  BY <1>1, <1>4, <1>7 DEF IInv, TypeOK, Typed
<1>9. \A h \in Goroutines : job'[h].batch = job[h].batch
  BY <1>2, <1>3, <1>4
<1>10. InTime' /\ LostTold(states, alerts)' /\ FramesAccounted'
  BY <1>1, <1>9 DEF IInv, InTime, LostTold, FramesAccounted, Goroutines
<1>11. Shots' /\ Writing'
  BY <1>1, <1>3, <1>4 DEF IInv, Shots, Writing
<1>12. LostHasAlert'
  <2>1. \A v \in Vehicles : <<"lost-link", v>> \in Alerts
    BY DEF Alerts, AlertKinds
  <2>2. \A v \in Vehicles : store'[v] = newStore(v)
    BY <1>1
  <2>3. \A a \in Alerts : storeAlerts'[a] = newAlert(a)
    BY <1>1
  <2>4. ASSUME NEW v \in Vehicles, store'[v] # None, store'[v].state.link = "lost"
        PROVE  storeAlerts'[<<"lost-link", v>>] # None
    <3>1. CASE newStore(v) = store[v]
      BY <2>1, <2>2, <2>3, <2>4, <3>1, <1>6 DEF IInv, LostHasAlert
    <3>2. CASE newStore(v).state = shot.states[v] /\ shot.states[v] # None
      BY <2>1, <2>2, <2>3, <2>4, <3>2, <1>2, <1>6 DEF LostTold
    <3> QED BY <1>5, <3>1, <3>2
  <2> QED BY <2>4 DEF LostHasAlert
<1> QED BY <1>8, <1>10, <1>11, <1>12 DEF IInv

\* A batch is taken from the front of the buffer.
LEMMA ReadBatchKeeps == ASSUME IInv, ReadBatch PROVE IInv'
<1> DEFINE n == IF Len(buffer) < BatchSize THEN Len(buffer) ELSE BatchSize
           rest == SubSeq(buffer, n + 1, Len(buffer))
           first == SubSeq(buffer, 1, n)
           half == [job["projector"] EXCEPT !.pc = "run"]
           new == [half EXCEPT !.batch = first]
<1>1. /\ job["projector"].pc = "idle" /\ buffer' = rest
      /\ job' = [job EXCEPT !["projector"] = new]
      /\ UNCHANGED <<now, source, dropped, stats, counts, states, alerts, graph, failures, late,
                     store, storeAlerts>>
  BY DEF ReadBatch, graphVars, storeVars
<1>2. /\ buffer \in Seq(AnyFrame) /\ Len(buffer) \in Nat /\ n \in 0..Len(buffer)
      /\ Len(buffer) <= Capacity /\ Capacity \in Nat
  BY ConfigAssumption DEF IInv, TypeOK, Typed
<1> HIDE DEF n
<1>3. /\ rest \in Seq(AnyFrame) /\ first \in Seq(AnyFrame)
      /\ Len(rest) = Len(buffer) - n /\ Len(first) = n
      /\ \A i \in 1..Len(rest) : rest[i] = buffer[i + n] /\ i + n \in 1..Len(buffer)
      /\ \A i \in 1..Len(first) : first[i] = buffer[i] /\ i \in 1..Len(buffer)
  BY <1>2
<1> HIDE DEF rest, first
<1>4. "projector" \in Goroutines
  BY DEF Goroutines
<1>5. /\ new \in Job /\ new.pc = "run" /\ new.batch = first /\ ~new.wrote
      /\ job["projector"].batch = <<>>
  <2>1. job["projector"] \in Job
    BY <1>4 DEF IInv, Typed
  <2>2. half \in Job /\ half.pc = "run" /\ ~half.wrote
    BY <1>1, <1>4, <2>1 DEF Job, IInv, Writing
  <2>3. job["projector"].batch = <<>>
    BY <1>1, <1>4 DEF IInv, Shots
  <2> HIDE DEF half
  <2> QED BY <1>3, <2>2, <2>3 DEF Job
<1> HIDE DEF new
<1>6. /\ job' \in [Goroutines -> Job] /\ job'["projector"] = new
      /\ \A h \in Goroutines \ {"projector"} : job'[h] = job[h]
  BY <1>1, <1>4, <1>5, OneJob
<1>7. TypeOK' /\ Typed'
  BY <1>1, <1>2, <1>3, <1>6 DEF IInv, TypeOK, Typed
<1>8. InTime'
  BY <1>1, <1>3, <1>5, <1>6 DEF IInv, InTime
<1>9. Shots' /\ Writing'
  BY <1>1, <1>5, <1>6 DEF IInv, Shots, Writing
<1>10. LostTold(states, alerts)' /\ LostHasAlert'
  BY <1>1 DEF IInv, LostTold, LostHasAlert
<1>11. FramesAccounted'
  <2>1. Len(<<>>) = 0
    OBVIOUS
  <2>2. /\ dropped \in Nat /\ counts.decoded \in Nat /\ counts.errors \in Nat
    BY DEF IInv, TypeOK
  <2>3. dropped + Len(buffer) + Len(job["projector"].batch) + counts.decoded + counts.errors
          = dropped + Len(buffer') + Len(job'["projector"].batch) + counts.decoded
                + counts.errors
    BY <1>1, <1>2, <1>3, <1>5, <1>6, <2>1, <2>2
  <2> QED BY <1>1, <2>3, Zenon DEF IInv, FramesAccounted
<1> QED BY <1>7, <1>8, <1>9, <1>10, <1>11 DEF IInv

-----------------------------------------------------------------------------
\* What a frame makes of its vehicle.
LEMMA AppliedFacts ==
    ASSUME IInv, NEW f \in AnyFrame
    PROVE  /\ Applied(f) \in VehicleState /\ Applied(f).link = "online"
           /\ f.vehicle \in Vehicles /\ FrameProjections(f) \in Seq(AnyProjection)
<1> DEFINE was == StateFor(f.vehicle)
           a == [was EXCEPT !.link = "online"]
           b == [a EXCEPT !.seen = f.at]
           c == [b EXCEPT !.battery = IF f.kind = "status" THEN f.level ELSE b.battery]
<1>1. /\ f.vehicle \in Vehicles /\ f.level \in Nat /\ f.at \in 0..MaxTime
  BY DEF AnyFrame
<1>2. was \in VehicleState
  <2>1. states[f.vehicle] \in {None} \union VehicleState
    BY <1>1 DEF IInv, TypeOK
  <2>2. 0 \in 0..MaxTime
    BY PipelineBounds
  <2> QED BY <2>1, <2>2, ConfigAssumption DEF StateFor, VehicleState
<1>3. Applied(f) = c
  BY DEF Applied
<1> HIDE DEF was
<1>4. a \in VehicleState /\ a.link = "online"
  BY <1>2 DEF VehicleState
<1> HIDE DEF a
<1>5. b \in VehicleState /\ b.link = "online"
  BY <1>1, <1>4 DEF VehicleState
<1> HIDE DEF b
<1>6. c \in VehicleState /\ c.link = "online"
  BY <1>1, <1>5 DEF VehicleState
<1> HIDE DEF c
<1>7. VehicleProjection(f.vehicle, Applied(f)) \in AnyProjection
  BY <1>1, <1>3, <1>6 DEF VehicleProjection, Projection, AnyProjection, Entities
<1>8. AlertProjection("low-battery", f.vehicle) \in AnyProjection
  BY <1>1 DEF AlertProjection, Projection, AnyProjection, Entities, Alerts, AlertKinds
<1>9. FrameProjections(f) \in Seq(AnyProjection)
  BY <1>7, <1>8 DEF FrameProjections
<1> QED BY <1>1, <1>3, <1>6, <1>9

LEMMA HandleFrameKeeps == ASSUME IInv, HandleFrame PROVE IInv'
<1> DEFINE f == Head(job["projector"].batch)
           half == [job["projector"] EXCEPT !.batch = Tail(job["projector"].batch)]
           new == [half EXCEPT !.todo = FrameProjections(f)]
<1>1. /\ job["projector"].batch # <<>> /\ job["projector"].todo = <<>>
      /\ counts' = Counted(f)
      /\ states' = IF f.kind = "bad" THEN states
                   ELSE [states EXCEPT ![f.vehicle] = Applied(f)]
      /\ alerts' = IF RaisesLow(f)
                   THEN [alerts EXCEPT ![<<"low-battery", f.vehicle>>] = f.at] ELSE alerts
      /\ job' = [job EXCEPT !["projector"] = new]
      /\ UNCHANGED <<now, source, buffer, dropped, stats, graph, failures, late, store, storeAlerts>>
  BY DEF HandleFrame, sourceVars, bufferVars, graphVars, storeVars
<1>2. "projector" \in Goroutines
  BY DEF Goroutines
<1>3. /\ job["projector"] \in Job /\ job["projector"].batch \in Seq(AnyFrame)
      /\ job["projector"].pc = "run" /\ ~job["projector"].wrote
  BY <1>1, <1>2 DEF IInv, Typed, Job, Shots, Writing
<1>4. /\ f \in AnyFrame /\ f.at <= now /\ f.at \in Nat
      /\ Tail(job["projector"].batch) \in Seq(AnyFrame)
      /\ Len(Tail(job["projector"].batch)) = Len(job["projector"].batch) - 1
      /\ \A i \in 1..Len(Tail(job["projector"].batch)) :
            /\ Tail(job["projector"].batch)[i] = job["projector"].batch[i + 1]
            /\ i + 1 \in 1..Len(job["projector"].batch)
  <2> DEFINE s == job["projector"].batch
  <2>1. s \in Seq(AnyFrame) /\ s # <<>>
    BY <1>1, <1>3
  <2>2. \A i \in 1..Len(s) : s[i].at <= now
    BY <1>2 DEF IInv, InTime
  <2> HIDE DEF s
  <2>3. /\ Head(s) = s[1] /\ 1 \in 1..Len(s) /\ s[1] \in AnyFrame
        /\ Tail(s) \in Seq(AnyFrame) /\ Len(Tail(s)) = Len(s) - 1
        /\ \A i \in 1..Len(Tail(s)) : Tail(s)[i] = s[i + 1] /\ i + 1 \in 1..Len(s)
    BY <2>1
  <2>4. Head(s).at \in Nat
    BY <2>3, PipelineBounds DEF AnyFrame
  <2> QED BY <2>2, <2>3, <2>4 DEF s
<1> HIDE DEF f
<1>5. /\ Applied(f) \in VehicleState /\ Applied(f).link = "online"
      /\ f.vehicle \in Vehicles /\ FrameProjections(f) \in Seq(AnyProjection)
  BY <1>4, AppliedFacts
<1>6. /\ new \in Job /\ new.pc = "run" /\ ~new.wrote
      /\ new.batch = Tail(job["projector"].batch)
  <2>1. /\ half \in Job /\ half.pc = "run" /\ ~half.wrote
        /\ half.batch = Tail(job["projector"].batch)
    BY <1>3, <1>4 DEF Job
  <2> HIDE DEF half
  <2> QED BY <1>5, <2>1 DEF Job
<1> HIDE DEF new
<1>7. /\ job' \in [Goroutines -> Job] /\ job'["projector"] = new
      /\ \A h \in Goroutines \ {"projector"} : job'[h] = job[h]
  BY <1>1, <1>2, <1>6, OneJob
<1>8. /\ counts \in [raw : Nat, decoded : Nat, errors : Nat, drops : Nat]
      /\ counts' \in [raw : Nat, decoded : Nat, errors : Nat, drops : Nat]
      /\ counts'.raw = counts.raw /\ counts'.drops = counts.drops
      /\ counts'.decoded + counts'.errors = counts.decoded + counts.errors + 1
  <2>1. counts \in [raw : Nat, decoded : Nat, errors : Nat, drops : Nat]
    BY DEF IInv, TypeOK
  <2>2. CASE f.kind = "bad"
    BY <1>1, <2>1, <2>2 DEF Counted
  <2>3. CASE f.kind # "bad"
    BY <1>1, <2>1, <2>3 DEF Counted
  <2> QED BY <2>1, <2>2, <2>3
<1>9. states' \in [Vehicles -> {None} \union VehicleState]
  BY <1>1, <1>5 DEF IInv, TypeOK
<1>10. /\ alerts' \in [Alerts -> {None} \union 0..now]
       /\ \A a \in Alerts : alerts[a] # None => alerts'[a] # None
  <2>1. f.at \in 0..now /\ f.at # None
    <3>1. f.at \in 0..now
      BY <1>4, PipelineBounds DEF IInv, TypeOK
    <3> QED BY <3>1, NoneIsNoAlert
  <2>2. alerts \in [Alerts -> {None} \union 0..now]
    BY DEF IInv, TypeOK
  <2> QED BY <1>1, <2>1, <2>2
<1>11. TypeOK' /\ Typed'
  BY <1>1, <1>7, <1>8, <1>9, <1>10 DEF IInv, TypeOK, Typed
<1>12. InTime'
  <2>1. \A i \in 1..Len(job'["projector"].batch) : job'["projector"].batch[i].at <= now
    BY <1>2, <1>4, <1>6, <1>7 DEF IInv, InTime
  <2> QED BY <1>1, <1>7, <2>1 DEF IInv, InTime
<1>13. Shots' /\ Writing'
  BY <1>1, <1>6, <1>7 DEF IInv, Shots, Writing
<1>14. LostTold(states, alerts)'
  <2>1. \A v \in Vehicles : <<"lost-link", v>> \in Alerts
    BY DEF Alerts, AlertKinds
  <2>2. \A v \in Vehicles : states'[v] = states[v] \/ states'[v].link = "online"
    BY <1>1, <1>5 DEF IInv, TypeOK
  <2> QED BY <1>10, <2>1, <2>2 DEF IInv, LostTold
<1>15. LostHasAlert'
  BY <1>1 DEF IInv, LostHasAlert
<1>16. FramesAccounted'
  <2>1. /\ Len(job["projector"].batch) \in Nat /\ Len(buffer) \in Nat /\ dropped \in Nat
    BY <1>3 DEF IInv, Typed, TypeOK
  <2>2. Len(job'["projector"].batch) = Len(job["projector"].batch) - 1
    BY <1>4, <1>6, <1>7
  <2>3. dropped + Len(buffer) + Len(job["projector"].batch) + counts.decoded + counts.errors
          = dropped + Len(buffer) + Len(job'["projector"].batch) + counts'.decoded
                + counts'.errors
    <3> DEFINE drops == dropped  held == Len(buffer)  batch == Len(job["projector"].batch)
               left == Len(job'["projector"].batch)
               decoded == counts.decoded  errors == counts.errors
               decoded2 == counts'.decoded  errors2 == counts'.errors
    <3>1. /\ drops \in Nat /\ held \in Nat /\ batch \in Nat /\ left = batch - 1
          /\ decoded \in Nat /\ errors \in Nat /\ decoded2 \in Nat /\ errors2 \in Nat
          /\ decoded2 + errors2 = decoded + errors + 1
      BY <1>8, <2>1, <2>2
    <3> HIDE DEF drops, held, batch, left, decoded, errors, decoded2, errors2
    <3>2. drops + held + batch + decoded + errors = drops + held + left + decoded2 + errors2
      BY <3>1
    <3> QED BY <3>2 DEF drops, held, batch, left, decoded, errors, decoded2, errors2
  <2> QED BY <1>1, <1>8, <2>3, Zenon DEF IInv, FramesAccounted
<1> QED BY <1>11, <1>12, <1>13, <1>14, <1>15, <1>16 DEF IInv

-----------------------------------------------------------------------------
\* The monitor's writes are projections, whatever order it finds vehicles in.
LEMMA LostProjectionsType ==
    ASSUME NEW order \in SetToSeqs(Overdue)
    PROVE  LostProjections(order) \in Seq(AnyProjection)
<1> DEFINE k == Cardinality(Overdue)
<1>1. Overdue \subseteq Vehicles
  BY DEF Overdue
<1>2. k \in Nat
  BY <1>1, ConfigAssumption, FS_Subset, FS_CardinalityType
<1>3. order \in [1..k -> Overdue]
  BY DEF SetToSeqs
<1> HIDE DEF k
<1>4. order \in Seq(Vehicles)
  <2>1. order \in Seq(Overdue)
    BY <1>2, <1>3, SeqDef
  <2> QED BY <1>1, <2>1, SeqMonotonic
<1> DEFINE n == Len(order)
           says(i) == IF i % 2 = 1 THEN Projection(VehicleEntity(order[(i + 1) \div 2]), "lost")
                      ELSE AlertProjection("lost-link", order[i \div 2])
<1>5. n \in Nat
  BY <1>4
<1>6. \A j \in 1..n : order[j] \in Vehicles
  BY <1>4
<1> HIDE DEF n
<1>7. ASSUME NEW i \in 1..(2 * n) PROVE says(i) \in AnyProjection
  <2>1. CASE i % 2 = 1
    <3>1. (i + 1) \div 2 \in 1..n
      BY <1>5, <2>1
    <3>2. order[(i + 1) \div 2] \in Vehicles
      BY <1>6, <3>1
    <3> QED BY <2>1, <3>2 DEF Projection, AnyProjection, Entities
  <2>2. CASE i % 2 # 1
    <3>1. i \div 2 \in 1..n
      BY <1>5, <2>2
    <3>2. order[i \div 2] \in Vehicles
      BY <1>6, <3>1
    <3> QED BY <2>2, <3>2
            DEF AlertProjection, Projection, AnyProjection, Entities, Alerts, AlertKinds
  <2> QED BY <2>1, <2>2
<1>8. LostProjections(order) = [i \in 1..(2 * n) |-> says(i)]
  BY DEF LostProjections, n
<1> HIDE DEF says
<1>9. 2 * n \in Nat
  BY <1>5
<1>10. [i \in 1..(2 * n) |-> says(i)] \in [1..(2 * n) -> AnyProjection]
  BY <1>7
<1> QED BY <1>8, <1>9, <1>10, SeqDef

\* Every vehicle marked lost has its alert raised in the same step.
LEMMA CheckKeeps == ASSUME IInv, CheckLinkTimeouts PROVE IInv'
<1> DEFINE half == [job["monitor"] EXCEPT !.pc = "run"]
           new(order) == [half EXCEPT !.todo = LostProjections(order)]
<1>1. PICK order \in SetToSeqs(Overdue) : job' = [job EXCEPT !["monitor"] = new(order)]
  BY DEF CheckLinkTimeouts
<1> DEFINE mine == new(order)
<1>2. /\ job["monitor"].pc = "idle"
      /\ states' = [v \in Vehicles |->
            IF v \in Overdue THEN [states[v] EXCEPT !.link = "lost"] ELSE states[v]]
      /\ alerts' = Raised
      /\ UNCHANGED <<now, source, buffer, dropped, stats, counts, graph, failures, late, store, storeAlerts>>
  BY DEF CheckLinkTimeouts, sourceVars, bufferVars, graphVars, storeVars
<1>3. "monitor" \in Goroutines
  BY DEF Goroutines
<1>4. /\ mine \in Job /\ mine.pc = "run" /\ mine.batch = job["monitor"].batch /\ ~mine.wrote
  <2>1. job["monitor"] \in Job
    BY <1>3 DEF IInv, Typed
  <2>2. /\ half \in Job /\ half.pc = "run" /\ half.batch = job["monitor"].batch /\ ~half.wrote
    BY <1>2, <1>3, <2>1 DEF Job, IInv, Writing
  <2> HIDE DEF half
  <2> QED BY <2>2, LostProjectionsType DEF Job
<1>5. job' = [job EXCEPT !["monitor"] = mine]
  BY <1>1
<1> HIDE DEF mine
<1>6. /\ job' \in [Goroutines -> Job] /\ job'["monitor"] = mine
      /\ \A h \in Goroutines \ {"monitor"} : job'[h] = job[h]
  BY <1>3, <1>4, <1>5, OneJob
<1>7. states' \in [Vehicles -> {None} \union VehicleState]
  <2>1. ASSUME NEW v \in Vehicles, v \in Overdue
        PROVE  [states[v] EXCEPT !.link = "lost"] \in VehicleState
    <3>1. states[v] \in VehicleState
      BY <2>1 DEF IInv, TypeOK, Overdue, Silent
    <3> QED BY <3>1 DEF VehicleState
  <2>2. \A v \in Vehicles : states[v] \in {None} \union VehicleState
    BY DEF IInv, TypeOK
  <2> QED BY <1>2, <2>1, <2>2
<1>8. /\ alerts' \in [Alerts -> {None} \union 0..now]
      /\ \A a \in Alerts : alerts[a] # None => alerts'[a] # None
      /\ \A v \in Overdue : alerts'[<<"lost-link", v>>] # None
  <2>1. now \in 0..now /\ now # None
    <3>1. now \in 0..now
      BY PipelineBounds DEF IInv, TypeOK
    <3> QED BY <3>1, NoneIsNoAlert
  <2>2. alerts \in [Alerts -> {None} \union 0..now]
    BY DEF IInv, TypeOK
  <2>3. alerts' = [a \in Alerts |->
                     IF a[1] = "lost-link" /\ a[2] \in Overdue THEN now ELSE alerts[a]]
    BY <1>2 DEF Raised
  <2>4. \A v \in Overdue : <<"lost-link", v>> \in Alerts
    BY DEF Overdue, Alerts, AlertKinds
  <2> HIDE DEF half
  <2> QED BY <2>1, <2>2, <2>3, <2>4
<1>9. TypeOK' /\ Typed'
  BY <1>2, <1>6, <1>7, <1>8 DEF IInv, TypeOK, Typed
<1>10. \A h \in Goroutines : job'[h].batch = job[h].batch
  BY <1>4, <1>6
<1>11. InTime' /\ FramesAccounted'
  BY <1>2, <1>10 DEF IInv, InTime, FramesAccounted, Goroutines
<1>12. Shots' /\ Writing'
  BY <1>2, <1>4, <1>6 DEF IInv, Shots, Writing
<1>13. LostTold(states, alerts)'
  <2>1. \A v \in Vehicles : <<"lost-link", v>> \in Alerts
    BY DEF Alerts, AlertKinds
  <2>2. \A v \in Vehicles : v \in Overdue \/ states'[v] = states[v]
    BY <1>2
  <2> QED BY <1>8, <2>1, <2>2 DEF IInv, LostTold
<1>14. LostHasAlert'
  BY <1>2 DEF IInv, LostHasAlert
<1> QED BY <1>9, <1>11, <1>12, <1>13, <1>14 DEF IInv

\* Reading the buffer's statistics and recording them is nobody else's concern.
LEMMA SourceBufferKeeps == ASSUME IInv, SourceStats \/ SourceRecordBuffer PROVE IInv'
<1>1. /\ source # "written" /\ source' \in {"idle", "stats"}
      /\ UNCHANGED <<now, buffer, dropped, states, alerts, job, graph, failures, late,
                     store, storeAlerts>>
  BY DEF SourceStats, SourceRecordBuffer, bufferVars, graphVars, storeVars
<1>2. /\ stats' \in [source : Nat, projector : Nat]
      /\ counts' \in [raw : Nat, decoded : Nat, errors : Nat, drops : Nat]
      /\ counts'.raw = counts.raw /\ counts'.decoded = counts.decoded
      /\ counts'.errors = counts.errors
  BY DEF SourceStats, SourceRecordBuffer, IInv, TypeOK
<1>3. TypeOK' /\ Typed'
  BY <1>1, <1>2 DEF IInv, TypeOK, Typed
<1>4. InTime' /\ Shots' /\ Writing' /\ LostTold(states, alerts)' /\ LostHasAlert'
  BY <1>1 DEF IInv, InTime, Shots, Writing, LostTold, LostHasAlert
<1>5. FramesAccounted'
  BY <1>1, <1>2 DEF IInv, FramesAccounted
<1> QED BY <1>3, <1>4, <1>5 DEF IInv

LEMMA ProjectorBufferKeeps == ASSUME IInv, ProjectorStats \/ ProjectorRecordBuffer PROVE IInv'
<1> DEFINE mine == job["projector"]
           asked == [mine EXCEPT !.pc = "stats"]
<1>1. /\ mine.pc \in {"applied", "stats"}
      /\ \E new \in {asked, IdleJob} : job' = [job EXCEPT !["projector"] = new]
      /\ UNCHANGED <<now, source, buffer, dropped, states, alerts, graph, failures, late,
                     store, storeAlerts>>
  BY DEF ProjectorStats, ProjectorRecordBuffer, bufferVars, graphVars, storeVars
<1>2. "projector" \in Goroutines
  BY DEF Goroutines
<1>3. mine \in Job /\ mine.batch = <<>> /\ mine.todo = <<>> /\ ~mine.wrote
  BY <1>1, <1>2 DEF IInv, Typed, Shots, Writing
<1>4. \A new \in {asked, IdleJob} :
         /\ new \in Job /\ new.pc \in {"stats", "idle"} /\ new.batch = <<>>
         /\ new.todo = <<>> /\ ~new.wrote
  <2>1. /\ IdleJob \in Job /\ IdleJob.pc = "idle" /\ IdleJob.batch = <<>>
        /\ IdleJob.todo = <<>> /\ ~IdleJob.wrote
    BY DEF IdleJob, Job
  <2> HIDE DEF mine
  <2>2. /\ asked \in Job /\ asked.pc = "stats" /\ asked.batch = <<>>
        /\ asked.todo = <<>> /\ ~asked.wrote
    BY <1>3 DEF Job
  <2> QED BY <2>1, <2>2, Zenon
<1> HIDE DEF mine, asked
<1>5. PICK new \in Job : /\ job' = [job EXCEPT !["projector"] = new]
                         /\ new.pc \in {"stats", "idle"} /\ new.batch = <<>>
                         /\ new.todo = <<>> /\ ~new.wrote
  BY <1>1, <1>4
<1>6. /\ job' \in [Goroutines -> Job] /\ job'["projector"] = new
      /\ \A h \in Goroutines \ {"projector"} : job'[h] = job[h]
  BY <1>2, <1>5, OneJob
<1>7. /\ stats' \in [source : Nat, projector : Nat]
      /\ counts' \in [raw : Nat, decoded : Nat, errors : Nat, drops : Nat]
      /\ counts'.raw = counts.raw /\ counts'.decoded = counts.decoded
      /\ counts'.errors = counts.errors
  BY DEF ProjectorStats, ProjectorRecordBuffer, IInv, TypeOK
<1>8. TypeOK' /\ Typed'
  BY <1>1, <1>6, <1>7 DEF IInv, TypeOK, Typed
<1>9. \A h \in Goroutines : job'[h].batch = job[h].batch
  BY <1>3, <1>5, <1>6 DEF mine
<1>10. InTime' /\ LostTold(states, alerts)' /\ LostHasAlert'
  BY <1>1, <1>9 DEF IInv, InTime, LostTold, LostHasAlert
<1>11. FramesAccounted'
  BY <1>1, <1>2, <1>7, <1>9 DEF IInv, FramesAccounted
<1>12. Shots' /\ Writing'
  BY <1>1, <1>5, <1>6 DEF IInv, Shots, Writing
<1> QED BY <1>8, <1>10, <1>11, <1>12 DEF IInv

LEMMA NextIInv == ASSUME IInv, [Next]_vars PROVE IInv'
<1>1. CASE Tick
  BY <1>1, TickKeeps
<1>2. ASSUME NEW f \in Frames, BufferWrite(f) PROVE IInv'
  BY <1>2, BufferWriteKeeps
<1>3. CASE RecordRawFrame \/ SourceStats \/ SourceRecordBuffer
  BY <1>3, RecordRawKeeps, SourceBufferKeeps
<1>4. CASE ReadBatch
  BY <1>4, ReadBatchKeeps
<1>5. CASE HandleFrame \/ ProjectorStats \/ ProjectorRecordBuffer
  BY <1>5, HandleFrameKeeps, ProjectorBufferKeeps
<1>6. CASE CheckLinkTimeouts
  BY <1>6, CheckKeeps
<1>7. ASSUME NEW g \in Goroutines,
             \/ WriteProjection(g) \/ RecordGraphWrite(g) \/ FailProjection(g)
             \/ TakeSnapshot(g) \/ ApplySnapshot(g)
      PROVE  IInv'
  BY <1>7, WriteKeeps, RecordGraphKeeps, FailKeeps, SnapshotKeeps, ApplyKeeps
<1>8. CASE LateWrite
  BY <1>8, LateWriteKeeps
<1>9. CASE UNCHANGED vars
  BY <1>9 DEF vars, IInv, TypeOK, Typed, InTime, Shots, Writing, LostTold, LostHasAlert,
              FramesAccounted
<1> QED BY <1>1, <1>2, <1>3, <1>4, <1>5, <1>6, <1>7, <1>8, <1>9 DEF Next

LEMMA Inductive == Spec => []IInv
<1>1. Init => IInv
  BY InitIInv
<1>2. IInv /\ [Next]_vars => IInv'
  BY NextIInv
<1> QED BY <1>1, <1>2, PTL DEF Spec

\* What the source has read of the buffer is current, for it alone writes; what
\* the projector has read may be old only if another frame waits.
Drops ==
    /\ source = "stats" => stats.source = dropped
    /\ job["projector"].pc = "stats" => stats.projector = dropped \/ buffer # <<>>
    /\ DropsShownOrComing

\* A step that keeps the projector goroutine where it is, or takes it through
\* its batch, and leaves the buffer's numbers alone.
LEMMA DropsStay ==
    ASSUME Drops, UNCHANGED <<source, buffer, dropped, stats>>, counts'.drops = counts.drops,
           \/ job'["projector"].pc = job["projector"].pc
           \/ job'["projector"].pc \in {"run", "shot", "applied"}
    PROVE  Drops'
BY DEF Drops, DropsShownOrComing

LEMMA NextDrops == ASSUME IInv, Drops, [Next]_vars PROVE Drops'
<1>t. /\ counts \in [raw : Nat, decoded : Nat, errors : Nat, drops : Nat]
      /\ stats \in [source : Nat, projector : Nat] /\ dropped \in Nat
      /\ job \in [Goroutines -> Job] /\ "projector" \in Goroutines
  BY DEF IInv, TypeOK, Typed, Goroutines
<1>1. CASE Tick \/ LateWrite \/ UNCHANGED vars
  BY <1>1, DropsStay DEF Tick, LateWrite, vars, sourceVars, bufferVars
<1>2. ASSUME NEW f \in Frames, BufferWrite(f) PROVE Drops'
  <2>1. Kept \in Seq(AnyFrame)
    BY KeptFacts
  <2>2. buffer' = Append(Kept, f) /\ source' = "written"
    BY <1>2 DEF BufferWrite
  <2>3. buffer' # <<>>
    <3> HIDE DEF Kept
    <3>1. Len(Append(Kept, f)) = Len(Kept) + 1 /\ Len(Kept) \in Nat
      BY <2>1
    <3> QED BY <2>2, <3>1
  <2> QED BY <2>2, <2>3 DEF Drops, DropsShownOrComing
<1>3. CASE RecordRawFrame
  BY <1>3, <1>t DEF RecordRawFrame, bufferVars, Drops, DropsShownOrComing
<1>4. CASE SourceStats
  BY <1>4, <1>t DEF SourceStats, bufferVars, Drops, DropsShownOrComing
<1>5. CASE SourceRecordBuffer
  <2>1. counts'.drops = dropped' /\ source' = "idle"
    BY <1>5, <1>t DEF SourceRecordBuffer, bufferVars, Drops
  <2>2. UNCHANGED <<buffer, dropped, job>> /\ stats'.projector = stats.projector
    BY <1>5, <1>t DEF SourceRecordBuffer, bufferVars
  <2> QED BY <2>1, <2>2 DEF Drops, DropsShownOrComing
<1>6. CASE ReadBatch
  <2>1. job'["projector"].pc = "run" /\ UNCHANGED <<source, dropped, stats, counts>>
    BY <1>6, <1>t DEF ReadBatch, Job
  <2> QED BY <2>1 DEF Drops, DropsShownOrComing
<1>7. CASE HandleFrame
  <2>1. job'["projector"].pc = job["projector"].pc
    BY <1>7, <1>t DEF HandleFrame, Job
  <2>2. counts'.drops = counts.drops
    BY <1>7, <1>t DEF HandleFrame, Counted
  <2> QED BY <1>7, <2>1, <2>2, DropsStay DEF HandleFrame, sourceVars, bufferVars
<1>8. CASE ProjectorStats
  <2>1. job'["projector"].pc = "stats" /\ stats' = [stats EXCEPT !.projector = dropped]
    BY <1>8, <1>t DEF ProjectorStats, Job
  <2>2. UNCHANGED <<source, buffer, dropped, counts>>
    BY <1>8 DEF ProjectorStats, bufferVars
  <2> QED BY <2>1, <2>2, <1>t DEF Drops, DropsShownOrComing
<1>9. CASE ProjectorRecordBuffer
  <2>1. /\ job["projector"].pc = "stats" /\ job'["projector"].pc = "idle"
        /\ counts'.drops = stats.projector /\ stats'.source = stats.source
        /\ UNCHANGED <<source, buffer, dropped>>
    BY <1>9, <1>t DEF ProjectorRecordBuffer, bufferVars, IdleJob
  <2> QED BY <2>1 DEF Drops, DropsShownOrComing
<1>10. CASE CheckLinkTimeouts
  <2>1. job'["projector"] = job["projector"]
    BY <1>10, <1>t DEF CheckLinkTimeouts
  <2> QED BY <1>10, <2>1, DropsStay DEF CheckLinkTimeouts, sourceVars, bufferVars
<1>11. ASSUME NEW g \in Goroutines, WriteProjection(g) \/ RecordGraphWrite(g) \/ FailProjection(g)
       PROVE  Drops'
  <2>1. job'["projector"].pc = job["projector"].pc
    <3>1. ASSUME NEW new, job' = [job EXCEPT ![g] = new], new.pc = job[g].pc
          PROVE  job'["projector"].pc = job["projector"].pc
      BY <1>t, <3>1
    <3>2. job[g] \in Job
      BY <1>t
    <3> DEFINE wrote == [job[g] EXCEPT !.wrote = TRUE]
               unwrote == [job[g] EXCEPT !.wrote = FALSE]
               recorded == [unwrote EXCEPT !.todo = Tail(unwrote.todo)]
               failed == [job[g] EXCEPT !.todo = Tail(job[g].todo)]
    <3>3. wrote.pc = job[g].pc /\ unwrote.pc = job[g].pc /\ failed.pc = job[g].pc
      BY <3>2 DEF Job
    <3>4. recorded.pc = job[g].pc
      <4>1. unwrote \in Job
        BY <3>2 DEF Job
      <4> HIDE DEF unwrote
      <4> QED BY <3>3, <4>1 DEF Job
    <3>5. \/ job' = [job EXCEPT ![g] = wrote] \/ job' = [job EXCEPT ![g] = recorded]
          \/ job' = [job EXCEPT ![g] = failed]
      <4>1. CASE WriteProjection(g)
        BY <4>1 DEF WriteProjection
      <4>2. CASE RecordGraphWrite(g)
        BY <4>2 DEF RecordGraphWrite
      <4>3. CASE FailProjection(g)
        BY <4>3 DEF FailProjection
      <4> QED BY <1>11, <4>1, <4>2, <4>3
    <3> HIDE DEF wrote, recorded, failed
    <3> QED BY <3>1, <3>3, <3>4, <3>5
  <2> QED BY <1>11, <2>1, DropsStay
          DEF WriteProjection, RecordGraphWrite, FailProjection, sourceVars, bufferVars
<1>12. ASSUME NEW g \in Goroutines, TakeSnapshot(g) \/ ApplySnapshot(g) PROVE Drops'
  <2>1. \/ job'["projector"].pc = job["projector"].pc
        \/ job'["projector"].pc \in {"shot", "applied"}
    <3> DEFINE half == [job[g] EXCEPT !.pc = "shot"]
               took == [half EXCEPT !.shot = [states |-> states, alerts |-> alerts]]
               done == [IdleJob EXCEPT !.pc = IF g = "projector" THEN "applied" ELSE "idle"]
    <3>1. took.pc = "shot"
      <4>1. job[g] \in Job
        BY <1>t
      <4>2. half \in Job /\ half.pc = "shot"
        BY <4>1 DEF Job
      <4> HIDE DEF half
      <4> QED BY <4>2 DEF Job
    <3>2. g = "projector" => done.pc = "applied"
      BY DEF IdleJob
    <3>3. job' = [job EXCEPT ![g] = took] \/ job' = [job EXCEPT ![g] = done]
      BY <1>12 DEF TakeSnapshot, ApplySnapshot
    <3> HIDE DEF took, done
    <3> QED BY <1>t, <3>1, <3>2, <3>3
  <2> QED BY <1>12, <2>1, DropsStay DEF TakeSnapshot, ApplySnapshot, sourceVars, bufferVars
<1> QED BY <1>1, <1>2, <1>3, <1>4, <1>5, <1>6, <1>7, <1>8, <1>9, <1>10, <1>11, <1>12 DEF Next

\* Every variable keeps its type: the buffer stays within its capacity
\* (buffer.Write with DropOldest) and no alert is raised in the future.
THEOREM TypeCorrect == Spec => []TypeOK
<1>1. IInv => TypeOK
  BY DEF IInv
<1> QED BY <1>1, Inductive, PTL

\* The metrics and the buffer's Stats account for every raw frame, whatever the
\* capacity and the batch size (recordRawFrame, handleFrame).
THEOREM EveryFrameAccounted == Spec => []FramesAccounted
<1>1. IInv => FramesAccounted
  BY DEF IInv
<1> QED BY <1>1, Inductive, PTL

\* The BufferDrops the store shows are never left behind the buffer's count,
\* though two goroutines set them from statistics read earlier (RecordBuffer).
THEOREM DropsNeverLeftBehind == Spec => []DropsShownOrComing
<1>1. Init => Drops
  BY DEF Init, Drops, DropsShownOrComing, Goroutines, IdleJob
<1>2. IInv /\ Drops /\ [Next]_vars => Drops'
  BY NextDrops
<1>3. Drops => DropsShownOrComing
  BY DEF Drops
<1> QED BY <1>1, <1>2, <1>3, Inductive, PTL DEF Spec

\* The store never shows a vehicle lost without its alert, whichever goroutine's
\* snapshot ApplyProjectorSnapshot was given last.
THEOREM LostAlwaysHasAlert == Spec => []LostHasAlert
<1>1. IInv => LostHasAlert
  BY DEF IInv
<1> QED BY <1>1, Inductive, PTL
=============================================================================
