------------------------ MODULE OperatorWritesProofs ------------------------
(***************************************************************************)
(* What OperatorWrites guarantees for every number of readers, requests    *)
(* and writes, whatever their order and whichever fail: its types, that a  *)
(* revision the store shows is real, that a listed command was written,    *)
(* that commands with one id show one revision, and that the bridge does   *)
(* not take its own tracks and alerts for operators' input.                *)
(***************************************************************************)
EXTENDS OperatorWrites, FiniteSetTheorems, TLAPS

Targets == {r.target : r \in Requests}

\* An operation under way has an entity, a number and, once it has come that
\* far, a revision under which the graph has it.
JobFacts ==
    \A g \in Goroutines :
        /\ job[g].pc # "idle" =>
              /\ job[g].entity \in Entities /\ job[g].n \in 1..MaxBegun
              /\ g \in Submitters => /\ job[g].entity \in CommandEntities
                                     /\ job[g].target \in Targets
        /\ job[g].pc \in {"wrote", "added"} =>
              /\ job[g].revision \in 1..Len(written)
              /\ written[job[g].revision] = <<job[g].entity, job[g].n>>

\* A revision shown for an entity is none, or one of its writes'.
Real(e, revision) ==
    revision # 0 => revision \in 1..Len(written) /\ written[revision][1] = e

ViewsReal == \A e \in CopEntities : views[e] # None => Real(e, views[e].revision)

CommandsReal ==
    \A i \in 1..Len(commands) : /\ Real(commands[i].entity, commands[i].revision)
                                /\ Contains(written, <<commands[i].entity, commands[i].n>>)

\* Twins that differ in revision are about to be given one.
TwinsMeet ==
    \A i, j \in 1..Len(commands) :
        commands[i].entity = commands[j].entity /\ commands[i].revision # commands[j].revision
            => \E g \in Submitters : job[g].pc = "added" /\ job[g].entity = commands[i].entity

IInv == TypeOK /\ JobFacts /\ ViewsReal /\ CommandsReal /\ TwinsMeet

Command == [entity : CommandEntities, n : 1..MaxBegun, target : Targets, revision : Nat]
Job == [pc : {"idle", "writing", "wrote", "added"}, entity : Entities \cup {None},
        n : 0..MaxBegun, target : Targets \cup {None}, revision : Nat]

-----------------------------------------------------------------------------
\* The two conversions of the wire leave the UID and the type of an event.
LEMMA WireKeeps ==
    ASSUME NEW ev, NEW x, {"uid", "type", "chat", "remarks"} \subseteq DOMAIN ev
    PROVE  /\ DOMAIN [ev EXCEPT !.remarks = x] = DOMAIN ev
           /\ [ev EXCEPT !.remarks = x].type = ev.type
           /\ [ev EXCEPT !.chat = x].type = ev.type
           /\ [ev EXCEPT !.chat = x].uid = ev.uid
OBVIOUS

\* What is heard is a COP entity with a UID of an operator's: an event of the
\* bridge's own keeps its type on the wire, and that type is ignored.
LEMMA HeardFacts ==
    ASSUME NEW k \in Carriers, NEW e \in Heard[k]
    PROVE  e \in CopEntities /\ e[2] \in Uids /\ e[2] \in Carries[k]
<1>1. PICK i \in Inputs(k) : /\ Valid(i) /\ KindOf(Unmarshal(i)) \in Kinds
                             /\ e = CopEntity(Unmarshal(i))
  BY DEF Heard
<1>2. CASE i \in Sent
  <2>1. PICK ev \in EventsFromSnapshot : i = Marshal(ev)
    BY <1>2 DEF Sent
  <2>2. /\ ev.type \in {"air", "alert"}
        /\ {"uid", "type", "chat", "remarks"} \subseteq DOMAIN ev
    BY <2>1 DEF EventsFromSnapshot, Event
  <2>3. i.type = ev.type /\ DOMAIN i = DOMAIN ev
    BY Zenon, <2>1, <2>2, WireKeeps DEF Marshal
  <2>4. Unmarshal(i).type = ev.type
    BY Zenon, <2>2, <2>3, WireKeeps DEF Unmarshal
  <2>5. KindOf(Unmarshal(i)) = "ignored"
    BY <2>2, <2>4 DEF KindOf
  <2> QED BY <1>1, <2>5 DEF Kinds
<1>3. CASE i \notin Sent
  <2>1. i.uid \in Carries[k] \cup {None}
    BY <1>3 DEF Inputs
  <2>2. i.uid \in Uids /\ i.uid \in Carries[k]
    BY <1>1, <2>1, OperatorAssumption DEF Valid
  <2>3. {"uid", "type", "chat", "remarks"} \subseteq DOMAIN i
    BY <1>3 DEF Inputs
  <2>4. Unmarshal(i).uid = i.uid
    BY Zenon, <2>3, WireKeeps DEF Unmarshal
  <2> QED BY <1>1, <2>2, <2>4 DEF CopEntity, CopEntities
<1> QED BY <1>2, <1>3

\* Newest keeps the head of a list, up to its bound.
LEMMA NewestFacts ==
    ASSUME NEW S, NEW list \in Seq(S)
    PROVE  /\ Newest(list) \in Seq(S) /\ Len(Newest(list)) <= MaxCommands
           /\ Len(Newest(list)) <= Len(list)
           /\ \A i \in 1..Len(Newest(list)) : Newest(list)[i] = list[i]
<1>1. MaxCommands \in Nat /\ Len(list) \in Nat
  BY OperatorAssumption
<1>2. CASE Len(list) < MaxCommands
  BY <1>1, <1>2 DEF Newest
<1>3. CASE ~(Len(list) < MaxCommands)
  <2>1. Newest(list) = SubSeq(list, 1, MaxCommands)
    BY <1>3 DEF Newest
  <2>2. \A i \in 1..MaxCommands : list[i] \in S
    BY <1>1, <1>3
  <2> QED BY <1>1, <1>3, <2>1, <2>2
<1> QED BY <1>2, <1>3

\* A list with one more command in front.
LEMMA LongerFacts ==
    ASSUME NEW S, NEW list \in Seq(S), NEW c \in S
    PROVE  /\ <<c>> \o list \in Seq(S) /\ Len(<<c>> \o list) = Len(list) + 1
           /\ (<<c>> \o list)[1] = c
           /\ \A i \in 2..(Len(list) + 1) : (<<c>> \o list)[i] = list[i - 1]
OBVIOUS

\* One more write leaves the others their revisions.
LEMMA AppendFacts ==
    ASSUME NEW S, NEW list \in Seq(S), NEW w \in S
    PROVE  /\ Append(list, w) \in Seq(S) /\ Len(Append(list, w)) = Len(list) + 1
           /\ Append(list, w)[Len(list) + 1] = w
           /\ \A i \in 1..Len(list) : Append(list, w)[i] = list[i]
OBVIOUS

-----------------------------------------------------------------------------
LEMMA InitIInv == Init => IInv
<1> SUFFICES ASSUME Init PROVE IInv
  OBVIOUS
<1>1. \A g \in Goroutines : job[g] = Idle
  BY DEF Init
<1>2. TypeOK
  BY OperatorAssumption, <1>1 DEF Init, TypeOK, Idle
<1>3. JobFacts
  BY <1>1 DEF JobFacts, Idle
<1>4. ViewsReal /\ CommandsReal /\ TwinsMeet
  BY DEF Init, ViewsReal, CommandsReal, TwinsMeet
<1> QED BY <1>2, <1>3, <1>4 DEF IInv

\* One more write changes nothing for what already has a revision.
LEMMA Grow ==
    ASSUME TypeOK, NEW w \in Writes, written' = Append(written, w)
    PROVE  /\ written' \in Seq(Writes) /\ Len(written') = Len(written) + 1
           /\ Len(written) \in Nat /\ written'[Len(written')] = w
           /\ \A r \in 1..Len(written) : r \in 1..Len(written') /\ written'[r] = written[r]
           /\ \A x : Contains(written, x) => Contains(written', x)
<1>1. written \in Seq(Writes)
  BY DEF TypeOK
<1>2. /\ written' \in Seq(Writes) /\ Len(written') = Len(written) + 1
      /\ written'[Len(written) + 1] = w
      /\ \A r \in 1..Len(written) : written'[r] = written[r]
  BY <1>1, AppendFacts
<1>3. Len(written) \in Nat
  BY <1>1
<1> QED BY <1>2, <1>3 DEF Contains

\* A goroutine that begins an operation touches no command and no revision.
LEMMA BeginKeeps ==
    ASSUME IInv, NEW g \in Goroutines, NEW e \in Entities, NEW t \in Targets \cup {None},
           g \in Submitters => e \in CommandEntities /\ t \in Targets,
           Begin(g, e, t), UNCHANGED <<commands, written>>
    PROVE  /\ begun' \in 1..MaxBegun /\ job' \in [Goroutines -> Job]
           /\ JobFacts' /\ CommandsReal' /\ TwinsMeet'
<1> USE DEF IInv
<1>1. begun' \in 1..MaxBegun
  BY OperatorAssumption DEF TypeOK, Begin
<1> DEFINE new == [pc |-> "writing", entity |-> e, n |-> begun', target |-> t, revision |-> 0]
<1>2. job' = [job EXCEPT ![g] = new] /\ job[g] = Idle
  BY Zenon DEF Begin
<1>3. new \in Job
  BY <1>1, OperatorAssumption DEF Job
<1>4. job \in [Goroutines -> Job]
  BY Zenon DEF TypeOK, Job, Targets
<1>5. job' \in [Goroutines -> Job]
  BY <1>2, <1>3, <1>4
<1>6. job'[g] = new /\ \A h \in Goroutines \ {g} : job'[h] = job[h]
  BY <1>2, <1>4
<1>7. JobFacts'
  <2> SUFFICES ASSUME NEW h \in Goroutines
               PROVE  (/\ job[h].pc # "idle" =>
                            /\ job[h].entity \in Entities /\ job[h].n \in 1..MaxBegun
                            /\ h \in Submitters => /\ job[h].entity \in CommandEntities
                                                   /\ job[h].target \in Targets
                       /\ job[h].pc \in {"wrote", "added"} =>
                            /\ job[h].revision \in 1..Len(written)
                            /\ written[job[h].revision] = <<job[h].entity, job[h].n>>)'
    BY Zenon DEF JobFacts, Goroutines
  <2>1. CASE h = g
    BY <2>1, <1>1, <1>6
  <2>2. CASE h # g
    BY <2>2, <1>6 DEF JobFacts
  <2> QED BY <2>1, <2>2
<1>8. CommandsReal'
  BY DEF CommandsReal, Real, Begin
<1>9. TwinsMeet'
  <2> SUFFICES ASSUME NEW i \in 1..Len(commands), NEW j \in 1..Len(commands),
                      commands[i].entity = commands[j].entity,
                      commands[i].revision # commands[j].revision
               PROVE  \E h \in Submitters : /\ job'[h].pc = "added"
                                            /\ job'[h].entity = commands[i].entity
    BY DEF TwinsMeet
  <2>1. PICK h \in Submitters : job[h].pc = "added" /\ job[h].entity = commands[i].entity
    BY DEF TwinsMeet
  <2>2. h # g /\ h \in Goroutines
    BY <2>1, <1>2 DEF Idle, Goroutines
  <2> QED BY <2>1, <2>2, <1>6
<1> QED BY <1>1, <1>5, <1>7, <1>8, <1>9

\* A goroutine whose job moves on, or ends, keeps the others' facts: what is
\* left to show of JobFacts is about its own job.
LEMMA OneJob ==
    ASSUME IInv, NEW g \in Goroutines, NEW new \in Job, job' = [job EXCEPT ![g] = new],
           Len(written') \in Nat,
           \A r \in 1..Len(written) : r \in 1..Len(written') /\ written'[r] = written[r],
           new.pc # "idle" =>
              /\ new.entity \in Entities /\ new.n \in 1..MaxBegun
              /\ g \in Submitters => new.entity \in CommandEntities /\ new.target \in Targets,
           new.pc \in {"wrote", "added"} =>
              new.revision \in 1..Len(written') /\ written'[new.revision] = <<new.entity, new.n>>
    PROVE  /\ job' \in [Goroutines -> Job] /\ job'[g] = new
           /\ \A h \in Goroutines \ {g} : job'[h] = job[h]
           /\ JobFacts'
<1>1. job \in [Goroutines -> Job]
  BY Zenon DEF IInv, TypeOK, Job, Targets
<1>2. /\ job' \in [Goroutines -> Job] /\ job'[g] = new
      /\ \A h \in Goroutines \ {g} : job'[h] = job[h]
  BY <1>1
<1>3. ASSUME NEW h \in Goroutines
      PROVE  (/\ job[h].pc # "idle" =>
                   /\ job[h].entity \in Entities /\ job[h].n \in 1..MaxBegun
                   /\ h \in Submitters => /\ job[h].entity \in CommandEntities
                                          /\ job[h].target \in Targets
              /\ job[h].pc \in {"wrote", "added"} =>
                   /\ job[h].revision \in 1..Len(written)
                   /\ written[job[h].revision] = <<job[h].entity, job[h].n>>)'
  <2>1. CASE h = g
    BY <2>1, <1>2
  <2>2. CASE h # g
    BY <2>2, <1>2 DEF IInv, JobFacts
  <2> QED BY <2>1, <2>2
<1>4. JobFacts'
  BY <1>3, Zenon DEF JobFacts, Goroutines
<1> QED BY <1>2, <1>4

\* A job with another step is still a job.
LEMMA JobType ==
    ASSUME IInv, NEW g \in Goroutines
    PROVE  /\ job[g] \in Job /\ Idle \in Job
           /\ job[g].pc # "idle" => job[g].n \in 1..MaxBegun /\ job[g].entity \in Entities
<1>1. job \in [Goroutines -> Job]
  BY Zenon DEF IInv, TypeOK, Job, Targets
<1>2. Idle \in Job
  BY OperatorAssumption DEF Idle, Job
<1> QED BY <1>1, <1>2 DEF IInv, JobFacts

LEMMA WriteKeeps ==
    ASSUME IInv, NEW g \in Goroutines, Write(g)
    PROVE  IInv'
<1> USE DEF IInv
<1> DEFINE w == <<job[g].entity, job[g].n>>
           half == [job[g] EXCEPT !.pc = "wrote"]
           new == [half EXCEPT !.revision = Len(written')]
<1>1. /\ job[g].pc = "writing" /\ written' = Append(written, w)
      /\ job' = [job EXCEPT ![g] = new]
      /\ UNCHANGED <<now, begun, views, commands, counts, failed, late>>
  BY DEF Write
<1>2. job[g] \in Job /\ w \in Writes
  BY <1>1, JobType DEF Writes
<1>3. /\ written' \in Seq(Writes) /\ Len(written') = Len(written) + 1 /\ Len(written) \in Nat
      /\ written'[Len(written')] = w
      /\ \A r \in 1..Len(written) : r \in 1..Len(written') /\ written'[r] = written[r]
      /\ \A x : Contains(written, x) => Contains(written', x)
  BY <1>1, <1>2, Grow
<1>4. /\ new \in Job /\ new.pc = "wrote" /\ new.revision = Len(written')
      /\ new.entity = job[g].entity /\ new.n = job[g].n /\ new.target = job[g].target
  <2>1. /\ half \in Job /\ half.pc = "wrote" /\ half.entity = job[g].entity
        /\ half.n = job[g].n /\ half.target = job[g].target
    BY <1>2 DEF Job
  <2>2. Len(written') \in Nat
    BY <1>3
  <2> HIDE DEF half
  <2> QED BY <2>1, <2>2 DEF Job
<1> HIDE DEF new
<1>5. /\ job' \in [Goroutines -> Job] /\ job'[g] = new
      /\ \A h \in Goroutines \ {g} : job'[h] = job[h]
      /\ JobFacts'
  <2>1. new.pc # "idle" =>
           /\ new.entity \in Entities /\ new.n \in 1..MaxBegun
           /\ g \in Submitters => new.entity \in CommandEntities /\ new.target \in Targets
    BY <1>1, <1>4 DEF JobFacts
  <2>2. new.revision \in 1..Len(written') /\ written'[new.revision] = <<new.entity, new.n>>
    BY <1>3, <1>4
  <2>3. Len(written') \in Nat
    BY <1>3
  <2> QED BY <1>1, <1>3, <1>4, <2>1, <2>2, <2>3, OneJob
<1>6. TypeOK'
  BY <1>1, <1>3, <1>5, Zenon DEF TypeOK, Job, Targets
<1>7. ViewsReal'
  BY <1>1, <1>3 DEF ViewsReal, Real
<1>8. CommandsReal'
  BY <1>1, <1>3 DEF CommandsReal, Real
<1>9. TwinsMeet'
  BY <1>1, <1>5 DEF TwinsMeet, Goroutines
<1> QED BY <1>5, <1>6, <1>7, <1>8, <1>9

LEMMA WriteFailsKeeps ==
    ASSUME IInv, NEW g \in Goroutines, WriteFails(g)
    PROVE  IInv'
<1> USE DEF IInv
<1> DEFINE w == <<job[g].entity, job[g].n>>
<1>1. /\ job[g].pc = "writing" /\ job' = [job EXCEPT ![g] = Idle]
      /\ failed' = failed \cup {w} /\ late' \in {late, late \cup {w}}
      /\ counts' = IF g \in Carriers THEN [counts EXCEPT !.errors = @ + 1] ELSE counts
      /\ UNCHANGED <<now, begun, views, commands, written>>
  BY Zenon DEF WriteFails
<1>2. w \in Writes /\ Idle \in Job
  BY <1>1, JobType DEF Writes
<1>3. Len(written) \in Nat
  BY DEF TypeOK
<1>4. /\ job' \in [Goroutines -> Job] /\ job'[g] = Idle
      /\ \A h \in Goroutines \ {g} : job'[h] = job[h]
      /\ JobFacts'
  <2>1. Idle.pc = "idle"
    BY DEF Idle
  <2> QED BY <1>1, <1>2, <1>3, <2>1, OneJob
<1>5. TypeOK'
  <2>1. counts' \in [projected : Nat, writes : Nat, errors : Nat]
    <3>1. counts \in [projected : Nat, writes : Nat, errors : Nat]
      BY DEF TypeOK
    <3>2. CASE g \in Carriers
      BY <1>1, <3>1, <3>2
    <3>3. CASE g \notin Carriers
      BY <1>1, <3>1, <3>3
    <3> QED BY <3>2, <3>3
  <2>2. failed' \subseteq Writes /\ late' \subseteq failed'
    BY <1>1, <1>2 DEF TypeOK
  <2> QED BY <1>1, <1>4, <2>1, <2>2, Zenon DEF TypeOK, Job, Targets
<1>6. ViewsReal' /\ CommandsReal'
  BY <1>1 DEF ViewsReal, CommandsReal, Real
<1>7. TwinsMeet'
  BY <1>1, <1>4 DEF TwinsMeet, Goroutines
<1> QED BY <1>4, <1>5, <1>6, <1>7

LEMMA LateWriteKeeps ==
    ASSUME IInv, NEW w \in late, LateWrite(w)
    PROVE  IInv'
<1> USE DEF IInv
<1>1. /\ late' = late \ {w} /\ written' = Append(written, w)
      /\ UNCHANGED <<now, begun, job, views, commands, counts, failed>>
  BY DEF LateWrite
<1>2. w \in Writes
  BY DEF TypeOK
<1>3. /\ written' \in Seq(Writes) /\ Len(written) \in Nat /\ Len(written') = Len(written) + 1
      /\ \A r \in 1..Len(written) : r \in 1..Len(written') /\ written'[r] = written[r]
      /\ \A x : Contains(written, x) => Contains(written', x)
  BY <1>1, <1>2, Grow
<1>4. TypeOK'
  <2>1. late' \subseteq failed'
    BY <1>1 DEF TypeOK
  <2> QED BY <1>1, <1>3, <2>1, Zenon DEF TypeOK
<1>5. JobFacts'
  BY <1>1, <1>3 DEF JobFacts
<1>6. ViewsReal' /\ CommandsReal'
  BY <1>1, <1>3 DEF ViewsReal, CommandsReal, Real
<1>7. TwinsMeet'
  BY <1>1 DEF TwinsMeet
<1> QED BY <1>4, <1>5, <1>6, <1>7

LEMMA ReceiveKeeps ==
    ASSUME IInv, NEW k \in Carriers, NEW e \in Heard[k], Receive(k, e)
    PROVE  IInv'
<1> USE DEF IInv
<1> DEFINE new == ViewFromPayload(begun')
           shown == IF views[e] = None THEN new ELSE [new EXCEPT !.revision = views[e].revision]
<1>1. /\ Begin(k, e, None) /\ views' = [views EXCEPT ![e] = shown]
      /\ counts' = [counts EXCEPT !.projected = @ + 1]
      /\ UNCHANGED <<now, commands, written, failed, late>>
  BY Zenon DEF Receive, ApplyCOPView, graphVars
<1>2. e \in CopEntities /\ k \notin Submitters /\ k \in Goroutines /\ e \in Entities
  BY HeardFacts, OperatorAssumption DEF Goroutines, Entities
<1>3. begun' \in 1..MaxBegun /\ job' \in [Goroutines -> Job] /\ JobFacts' /\ CommandsReal' /\ TwinsMeet'
  BY <1>1, <1>2, BeginKeeps
<1>4. views \in [CopEntities -> {None} \cup [n : 1..MaxBegun, revision : Nat]]
  BY DEF TypeOK
<1>5. shown \in [n : 1..MaxBegun, revision : Nat]
  BY <1>2, <1>3, <1>4 DEF ViewFromPayload
<1>6. \/ shown.revision = 0
      \/ views[e] # None /\ shown.revision = views[e].revision
  BY <1>2, <1>3, <1>4 DEF ViewFromPayload
<1> HIDE DEF shown
<1>7. TypeOK'
  <2>1. counts' \in [projected : Nat, writes : Nat, errors : Nat]
    <3>1. counts \in [projected : Nat, writes : Nat, errors : Nat]
      BY DEF TypeOK
    <3> QED BY <1>1, <3>1
  <2>2. views' \in [CopEntities -> {None} \cup [n : 1..MaxBegun, revision : Nat]]
    BY <1>1, <1>4, <1>5
  <2>3. begun' \in 0..MaxBegun
    BY <1>3
  <2> QED BY <1>1, <1>3, <2>1, <2>2, <2>3, Zenon DEF TypeOK, Job, Targets
<1>8. ViewsReal'
  BY <1>1, <1>2, <1>4, <1>6 DEF ViewsReal, Real
<1> QED BY <1>3, <1>7, <1>8

LEMMA SubmitKeeps ==
    ASSUME IInv, NEW g \in Submitters, NEW r \in Requests, Submit(g, r)
    PROVE  IInv'
<1> USE DEF IInv
<1>1. /\ Begin(g, CommandEntity(r, now), r.target)
      /\ UNCHANGED <<now, views, commands, counts, written, failed, late>>
  BY Zenon DEF Submit, graphVars
<1>2. g \in Goroutines /\ r.target \in Targets
  BY DEF Goroutines, Targets
<1>3. CommandEntity(r, now) \in CommandEntities
  BY DEF TypeOK, CommandEntities
<1>4. begun' \in 1..MaxBegun /\ job' \in [Goroutines -> Job] /\ JobFacts' /\ CommandsReal' /\ TwinsMeet'
  BY <1>1, <1>2, <1>3, BeginKeeps DEF Entities
<1>5. begun' \in 0..MaxBegun
  BY <1>4
<1>6. TypeOK'
  BY <1>1, <1>4, <1>5, Zenon DEF TypeOK, Job, Targets
<1>7. ViewsReal'
  BY <1>1 DEF ViewsReal, Real
<1> QED BY <1>4, <1>6, <1>7

LEMMA AddCommandKeeps ==
    ASSUME IInv, NEW g \in Goroutines, AddCommand(g)
    PROVE  IInv'
<1> USE DEF IInv
<1> DEFINE c == [entity |-> job[g].entity, n |-> job[g].n, target |-> job[g].target,
                 revision |-> job[g].revision]
           new == [job[g] EXCEPT !.pc = "added"]
<1>1. /\ g \in Submitters /\ job[g].pc = "wrote" /\ commands' = Newest(<<c>> \o commands)
      /\ job' = [job EXCEPT ![g] = new]
      /\ UNCHANGED <<now, begun, views, counts, written, failed, late>>
  BY Zenon DEF AddCommand, graphVars
<1>2. /\ job[g].revision \in 1..Len(written)
      /\ written[job[g].revision] = <<job[g].entity, job[g].n>>
      /\ job[g].entity \in CommandEntities /\ job[g].target \in Targets
      /\ job[g].n \in 1..MaxBegun /\ job[g].entity \in Entities /\ job[g] \in Job
  BY <1>1, JobType DEF JobFacts
<1>3. c \in Command
  BY <1>2 DEF Command
<1>4. /\ new \in Job /\ new.pc = "added" /\ new.entity = job[g].entity /\ new.n = job[g].n
      /\ new.target = job[g].target /\ new.revision = job[g].revision
  BY <1>2 DEF Job
<1>5. c.entity = job[g].entity /\ c.n = job[g].n /\ c.revision = job[g].revision
  OBVIOUS
<1> HIDE DEF new, c
<1>6. Len(written) \in Nat /\ commands \in Seq(Command) /\ Len(commands) \in Nat
  BY DEF TypeOK, Command, Targets
<1>7. /\ job' \in [Goroutines -> Job] /\ job'[g] = new
      /\ \A h \in Goroutines \ {g} : job'[h] = job[h]
      /\ JobFacts'
  BY <1>1, <1>2, <1>4, <1>6, OneJob
<1> DEFINE longer == <<c>> \o commands
<1>8. /\ longer \in Seq(Command) /\ Len(longer) = Len(commands) + 1 /\ longer[1] = c
      /\ \A i \in 2..(Len(commands) + 1) : longer[i] = commands[i - 1]
  BY <1>3, <1>6, LongerFacts
<1> HIDE DEF longer
<1>9. /\ commands' \in Seq(Command) /\ Len(commands') <= MaxCommands /\ Len(commands') \in Nat
      /\ \A i \in 1..Len(commands') :
            \/ commands'[i] = c
            \/ \E h \in 1..Len(commands) : commands'[i] = commands[h]
  <2>1. commands' = Newest(longer)
    BY <1>1 DEF longer
  <2>2. /\ commands' \in Seq(Command) /\ Len(commands') <= MaxCommands
        /\ Len(commands') <= Len(longer)
        /\ \A i \in 1..Len(commands') : commands'[i] = longer[i]
    BY <1>8, <2>1, NewestFacts
  <2>3. Len(commands') \in Nat
    BY <2>2
  <2>4. ASSUME NEW i \in 1..Len(commands')
        PROVE  \/ commands'[i] = c
               \/ \E h \in 1..Len(commands) : commands'[i] = commands[h]
    <3>1. CASE i = 1
      BY <1>8, <2>2, <3>1
    <3>2. CASE i # 1
      <4>1. i - 1 \in 1..Len(commands) /\ i \in 2..(Len(commands) + 1)
        BY <1>6, <1>8, <2>2, <2>3, <3>2
      <4> QED BY <1>8, <2>2, <4>1
    <3> QED BY <3>1, <3>2
  <2> QED BY <2>2, <2>3, <2>4
<1>10. TypeOK'
  BY <1>1, <1>7, <1>9, Zenon DEF TypeOK, Job, Targets, Command
<1>11. ViewsReal'
  BY <1>1 DEF ViewsReal, Real
<1>12. CommandsReal'
  <2> SUFFICES ASSUME NEW i \in 1..Len(commands')
               PROVE  /\ Real(commands[i].entity, commands[i].revision)'
                      /\ Contains(written', <<commands'[i].entity, commands'[i].n>>)
    BY Zenon DEF CommandsReal
  <2>1. CASE commands'[i] = c
    <3>1. /\ commands'[i].entity = job[g].entity /\ commands'[i].n = job[g].n
          /\ commands'[i].revision = job[g].revision /\ written' = written
      BY <1>1, <1>5, <2>1
    <3>2. Contains(written, <<job[g].entity, job[g].n>>)
      BY <1>2 DEF Contains
    <3>3. written[job[g].revision][1] = job[g].entity
      BY <1>2
    <3> QED BY <1>2, <3>1, <3>2, <3>3 DEF Real
  <2>2. CASE \E h \in 1..Len(commands) : commands'[i] = commands[h]
    BY <1>1, <2>2 DEF CommandsReal, Real
  <2> QED BY <1>9, <2>1, <2>2
<1>13. TwinsMeet'
  <2> SUFFICES ASSUME NEW i \in 1..Len(commands'), NEW j \in 1..Len(commands'),
                      commands'[i].entity = commands'[j].entity,
                      commands'[i].revision # commands'[j].revision
               PROVE  \E h \in Submitters : /\ job'[h].pc = "added"
                                            /\ job'[h].entity = commands'[i].entity
    BY Zenon DEF TwinsMeet
  <2>1. CASE commands'[i] = c \/ commands'[j] = c
    BY <1>1, <1>4, <1>5, <1>7, <2>1
  <2>2. CASE commands'[i] # c /\ commands'[j] # c
    <3>1. PICK p \in 1..Len(commands) : commands'[i] = commands[p]
      BY <1>9, <2>2
    <3>2. PICK q \in 1..Len(commands) : commands'[j] = commands[q]
      BY <1>9, <2>2
    <3>3. PICK h \in Submitters : job[h].pc = "added" /\ job[h].entity = commands[p].entity
      BY <3>1, <3>2 DEF TwinsMeet
    <3>4. h # g /\ h \in Goroutines
      BY <1>1, <3>3 DEF Goroutines
    <3> QED BY <1>7, <3>1, <3>3, <3>4
  <2> QED BY <2>1, <2>2
<1> QED BY <1>7, <1>10, <1>11, <1>12, <1>13

\* All that has the entity's id is given the revision, and nothing else.
LEMMA RevisedFacts ==
    ASSUME TypeOK, NEW e, NEW rev \in Nat
    PROVE  /\ RevisedCommands(e, rev) \in Seq(Command)
           /\ Len(RevisedCommands(e, rev)) = Len(commands)
           /\ \A i \in 1..Len(commands) :
                 /\ RevisedCommands(e, rev)[i].entity = commands[i].entity
                 /\ RevisedCommands(e, rev)[i].n = commands[i].n
                 /\ RevisedCommands(e, rev)[i].revision =
                       IF commands[i].entity = e THEN rev ELSE commands[i].revision
           /\ RevisedViews(e, rev) \in [CopEntities -> {None} \cup [n : 1..MaxBegun, revision : Nat]]
           /\ \A x \in CopEntities : RevisedViews(e, rev)[x] # None =>
                 /\ views[x] # None /\ RevisedViews(e, rev)[x].n = views[x].n
                 /\ RevisedViews(e, rev)[x].revision = IF x = e THEN rev ELSE views[x].revision
<1>1. commands \in Seq(Command) /\ Len(commands) \in Nat /\ DOMAIN commands = 1..Len(commands)
  BY DEF TypeOK, Command, Targets
<1> DEFINE one(c) == IF c.entity = e THEN [c EXCEPT !.revision = rev] ELSE c
<1>2. ASSUME NEW c \in Command
      PROVE  /\ one(c) \in Command /\ one(c).entity = c.entity /\ one(c).n = c.n
             /\ one(c).revision = IF c.entity = e THEN rev ELSE c.revision
  BY DEF Command
<1>3. RevisedCommands(e, rev) = [i \in 1..Len(commands) |-> one(commands[i])]
  BY <1>1 DEF RevisedCommands
<1>4. \A i \in 1..Len(commands) : commands[i] \in Command
  BY <1>1
<1> HIDE DEF one
<1>5. /\ RevisedCommands(e, rev) \in Seq(Command)
      /\ Len(RevisedCommands(e, rev)) = Len(commands)
      /\ \A i \in 1..Len(commands) : RevisedCommands(e, rev)[i] = one(commands[i])
  BY <1>1, <1>2, <1>3, <1>4
<1>6. views \in [CopEntities -> {None} \cup [n : 1..MaxBegun, revision : Nat]]
  BY DEF TypeOK
<1>7. ASSUME NEW x \in CopEntities, views[x] # None
      PROVE  /\ [views[x] EXCEPT !.revision = rev] \in [n : 1..MaxBegun, revision : Nat]
             /\ [views[x] EXCEPT !.revision = rev].revision = rev
             /\ [views[x] EXCEPT !.revision = rev].n = views[x].n
             /\ views[x] \in [n : 1..MaxBegun, revision : Nat]
  BY <1>6, <1>7
<1>8. RevisedViews(e, rev) \in [CopEntities -> {None} \cup [n : 1..MaxBegun, revision : Nat]]
  BY <1>6, <1>7 DEF RevisedViews
<1>9. ASSUME NEW x \in CopEntities, RevisedViews(e, rev)[x] # None
      PROVE  /\ views[x] # None /\ RevisedViews(e, rev)[x].n = views[x].n
             /\ RevisedViews(e, rev)[x].revision = IF x = e THEN rev ELSE views[x].revision
  <2>1. RevisedViews(e, rev)[x] = IF views[x] # None /\ x = e
                                  THEN [views[x] EXCEPT !.revision = rev] ELSE views[x]
    BY DEF RevisedViews
  <2> QED BY <1>7, <1>9, <2>1
<1> QED BY <1>2, <1>4, <1>5, <1>8, <1>9

LEMMA RecordKeeps ==
    ASSUME IInv, NEW g \in Goroutines, RecordGraphWrite(g)
    PROVE  IInv'
<1> USE DEF IInv
<1> DEFINE e == job[g].entity
           rev == job[g].revision
<1>1. /\ job[g].pc \in {"wrote", "added"} /\ job' = [job EXCEPT ![g] = Idle]
      /\ counts' = [counts EXCEPT !.writes = @ + 1]
      /\ views' = RevisedViews(e, rev) /\ commands' = RevisedCommands(e, rev)
      /\ UNCHANGED <<now, begun, written, failed, late>>
  BY Zenon DEF RecordGraphWrite, graphVars
<1>2. /\ rev \in 1..Len(written) /\ written[rev][1] = e /\ rev \in Nat
      /\ Len(written) \in Nat /\ Len(commands) \in Nat /\ Idle \in Job
  BY <1>1, JobType DEF JobFacts, TypeOK
<1> HIDE DEF e, rev
<1>3. /\ commands' \in Seq(Command) /\ Len(commands') = Len(commands)
      /\ \A i \in 1..Len(commands) :
            /\ commands'[i].entity = commands[i].entity /\ commands'[i].n = commands[i].n
            /\ commands'[i].revision = IF commands[i].entity = e THEN rev ELSE commands[i].revision
      /\ views' \in [CopEntities -> {None} \cup [n : 1..MaxBegun, revision : Nat]]
      /\ \A x \in CopEntities : views'[x] # None =>
            /\ views[x] # None
            /\ views'[x].revision = IF x = e THEN rev ELSE views[x].revision
  BY <1>1, <1>2, RevisedFacts
<1>4. /\ job' \in [Goroutines -> Job] /\ job'[g] = Idle
      /\ \A h \in Goroutines \ {g} : job'[h] = job[h]
      /\ JobFacts'
  <2>1. Idle.pc = "idle"
    BY DEF Idle
  <2> QED BY <1>1, <1>2, <2>1, OneJob
<1>5. TypeOK'
  <2>1. counts' \in [projected : Nat, writes : Nat, errors : Nat]
    <3>1. counts \in [projected : Nat, writes : Nat, errors : Nat]
      BY DEF TypeOK
    <3> QED BY <1>1, <3>1
  <2>2. Len(commands') <= MaxCommands
    BY <1>3 DEF TypeOK
  <2> QED BY <1>1, <1>3, <1>4, <2>1, <2>2, Zenon DEF TypeOK, Job, Targets, Command
<1>6. ViewsReal'
  BY <1>1, <1>2, <1>3 DEF ViewsReal, Real
<1>7. CommandsReal'
  BY <1>1, <1>2, <1>3 DEF CommandsReal, Real
<1>8. TwinsMeet'
  <2> SUFFICES ASSUME NEW i \in 1..Len(commands), NEW j \in 1..Len(commands),
                      commands'[i].entity = commands'[j].entity,
                      commands'[i].revision # commands'[j].revision
               PROVE  \E h \in Submitters : /\ job'[h].pc = "added"
                                            /\ job'[h].entity = commands'[i].entity
    BY <1>3, Zenon DEF TwinsMeet
  <2>1. /\ commands[i].entity = commands[j].entity /\ commands[i].entity # e
        /\ commands[i].revision # commands[j].revision
    BY <1>3
  <2>2. PICK h \in Submitters : job[h].pc = "added" /\ job[h].entity = commands[i].entity
    BY <2>1 DEF TwinsMeet
  <2>3. h # g /\ h \in Goroutines
    BY <2>1, <2>2 DEF e, Goroutines
  <2> QED BY <1>3, <1>4, <2>2, <2>3
<1> QED BY <1>4, <1>5, <1>6, <1>7, <1>8

LEMMA NextIInv == IInv /\ [Next]_vars => IInv'
<1> SUFFICES ASSUME IInv, [Next]_vars PROVE IInv'
  OBVIOUS
<1>1. CASE Tick
  <2>1. /\ now' \in 0..MaxTime
        /\ UNCHANGED <<begun, job, views, commands, counts, written, failed, late>>
    BY <1>1, OperatorAssumption DEF Tick, graphVars, IInv, TypeOK
  <2>2. TypeOK'
    BY <2>1, Zenon DEF IInv, TypeOK
  <2>3. JobFacts' /\ ViewsReal' /\ CommandsReal' /\ TwinsMeet'
    BY <2>1 DEF IInv, JobFacts, ViewsReal, CommandsReal, TwinsMeet, Real
  <2> QED BY <2>2, <2>3 DEF IInv
<1>2. CASE \E k \in Carriers : \E e \in Heard[k] : Receive(k, e)
  BY <1>2, ReceiveKeeps
<1>3. CASE \E g \in Submitters, r \in Requests : Submit(g, r)
  BY <1>3, SubmitKeeps
<1>4. CASE \E g \in Goroutines : \/ Write(g) \/ WriteFails(g)
                                 \/ AddCommand(g) \/ RecordGraphWrite(g)
  BY <1>4, WriteKeeps, WriteFailsKeeps, AddCommandKeeps, RecordKeeps
<1>5. CASE \E w \in late : LateWrite(w)
  BY <1>5, LateWriteKeeps
<1>6. CASE UNCHANGED vars
  <2>1. UNCHANGED <<now, begun, job, views, commands, counts, written, failed, late>>
    BY <1>6 DEF vars
  <2>2. TypeOK'
    BY <2>1, Zenon DEF IInv, TypeOK
  <2>3. JobFacts' /\ ViewsReal' /\ CommandsReal' /\ TwinsMeet'
    BY <2>1 DEF IInv, JobFacts, ViewsReal, CommandsReal, TwinsMeet, Real
  <2> QED BY <2>2, <2>3 DEF IInv
<1> QED BY <1>1, <1>2, <1>3, <1>4, <1>5, <1>6 DEF Next

LEMMA Invariance == Spec => []IInv
BY InitIInv, NextIInv, PTL DEF Spec

\* Operations, views, the command list and the graph keep their types.
THEOREM TypeCorrect == Spec => []TypeOK
<1>1. IInv => TypeOK
  BY DEF IInv
<1> QED BY <1>1, Invariance, PTL

\* A revision that the store shows is one the graph gave a write of that very
\* entity, whatever the order in which goroutines come back.
THEOREM RevisionsReal == Spec => []RevisionsAreReal
<1>1. IInv => RevisionsAreReal
  <2> SUFFICES ASSUME IInv PROVE RevisionsAreReal
    OBVIOUS
  <2>1. DOMAIN commands = 1..Len(commands)
    BY DEF IInv, TypeOK
  <2> QED BY <2>1 DEF IInv, RevisionsAreReal, ViewsReal, CommandsReal, Real
<1> QED BY <1>1, Invariance, PTL

\* A command is on the list only once the graph has it.
THEOREM ListedWritten == Spec => []ListedAreWritten
<1>1. IInv => ListedAreWritten
  <2> SUFFICES ASSUME IInv PROVE ListedAreWritten
    OBVIOUS
  <2>1. DOMAIN commands = 1..Len(commands)
    BY DEF IInv, TypeOK
  <2> QED BY <2>1 DEF IInv, ListedAreWritten, CommandsReal
<1> QED BY <1>1, Invariance, PTL

\* Commands that share an id show one revision once no request is under way.
THEOREM TwinsShowOneRevision == Spec => []TwinsAgree
<1>1. IInv => TwinsAgree
  <2> SUFFICES ASSUME IInv, Busy \cap Submitters = {},
                      NEW i \in DOMAIN commands, NEW j \in DOMAIN commands,
                      commands[i].entity = commands[j].entity,
                      commands[i].revision # commands[j].revision
               PROVE  FALSE
    BY Zenon DEF TwinsAgree
  <2>1. DOMAIN commands = 1..Len(commands)
    BY DEF IInv, TypeOK
  <2>2. PICK g \in Submitters : job[g].pc = "added"
    BY <2>1 DEF IInv, TwinsMeet
  <2>3. g \in Busy
    BY <2>2 DEF Busy, Idle, Goroutines
  <2> QED BY <2>3
<1> QED BY <1>1, Invariance, PTL

-----------------------------------------------------------------------------
(* What one connection alone brings. The revision of an entity's last write *)
(* is named without a choice.                                              *)

IsLatest(list, e, r) ==
    /\ r \in 1..Len(list) /\ list[r][1] = e
    /\ \A q \in 1..Len(list) : list[q][1] = e => q <= r

\* A reader works on what it hears.
ReadersHear ==
    \A k \in Carriers : job[k].pc # "idle" => job[k].entity \in Heard[k] /\ job[k].pc # "added"

\* Only operators' UIDs become views.
OnlyUids == \A e \in CopEntities : e[2] \notin Uids => views[e] = None

\* The reader k is the only one to write e, and no write of it failed.
Alone(k, e) ==
    /\ e[2] \in Carries[k] /\ OneCarrier(e[2])
    /\ \A w \in failed : w[1] # e
    /\ views[e] # None

\* The view of e is the last write of it; or the reader is about to write what
\* the view shows, or has, and is about to record the revision.
Settled(k, e) ==
    \/ /\ job[k].pc = "idle" \/ job[k].entity # e
       /\ IsLatest(written, e, views[e].revision)
       /\ written[views[e].revision] = <<e, views[e].n>>
    \/ job[k].pc = "writing" /\ job[k].entity = e /\ views[e].n = job[k].n
    \/ /\ job[k].pc = "wrote" /\ job[k].entity = e /\ views[e].n = job[k].n
       /\ IsLatest(written, e, job[k].revision)

Settles == \A k \in Carriers, e \in CopEntities : Alone(k, e) => Settled(k, e)

JInv == IInv /\ ReadersHear /\ OnlyUids /\ Settles

LEMMA OneReader ==
    ASSUME NEW k \in Carriers, NEW g \in Carriers, NEW u,
           OneCarrier(u), u \in Carries[k], u \in Carries[g]
    PROVE  g = k
<1> DEFINE S == {c \in Carriers : u \in Carries[c]}
<1>1. IsFiniteSet(S) /\ Cardinality(S) = 1
  BY OperatorAssumption, FS_Subset DEF OneCarrier
<1>2. PICK x : S = {x}
  BY <1>1, FS_Singleton
<1> QED BY <1>2

\* No goroutine but its reader works on an entity that one reader brings.
LEMMA Apart ==
    ASSUME IInv, ReadersHear, NEW k \in Carriers, NEW e \in CopEntities,
           OneCarrier(e[2]), e[2] \in Carries[k],
           NEW g \in Goroutines, g # k, job[g].pc # "idle"
    PROVE  job[g].entity # e
<1>1. CASE g \in Carriers
  <2>1. job[g].entity \in Heard[g]
    BY <1>1 DEF ReadersHear
  <2>2. job[g].entity[2] \in Carries[g]
    BY <1>1, <2>1, HeardFacts
  <2> QED BY <1>1, <2>2, OneReader
<1>2. CASE g \notin Carriers
  <2>1. job[g].entity \in CommandEntities
    BY <1>2 DEF IInv, JobFacts, Goroutines
  <2>2. PICK a, b, c : job[g].entity = <<a, b, c>>
    BY <2>1 DEF CommandEntities, CommandEntity
  <2>3. PICK x, y : e = <<x, y>>
    BY DEF CopEntities
  <2>4. Len(<<a, b, c>>) = 3 /\ Len(<<x, y>>) = 2
    OBVIOUS
  <2> QED BY <2>2, <2>3, <2>4
<1> QED BY <1>1, <1>2

\* What leaves a reader, its view and the graph's writes of it alone leaves
\* them settled; so does a write of something else.
LEMMA SettledStays ==
    ASSUME IInv, Settles, NEW k \in Carriers, NEW e \in CopEntities, Alone(k, e)',
           failed \subseteq failed', views'[e] = views[e], job'[k] = job[k],
           \/ written' = written
           \/ \E w \in Writes : w[1] # e /\ written' = Append(written, w)
    PROVE  Settled(k, e)'
<1>1. Alone(k, e) /\ Settled(k, e)
  BY DEF Alone, Settles
<1>2. /\ \A r : IsLatest(written, e, r) => IsLatest(written', e, r)
      /\ \A r : IsLatest(written, e, r) => written'[r] = written[r]
  <2>1. CASE written' = written
    BY <2>1 DEF IsLatest
  <2>2. CASE \E w \in Writes : w[1] # e /\ written' = Append(written, w)
    <3>1. PICK w \in Writes : w[1] # e /\ written' = Append(written, w)
      BY <2>2
    <3>2. /\ Len(written') = Len(written) + 1 /\ Len(written) \in Nat /\ written'[Len(written')] = w
          /\ \A r \in 1..Len(written) : r \in 1..Len(written') /\ written'[r] = written[r]
      BY <3>1, Grow DEF IInv
    <3> QED BY <3>1, <3>2 DEF IsLatest
  <2> QED BY <2>1, <2>2
<1>3. CASE /\ job[k].pc = "idle" \/ job[k].entity # e
           /\ IsLatest(written, e, views[e].revision)
           /\ written[views[e].revision] = <<e, views[e].n>>
  <2>1. IsLatest(written', e, views'[e].revision)
    BY <1>2, <1>3
  <2>2. written'[views'[e].revision] = <<e, views'[e].n>>
    BY <1>2, <1>3
  <2> QED BY <1>3, <2>1, <2>2 DEF Settled
<1>4. CASE job[k].pc = "writing" /\ job[k].entity = e /\ views[e].n = job[k].n
  BY <1>4 DEF Settled
<1>5. CASE /\ job[k].pc = "wrote" /\ job[k].entity = e /\ views[e].n = job[k].n
           /\ IsLatest(written, e, job[k].revision)
  <2>1. IsLatest(written', e, job'[k].revision)
    BY <1>2, <1>5
  <2> QED BY <1>5, <2>1 DEF Settled
<1> QED BY <1>1, <1>3, <1>4, <1>5 DEF Settled

\* Two ways to be settled after a step.
LEMMA SettledByView ==
    ASSUME NEW k \in Carriers, NEW e \in CopEntities, NEW r,
           job'[k].pc = "idle" \/ job'[k].entity # e,
           IsLatest(written', e, r), views'[e].revision = r, written'[r] = <<e, views'[e].n>>
    PROVE  Settled(k, e)'
BY DEF Settled

LEMMA SettledByJob ==
    ASSUME NEW k \in Carriers, NEW e \in CopEntities, NEW r,
           job'[k].pc = "wrote", job'[k].entity = e, views'[e].n = job'[k].n,
           IsLatest(written', e, r), job'[k].revision = r
    PROVE  Settled(k, e)'
BY DEF Settled

LEMMA JReceive ==
    ASSUME JInv, NEW g \in Carriers, NEW x \in Heard[g], Receive(g, x)
    PROVE  ReadersHear' /\ OnlyUids' /\ Settles'
<1> USE DEF JInv
<1>1. /\ job[g] = Idle
      /\ job' = [job EXCEPT ![g] = [pc |-> "writing", entity |-> x, n |-> begun',
                                   target |-> None, revision |-> 0]]
      /\ UNCHANGED <<written, failed>>
  BY Zenon DEF Receive, Begin, graphVars
<1>2. job \in [Goroutines -> Job] /\ g \in Goroutines
  BY Zenon DEF IInv, TypeOK, Job, Targets, Goroutines
<1>3. /\ job'[g].pc = "writing" /\ job'[g].entity = x /\ job'[g].n = begun'
      /\ \A h \in Goroutines \ {g} : job'[h] = job[h]
  BY <1>1, <1>2
<1> DEFINE new == ViewFromPayload(begun')
           shown == IF views[x] = None THEN new ELSE [new EXCEPT !.revision = views[x].revision]
<1>4. views' = [views EXCEPT ![x] = shown] /\ shown.n = begun'
  BY DEF Receive, ApplyCOPView, ViewFromPayload
<1>5. x \in CopEntities /\ x[2] \in Uids /\ x[2] \in Carries[g]
  BY HeardFacts
<1> HIDE DEF shown
<1>6. views'[x] = shown /\ \A e \in CopEntities \ {x} : views'[e] = views[e]
  BY <1>4, <1>5 DEF IInv, TypeOK
<1>7. ReadersHear'
  BY <1>3 DEF ReadersHear, Goroutines
<1>8. OnlyUids'
  BY <1>5, <1>6 DEF OnlyUids
<1>9. ASSUME NEW k \in Carriers, NEW e \in CopEntities, Alone(k, e)'
      PROVE  Settled(k, e)'
  <2>1. CASE e = x
    <3>1. k = g
      BY <1>5, <1>9, <2>1, OneReader DEF Alone
    <3> QED BY <1>3, <1>4, <1>6, <2>1, <3>1 DEF Settled
  <2>2. CASE e # x /\ k # g
    BY <1>1, <1>3, <1>6, <1>9, <2>2, SettledStays DEF Goroutines
  <2>3. CASE e # x /\ k = g
    <3>1. Alone(k, e) /\ Settled(k, e)
      BY <1>1, <1>6, <1>9, <2>3 DEF Alone, Settles
    <3>2. IsLatest(written, e, views[e].revision) /\ written[views[e].revision] = <<e, views[e].n>>
      BY <1>1, <2>3, <3>1 DEF Settled, Idle
    <3>3. views'[e] = views[e] /\ job'[k].entity # e /\ written' = written
      BY <1>1, <1>3, <1>6, <2>3
    <3> DEFINE r == views[e].revision
    <3>4. IsLatest(written, e, r) /\ views'[e].revision = r /\ written'[r] = <<e, views'[e].n>>
      BY <3>2, <3>3
    <3>5. IsLatest(written', e, r)
      BY <3>3, <3>4
    <3> QED BY <3>3, <3>4, <3>5, SettledByView
  <2> QED BY <2>1, <2>2, <2>3
<1>10. Settles'
  BY <1>9, Zenon DEF Settles
<1> QED BY <1>7, <1>8, <1>10

LEMMA JWrite ==
    ASSUME JInv, NEW g \in Goroutines, Write(g)
    PROVE  ReadersHear' /\ OnlyUids' /\ Settles'
<1> USE DEF JInv
<1> DEFINE w == <<job[g].entity, job[g].n>>
           half == [job[g] EXCEPT !.pc = "wrote"]
           new == [half EXCEPT !.revision = Len(written')]
<1>1. /\ job[g].pc = "writing" /\ written' = Append(written, w)
      /\ job' = [job EXCEPT ![g] = new]
      /\ UNCHANGED <<now, begun, views, commands, counts, failed, late>>
  BY DEF Write
<1>2. job[g] \in Job /\ w \in Writes
  BY <1>1, JobType DEF Writes
<1>3. /\ Len(written') = Len(written) + 1 /\ Len(written) \in Nat /\ written'[Len(written')] = w
      /\ \A r \in 1..Len(written) : r \in 1..Len(written') /\ written'[r] = written[r]
  BY <1>1, <1>2, Grow DEF IInv
<1>4. /\ new.pc = "wrote" /\ new.revision = Len(written')
      /\ new.entity = job[g].entity /\ new.n = job[g].n
  <2>1. half \in Job /\ half.pc = "wrote" /\ half.entity = job[g].entity /\ half.n = job[g].n
    BY <1>2 DEF Job
  <2> HIDE DEF half
  <2> QED BY <2>1 DEF Job
<1> HIDE DEF new
<1>5. job'[g] = new /\ \A h \in Goroutines \ {g} : job'[h] = job[h]
  BY <1>1 DEF IInv, TypeOK
<1>6. ReadersHear'
  BY <1>1, <1>4, <1>5 DEF ReadersHear, Goroutines
<1>7. OnlyUids'
  BY <1>1 DEF OnlyUids
<1>8. ASSUME NEW k \in Carriers, NEW e \in CopEntities, Alone(k, e)'
      PROVE  Settled(k, e)'
  <2>1. Alone(k, e) /\ Settled(k, e)
    BY <1>1, <1>8 DEF Alone, Settles
  <2>2. CASE g # k
    <3>1. job[g].entity # e
      BY <1>1, <2>1, <2>2, Apart DEF Alone
    <3>2. w[1] # e /\ failed \subseteq failed' /\ views'[e] = views[e] /\ job'[k] = job[k]
      BY <1>1, <1>5, <2>2, <3>1 DEF Goroutines
    <3> QED BY <1>1, <1>2, <1>8, <3>2, SettledStays
  <2>3. CASE g = k /\ job[g].entity # e
    <3>1. IsLatest(written, e, views[e].revision) /\ written[views[e].revision] = <<e, views[e].n>>
      BY <2>1, <2>3 DEF Settled
    <3> DEFINE r == views[e].revision
    <3>2. w[1] # e
      BY <2>3
    <3>3. IsLatest(written', e, r) /\ written'[r] = written[r]
      BY <1>3, <3>1, <3>2 DEF IsLatest
    <3>4. views'[e].revision = r /\ written'[r] = <<e, views'[e].n>> /\ job'[k].entity # e
      BY <1>1, <1>4, <1>5, <2>3, <3>1, <3>3
    <3> QED BY <3>3, <3>4, SettledByView
  <2>4. CASE g = k /\ job[g].entity = e
    <3>1. views[e].n = job[k].n
      BY <1>1, <2>1, <2>4 DEF Settled
    <3> DEFINE r == Len(written')
    <3>2. w[1] = e /\ r \in Nat /\ r \in 1..Len(written') /\ written'[r] = w
      BY <1>3, <2>4
    <3>3. \A q \in 1..Len(written') : q <= r
      BY <3>2
    <3>4. IsLatest(written', e, r)
      BY <3>2, <3>3 DEF IsLatest
    <3>5. /\ job'[k].pc = "wrote" /\ job'[k].entity = e /\ views'[e].n = job'[k].n
          /\ job'[k].revision = r
      BY <1>1, <1>4, <1>5, <2>4, <3>1
    <3> HIDE DEF r
    <3> QED BY <3>4, <3>5, SettledByJob
  <2> QED BY <2>2, <2>3, <2>4
<1>9. Settles'
  BY <1>8, Zenon DEF Settles
<1> QED BY <1>6, <1>7, <1>9

LEMMA JWriteFails ==
    ASSUME JInv, NEW g \in Goroutines, WriteFails(g)
    PROVE  ReadersHear' /\ OnlyUids' /\ Settles'
<1> USE DEF JInv
<1> DEFINE w == <<job[g].entity, job[g].n>>
<1>1. /\ job[g].pc = "writing" /\ job' = [job EXCEPT ![g] = Idle]
      /\ failed' = failed \cup {w} /\ UNCHANGED <<views, written>>
  BY Zenon DEF WriteFails
<1>2. job'[g] = Idle /\ \A h \in Goroutines \ {g} : job'[h] = job[h]
  BY <1>1 DEF IInv, TypeOK
<1>3. ReadersHear'
  BY <1>1, <1>2 DEF ReadersHear, Goroutines, Idle
<1>4. OnlyUids'
  BY <1>1 DEF OnlyUids
<1>5. ASSUME NEW k \in Carriers, NEW e \in CopEntities, Alone(k, e)'
      PROVE  Settled(k, e)'
  <2>1. Alone(k, e) /\ Settled(k, e)
    BY <1>1, <1>5 DEF Alone, Settles
  <2>2. job[g].entity # e
    <3>1. w \in failed' /\ w[1] = job[g].entity
      BY <1>1
    <3> QED BY <1>5, <3>1 DEF Alone
  <2>3. CASE g # k
    BY <1>1, <1>2, <1>5, <2>3, SettledStays DEF Goroutines
  <2>4. CASE g = k
    <3>1. IsLatest(written, e, views[e].revision) /\ written[views[e].revision] = <<e, views[e].n>>
      BY <2>1, <2>2, <2>4 DEF Settled
    <3> DEFINE r == views[e].revision
    <3>2. IsLatest(written, e, r) /\ views'[e].revision = r /\ written'[r] = <<e, views'[e].n>>
      BY <1>1, <3>1
    <3>3. IsLatest(written', e, r) /\ job'[k].pc = "idle"
      BY <1>1, <1>2, <2>4, <3>2 DEF Idle
    <3> QED BY <3>2, <3>3, SettledByView
  <2> QED BY <2>3, <2>4
<1>6. Settles'
  BY <1>5, Zenon DEF Settles
<1> QED BY <1>3, <1>4, <1>6

LEMMA JRecord ==
    ASSUME JInv, NEW g \in Goroutines, RecordGraphWrite(g)
    PROVE  ReadersHear' /\ OnlyUids' /\ Settles'
<1> USE DEF JInv
<1> DEFINE x == job[g].entity
           rev == job[g].revision
<1>1. /\ job[g].pc \in {"wrote", "added"} /\ job' = [job EXCEPT ![g] = Idle]
      /\ job[g].pc = IF g \in Carriers THEN "wrote" ELSE "added"
      /\ views' = RevisedViews(x, rev) /\ UNCHANGED <<written, failed>>
  BY Zenon DEF RecordGraphWrite, graphVars
<1>2. /\ rev \in 1..Len(written) /\ written[rev] = <<x, job[g].n>> /\ rev \in Nat
      /\ written \in Seq(Writes)
  BY <1>1 DEF IInv, JobFacts, TypeOK
<1>3. \A e \in CopEntities : views'[e] # None =>
          /\ views[e] # None /\ views'[e].n = views[e].n
          /\ views'[e].revision = IF e = x THEN rev ELSE views[e].revision
  BY <1>1, <1>2, RevisedFacts DEF IInv
<1>4. job'[g] = Idle /\ \A h \in Goroutines \ {g} : job'[h] = job[h]
  BY <1>1 DEF IInv, TypeOK
<1>5. ReadersHear'
  BY <1>1, <1>4 DEF ReadersHear, Goroutines, Idle
<1>6. OnlyUids'
  BY <1>3 DEF OnlyUids
<1>7. ASSUME NEW k \in Carriers, NEW e \in CopEntities, Alone(k, e)'
      PROVE  Settled(k, e)'
  <2>1. Alone(k, e) /\ Settled(k, e)
    BY <1>1, <1>3, <1>7 DEF Alone, Settles
  <2>2. CASE x # e /\ k # g
    <3>1. /\ views'[e].n = views[e].n /\ views'[e].revision = views[e].revision
          /\ job'[k] = job[k]
      BY <1>3, <1>4, <1>7, <2>2 DEF Alone, Goroutines
    <3>2. CASE job[k].pc = "writing" /\ job[k].entity = e /\ views[e].n = job[k].n
      BY <3>1, <3>2 DEF Settled
    <3>3. CASE /\ job[k].pc = "wrote" /\ job[k].entity = e /\ views[e].n = job[k].n
               /\ IsLatest(written, e, job[k].revision)
      <4> DEFINE r == job[k].revision
      <4>1. IsLatest(written', e, r)
        BY <1>1, <3>3
      <4> QED BY <3>1, <3>3, <4>1, SettledByJob
    <3>4. CASE /\ job[k].pc = "idle" \/ job[k].entity # e
               /\ IsLatest(written, e, views[e].revision)
               /\ written[views[e].revision] = <<e, views[e].n>>
      <4> DEFINE r == views[e].revision
      <4>1. IsLatest(written', e, r)
        BY <1>1, <3>4
      <4>2. views'[e].revision = r /\ written'[r] = <<e, views'[e].n>>
        BY <1>1, <3>1, <3>4
      <4> QED BY <3>1, <3>4, <4>1, <4>2, SettledByView
    <3> QED BY <2>1, <3>2, <3>3, <3>4 DEF Settled
  <2>3. CASE x # e /\ k = g
    <3>1. views'[e].n = views[e].n /\ views'[e].revision = views[e].revision
      BY <1>3, <1>7, <2>3 DEF Alone
    <3>2. IsLatest(written, e, views[e].revision) /\ written[views[e].revision] = <<e, views[e].n>>
      BY <2>1, <2>3 DEF Settled
    <3> DEFINE r == views[e].revision
    <3>3. IsLatest(written', e, r) /\ views'[e].revision = r /\ written'[r] = <<e, views'[e].n>>
      BY <1>1, <3>1, <3>2
    <3>4. job'[k].pc = "idle"
      BY <1>4, <2>3 DEF Idle
    <3> QED BY <3>3, <3>4, SettledByView
  <2>4. CASE x = e
    <3>1. g = k
      BY <1>1, <2>1, <2>4, Apart DEF Alone
    <3>2. job[k].pc = "wrote"
      BY <1>1, <3>1
    <3>3. views[e].n = job[k].n /\ IsLatest(written, e, job[k].revision)
      BY <2>1, <2>4, <3>1, <3>2 DEF Settled
    <3>4. views'[e].revision = rev /\ views'[e].n = job[g].n
      BY <1>3, <1>7, <2>4, <3>1, <3>3 DEF Alone
    <3>5. IsLatest(written', e, rev) /\ written'[rev] = <<e, views'[e].n>>
      BY <1>1, <1>2, <2>4, <3>1, <3>3, <3>4
    <3>6. job'[k].pc = "idle"
      BY <1>4, <3>1 DEF Idle
    <3> QED BY <3>4, <3>5, <3>6, SettledByView
  <2> QED BY <2>2, <2>3, <2>4
<1>8. Settles'
  BY <1>7, Zenon DEF Settles
<1> QED BY <1>5, <1>6, <1>8

\* A step that changes the work of submitters and the time only.
LEMMA JOthers ==
    ASSUME JInv, UNCHANGED <<views, failed>>, \A k \in Carriers : job'[k] = job[k],
           \/ written' = written
           \/ \E w \in failed : w \in Writes /\ written' = Append(written, w)
    PROVE  ReadersHear' /\ OnlyUids' /\ Settles'
<1> USE DEF JInv
<1>1. ReadersHear' /\ OnlyUids'
  BY DEF ReadersHear, OnlyUids
<1>2. ASSUME NEW k \in Carriers, NEW e \in CopEntities, Alone(k, e)'
      PROVE  Settled(k, e)'
  <2>1. \A w \in failed : w[1] # e
    BY <1>2 DEF Alone
  <2>2. \/ written' = written
        \/ \E w \in Writes : w[1] # e /\ written' = Append(written, w)
    BY <2>1
  <2> QED BY <1>2, <2>2, SettledStays
<1>3. Settles'
  BY <1>2, Zenon DEF Settles
<1> QED BY <1>1, <1>3

LEMMA NextJInv == JInv /\ [Next]_vars => JInv'
<1> SUFFICES ASSUME JInv, [Next]_vars PROVE JInv'
  OBVIOUS
<1>1. IInv'
  BY NextIInv DEF JInv
<1>2. CASE \E k \in Carriers : \E e \in Heard[k] : Receive(k, e)
  BY <1>1, <1>2, JReceive DEF JInv
<1>3. CASE \E g \in Goroutines : Write(g) \/ WriteFails(g) \/ RecordGraphWrite(g)
  BY <1>1, <1>3, JWrite, JWriteFails, JRecord DEF JInv
<1>4. ASSUME Tick \/ UNCHANGED vars
      PROVE  UNCHANGED <<job, views, written, failed>>
  BY <1>4 DEF Tick, graphVars, vars
<1>5. ASSUME NEW g \in Submitters, NEW r \in Requests, Submit(g, r)
      PROVE  /\ UNCHANGED <<views, written, failed>>
             /\ \A k \in Carriers : job'[k] = job[k]
  <2>1. PICK new : job' = [job EXCEPT ![g] = new]
    BY <1>5, Zenon DEF Submit, Begin
  <2>2. UNCHANGED <<views, written, failed>>
    BY <1>5, Zenon DEF Submit, graphVars
  <2> QED BY <2>1, <2>2, OperatorAssumption DEF JInv, IInv, TypeOK, Goroutines
<1>6. ASSUME NEW g \in Goroutines, AddCommand(g)
      PROVE  /\ UNCHANGED <<views, written, failed>>
             /\ \A k \in Carriers : job'[k] = job[k]
  <2>1. g \in Submitters /\ job' = [job EXCEPT ![g].pc = "added"]
    BY <1>6, Zenon DEF AddCommand
  <2>2. UNCHANGED <<views, written, failed>>
    BY <1>6, Zenon DEF AddCommand, graphVars
  <2> QED BY <2>1, <2>2, OperatorAssumption DEF JInv, IInv, TypeOK, Goroutines
<1>7. ASSUME NEW w \in late, LateWrite(w)
      PROVE  /\ UNCHANGED <<job, views, failed>>
             /\ w \in failed /\ w \in Writes /\ written' = Append(written, w)
  BY <1>7 DEF LateWrite, JInv, IInv, TypeOK
<1>8. CASE Tick \/ UNCHANGED vars
  BY <1>1, <1>4, <1>8, JOthers DEF JInv
<1>9. CASE \E g \in Submitters, r \in Requests : Submit(g, r)
  BY <1>1, <1>5, <1>9, JOthers DEF JInv
<1>10. CASE \E g \in Goroutines : AddCommand(g)
  BY <1>1, <1>6, <1>10, JOthers DEF JInv
<1>11. CASE \E w \in late : LateWrite(w)
  BY <1>1, <1>7, <1>11, JOthers DEF JInv
<1> QED BY <1>2, <1>3, <1>8, <1>9, <1>10, <1>11 DEF Next

LEMMA StrongInvariance == Spec => []JInv
<1>1. Init => JInv
  <2> SUFFICES ASSUME Init PROVE JInv
    OBVIOUS
  <2>1. /\ \A k \in Carriers : job[k].pc = "idle"
        /\ \A e \in CopEntities : views[e] = None
    BY DEF Init, Idle, Goroutines
  <2>2. ReadersHear /\ OnlyUids /\ Settles
    BY <2>1 DEF ReadersHear, OnlyUids, Settles, Alone
  <2> QED BY <2>2, InitIInv DEF JInv
<1> QED BY <1>1, NextJInv, PTL DEF Spec

\* The bridge's own tracks and alerts, heard again, never become COP entities.
THEOREM OwnTrafficIsIgnored == Spec => []NoEcho
<1>1. JInv => NoEcho
  BY DEF JInv, OnlyUids, NoEcho
<1> QED BY <1>1, StrongInvariance, PTL

\* A UID heard over one connection, with no failed write and nothing under
\* way, is the same in the store and in the graph.
THEOREM OneConnectionAgrees == Spec => []StoreAgreesWithGraph
<1>1. JInv => StoreAgreesWithGraph
  <2> SUFFICES ASSUME JInv, NEW e \in CopEntities, OneCarrier(e[2]),
                      \A w \in failed : w[1] # e, \A g \in Busy : job[g].entity # e,
                      views[e] # None
               PROVE  /\ views[e].revision = LatestOf(e)
                      /\ written[LatestOf(e)] = <<e, views[e].n>>
    BY Zenon DEF StoreAgreesWithGraph
  <2>1. PICK k \in Carriers : e[2] \in Carries[k]
    <3> DEFINE S == {c \in Carriers : e[2] \in Carries[c]}
    <3>1. IsFiniteSet(S) /\ Cardinality(S) = 1
      BY OperatorAssumption, FS_Subset DEF OneCarrier
    <3>2. PICK x : S = {x}
      BY <3>1, FS_Singleton
    <3> QED BY <3>2
  <2>2. Settled(k, e)
    BY <2>1 DEF JInv, Settles, Alone
  <2>3. job[k].pc = "idle" \/ job[k].entity # e
    BY DEF Busy, Idle, Goroutines
  <2>4. IsLatest(written, e, views[e].revision) /\ written[views[e].revision] = <<e, views[e].n>>
    BY <2>2, <2>3 DEF Settled
  <2> DEFINE revisions == {r \in DOMAIN written : written[r][1] = e}
             r == views[e].revision
  <2>5. r \in revisions /\ \A q \in revisions : q <= r /\ q \in Nat
    <3>1. DOMAIN written = 1..Len(written)
      BY DEF JInv, IInv, TypeOK
    <3> QED BY <2>4, <3>1 DEF IsLatest
  <2>6. LatestOf(e) = CHOOSE p \in revisions : \A q \in revisions : q <= p
    BY <2>5 DEF LatestOf
  <2>7. LatestOf(e) \in revisions /\ \A q \in revisions : q <= LatestOf(e)
    BY <2>5, <2>6
  <2>8. LatestOf(e) = r
    <3> HIDE DEF revisions, r
    <3> QED BY <2>5, <2>7
  <2> QED BY <2>4, <2>8
<1> QED BY <1>1, StrongInvariance, PTL
=============================================================================
