-------------------------- MODULE CommandGateProofs --------------------------
(***************************************************************************)
(* What the command gate guarantees for every number of calls, every       *)
(* request and every setting: what is on the link was cleared, retries can *)
(* be told apart as long as attempts fit a byte, a command is left alone   *)
(* once it is taken, and an accepted call has heard an acceptance, by a    *)
(* vehicle that accepted a frame of this gate or answers another station.  *)
(***************************************************************************)
EXTENDS CommandGate, TLAPS

Running == {"send", "await", "poll"}

\* A call that came past Refusal: Check accepts its request, and it has a
\* target.
Cleared(c) == req[c] \in Requests /\ Check(req[c]) /\ req[c].target # None

\* Frames are sent by cleared calls, one for each attempt.
FramesCounted ==
    /\ \A c \in Calls : step[c] \in Running => Cleared(c)
    /\ \A c \in Calls : step[c] = "send" => Len(frames[c]) < req[c].attempts
    /\ \A c \in Calls : Len(frames[c]) > 0 => Cleared(c) /\ Len(frames[c]) <= req[c].attempts
    /\ \A c \in Calls : step[c] = "idle" => frames[c] = <<>> /\ acks[c] = <<>>
    /\ \A f \in flying : /\ step[f[1]] # "idle" /\ Cleared(f[1])
                         /\ f[2] \in 1..req[f[1]].attempts

\* Each frame carries the number of its attempt in confirmation and sequence.
FramesNumbered ==
    \A c \in Calls : \A i \in 1..Len(frames[c]) :
        /\ frames[c][i].confirmation = (i - 1) % Byte
        /\ frames[c][i].sequence = (req[c].sequence + ((i - 1) % Byte)) % Byte

\* A call has heard that its command was taken.
Taken(c) == \E i \in 1..Len(acks[c]) : Takes(acks[c][i])

\* A call that is to send or to wait has not, one that asks for the state
\* afterwards has, and what it heard comes from a vehicle that took a command.
TakenOnce ==
    /\ \A c \in Calls : step[c] \in {"send", "await"} => ~Taken(c)
    /\ \A c \in Calls : step[c] = "poll" \/ status[c] = "accepted" => Taken(c)
    /\ \A c \in Calls : \A i \in 1..Len(acks[c]) :
           Takes(acks[c][i]) => acks[c][i].source \in executed \cup foreign

IInv == TypeOK /\ FramesCounted /\ FramesNumbered /\ TakenOnce

-----------------------------------------------------------------------------
\* What Check promises of a request.
LEMMA CheckFacts ==
    ASSUME NEW r \in Requests, Check(r)
    PROVE  /\ r.attempts \in 1..MaxAttempts /\ r.attempts \in Nat
           /\ r.sequence \in 0..(Byte - 1)
<1>1. r.attempts \in 1..MaxAttempts
  BY Zenon DEF Check
<1>2. r.sequence \in 0..(Byte - 1)
  BY Zenon, RequestsAssumption
<1>3. MaxAttempts \in Nat
  BY SettingsAssumption
<1> QED BY <1>1, <1>2, <1>3

\* Only a request that Check accepts is not refused, and no refusal reads as
\* an acceptance.
LEMMA RefusalFacts ==
    ASSUME NEW r \in Requests
    PROVE  /\ Refusal(r) \in Statuses \cup {None}
           /\ Refusal(r) # "accepted"
           /\ Refusal(r) = None => Check(r) /\ r.target # None
<1>1. None # "accepted"
  BY SettingsAssumption DEF Statuses
<1>2. None \notin {"hardware-transmit-blocked", "preflight-rejected",
                   "transmit-unavailable", "invalid-target"}
  BY SettingsAssumption DEF Statuses
<1>3. \/ Refusal(r) = "hardware-transmit-blocked" \/ Refusal(r) = "preflight-rejected"
      \/ Refusal(r) = "transmit-unavailable" \/ Refusal(r) = "invalid-target"
      \/ Refusal(r) = None /\ Check(r) /\ r.target # None
  BY Zenon DEF Refusal
<1> QED BY <1>1, <1>2, <1>3 DEF Statuses

\* A frame's numbers are bytes.
LEMMA FrameType ==
    ASSUME NEW n \in Nat, NEW s \in 0..(Byte - 1)
    PROVE  /\ n % Byte \in 0..(Byte - 1)
           /\ (s + (n % Byte)) % Byte \in 0..(Byte - 1)
<1>1. Byte \in Nat \ {0}
  BY SettingsAssumption
<1>2. \A m \in Nat : m % Byte \in 0..(Byte - 1)
  BY <1>1
<1>3. n % Byte \in 0..(Byte - 1)
  BY <1>2
<1>4. s + (n % Byte) \in Nat
  BY <1>1, <1>3
<1> QED BY <1>2, <1>3, <1>4

\* The frame of a cleared call is made of bytes.
LEMMA FrameOK ==
    ASSUME TypeOK, FramesCounted, NEW c \in Calls, step[c] = "send"
    PROVE  Frame(c) \in Frames
<1>1. req[c] \in Requests /\ Check(req[c])
  BY DEF FramesCounted, Running, Cleared
<1>2. req[c].sequence \in 0..(Byte - 1)
  BY <1>1, CheckFacts
<1>3. Len(frames[c]) \in Nat
  BY DEF TypeOK
<1> QED BY <1>2, <1>3, FrameType DEF Frame, Frames

\* The gate starts with nothing asked, sent or recorded.
LEMMA InitIInv == Init => IInv
<1> SUFFICES ASSUME Init PROVE IInv
  OBVIOUS
<1>1. TypeOK
  BY SettingsAssumption DEF Init, TypeOK, Frames, Acks, Views, Addressee
<1>2. FramesCounted
  BY DEF Init, FramesCounted, Running
<1>3. FramesNumbered
  BY DEF Init, FramesNumbered
<1>4. None # "accepted"
  BY SettingsAssumption DEF Statuses
<1>5. TakenOnce
  BY <1>4 DEF Init, TakenOnce, Taken
<1> QED BY <1>1, <1>2, <1>3, <1>5 DEF IInv

\* Whom a frame is for does not change, so the vehicles that answered stay
\* among those that were sent one.
LEMMA AddresseesKept ==
    ASSUME TypeOK, FramesCounted, flying \subseteq flying',
           \A c \in Calls : step[c] # "idle" => req'[c] = req[c],
           executed' \cup refused' \subseteq executed \cup refused
    PROVE  executed' \cup refused' \subseteq {Addressee(f)' : f \in flying'}
<1>1. \A f \in flying : f[1] \in Calls /\ step[f[1]] # "idle"
  BY DEF TypeOK, FramesCounted
<1>2. \A f \in flying : Addressee(f)' = Addressee(f)
  BY <1>1 DEF Addressee
<1>3. executed \cup refused \subseteq {Addressee(f) : f \in flying}
  BY DEF TypeOK
<1> QED BY <1>2, <1>3

\* What can be heard are acknowledgements of vehicles on the link, and those
\* that Takes come from a vehicle that took a command.
LEMMA HeardFacts ==
    ASSUME TypeOK, FramesCounted
    PROVE  /\ Heard \subseteq Acks
           /\ \A a \in Heard : Takes(a) => a.source \in executed \cup foreign
<1>1. \A f \in flying : f[1] \in Calls /\ Addressee(f) \in Systems
  <2> SUFFICES ASSUME NEW f \in flying PROVE f[1] \in Calls /\ Addressee(f) \in Systems
    OBVIOUS
  <2>1. f[1] \in Calls
    BY DEF TypeOK
  <2>2. req[f[1]] \in Requests /\ req[f[1]].target # None
    BY Zenon DEF FramesCounted, Cleared
  <2>3. req[f[1]].target \in Systems
    BY <2>2, RequestsAssumption, Zenon
  <2> QED BY <2>1, <2>3 DEF Addressee
<1>2. executed \cup refused \subseteq Systems /\ foreign \subseteq Systems
  BY <1>1, SettingsAssumption DEF TypeOK
<1> SUFFICES ASSUME NEW a \in Heard
             PROVE  a \in Acks /\ (Takes(a) => a.source \in executed \cup foreign)
  OBVIOUS
<1>3. ASSUME NEW s \in executed, a = AckFrom(s, "request-message", TRUE)
      PROVE  a \in Acks /\ (Takes(a) => a.source \in executed \cup foreign)
  BY <1>2, <1>3 DEF AckFrom, Acks
<1>4. ASSUME NEW s \in refused, a = AckFrom(s, "request-message", FALSE)
      PROVE  a \in Acks /\ ~Takes(a)
  BY <1>2, <1>4 DEF AckFrom, Acks, Takes
<1>5. CASE a \in [source : foreign, command : {"request-message", "other"}, accepted : BOOLEAN]
  BY <1>2, <1>5 DEF Acks
<1> QED BY <1>3, <1>4, <1>5 DEF Heard

\* The views the store is given are views, and its list stays within MaxGates.
LEMMA KeptOK ==
    ASSUME TypeOK, NEW v \in Views
    PROVE  Kept(v) \in Seq(Views) /\ Len(Kept(v)) <= MaxGates
<1>1. gates \in Seq(Views) /\ Len(gates) <= MaxGates /\ MaxGates \in Nat \ {0}
  BY SettingsAssumption DEF TypeOK
<1>2. /\ <<v>> \o gates \in Seq(Views)
      /\ Len(<<v>> \o gates) = Len(gates) + 1
  BY <1>1
<1>3. CASE Len(gates) < MaxGates
  BY <1>1, <1>2, <1>3 DEF Kept
<1>4. CASE ~(Len(gates) < MaxGates)
  <2>1. Len(gates) = MaxGates
    BY <1>1, <1>4
  <2>2. SubSeq(<<v>> \o gates, 1, MaxGates) \in Seq(Views)
        /\ Len(SubSeq(<<v>> \o gates, 1, MaxGates)) = MaxGates
    BY <2>1, <1>1, <1>2
  <2> QED BY <2>2, <1>1, <1>4 DEF Kept
<1> QED BY <1>3, <1>4

\* The view of a call is a view.
LEMMA GateViewOK ==
    ASSUME TypeOK, NEW c \in Calls
    PROVE  GateView(c) \in Views
<1>1. Len(frames[c]) \in Nat /\ observed[c] \in BOOLEAN
  BY DEF TypeOK
<1> QED BY <1>1, Zenon DEF GateView, Views, Blocked

-----------------------------------------------------------------------------
\* Every step keeps the types.
LEMMA NextTypeOK == TypeOK /\ FramesCounted /\ [Next]_vars => TypeOK'
<1> SUFFICES ASSUME TypeOK, FramesCounted, [Next]_vars PROVE TypeOK'
  OBVIOUS
<1> USE DEF TypeOK
<1>n. None \notin Statuses
  BY SettingsAssumption
<1>a. None # "accepted"
  BY <1>n DEF Statuses
<1>u. ASSUME UNCHANGED <<req, linkVars>>
      PROVE  executed' \cup refused' \subseteq {Addressee(f)' : f \in flying'}
  BY <1>u, AddresseesKept DEF linkVars
<1>1. ASSUME NEW c \in Calls, Begin(c) PROVE TypeOK'
  <2>1. PICK r \in Requests :
           /\ req' = [req EXCEPT ![c] = r]
           /\ status' = [status EXCEPT ![c] = Refusal(r)]
           /\ step' = [step EXCEPT ![c] = IF Refusal(r) = None THEN "send" ELSE "ended"]
    BY <1>1, Zenon DEF Begin
  <2>2. Refusal(r) \in Statuses \cup {None}
    BY RefusalFacts
  <2>3. executed' \cup refused' \subseteq {Addressee(f)' : f \in flying'}
    BY <1>1, <2>1, AddresseesKept DEF Begin, linkVars
  <2> QED BY <1>1, <2>1, <2>2, <2>3 DEF Begin, linkVars
<1>2. ASSUME NEW c \in Calls, Send(c) PROVE TypeOK'
  <2>1. Frame(c) \in Frames
    BY <1>2, FrameOK DEF Send
  <2>2. frames' \in [Calls -> Seq(Frames)]
    BY <2>1, <1>2 DEF Send
  <2>3. flying' \subseteq Calls \X Nat
    BY <1>2 DEF Send
  <2>4. executed' \cup refused' \subseteq {Addressee(f)' : f \in flying'}
    BY <1>2, AddresseesKept DEF Send
  <2> QED BY <2>2, <2>3, <2>4, <1>2 DEF Send
<1>3. ASSUME NEW c \in Calls, SendFails(c) PROVE TypeOK'
  <2>1. flying' \subseteq Calls \X Nat /\ flying \subseteq flying'
    BY <1>3 DEF SendFails
  <2>2. executed' \cup refused' \subseteq {Addressee(f)' : f \in flying'}
    BY <1>3, <2>1, AddresseesKept DEF SendFails
  <2> QED BY <2>1, <2>2, <1>3, <1>n DEF SendFails, Return, Statuses
<1>4. ASSUME NEW c \in Calls, Await(c) PROVE TypeOK'
  <2>1. PICK a \in Heard :
           /\ acks' = [acks EXCEPT ![c] = Append(@, a)]
           /\ step' = [step EXCEPT ![c] = IF Takes(a) THEN "poll" ELSE NextStep(c)]
           /\ status' = IF step'[c] = "ended"
                        THEN [status EXCEPT ![c] = "ack-not-accepted"] ELSE status
    BY <1>4, Zenon DEF Await
  <2>2. acks' \in [Calls -> Seq(Acks)]
    BY <2>1, HeardFacts
  <2>3. step'[c] \in {"poll", "send", "ended"} /\ step[c] = "await"
    BY <2>1, <1>4 DEF Await, NextStep
  <2>4. executed' \cup refused' \subseteq {Addressee(f)' : f \in flying'}
    BY <1>4, <1>u DEF Await
  <2> QED BY <2>1, <2>2, <2>3, <2>4, <1>4, <1>n DEF Await, linkVars, Statuses
<1>5. ASSUME NEW c \in Calls, AwaitFails(c) PROVE TypeOK'
  <2>1. executed' \cup refused' \subseteq {Addressee(f)' : f \in flying'}
    BY <1>5, <1>u DEF AwaitFails
  <2> QED BY <2>1, <1>5, <1>n DEF AwaitFails, Return, Statuses, linkVars
<1>6. ASSUME NEW c \in Calls, Poll(c) PROVE TypeOK'
  <2>1. executed' \cup refused' \subseteq {Addressee(f)' : f \in flying'}
    BY <1>6, <1>u DEF Poll
  <2> QED BY <2>1, <1>6, <1>n DEF Poll, Return, Statuses, linkVars
<1>7. ASSUME NEW c \in Calls, PollFails(c) PROVE TypeOK'
  <2>1. executed' \cup refused' \subseteq {Addressee(f)' : f \in flying'}
    BY <1>7, <1>u DEF PollFails
  <2> QED BY <2>1, <1>7, <1>n DEF PollFails, Return, Statuses, linkVars
<1>8. ASSUME NEW c \in Calls, RecordCommandGateResult(c) PROVE TypeOK'
  <2>1. gates' \in Seq(Views) /\ Len(gates') <= MaxGates
    BY <1>8, KeptOK, GateViewOK DEF RecordCommandGateResult
  <2>2. executed' \cup refused' \subseteq {Addressee(f)' : f \in flying'}
    BY <1>8, <1>u DEF RecordCommandGateResult
  <2> QED BY <2>1, <2>2, <1>8 DEF RecordCommandGateResult, linkVars
<1>9. ASSUME RejectHandoffHardwareCommand PROVE TypeOK'
  <2>1. HandoffView \in Views
    BY DEF HandoffView, Views
  <2>2. gates' \in Seq(Views) /\ Len(gates') <= MaxGates
    BY <2>1, <1>9, KeptOK DEF RejectHandoffHardwareCommand
  <2>3. executed' \cup refused' \subseteq {Addressee(f)' : f \in flying'}
    BY <1>9, <1>u DEF RejectHandoffHardwareCommand, callVars
  <2> QED BY <2>2, <2>3, <1>9 DEF RejectHandoffHardwareCommand, callVars, linkVars
<1>10. ASSUME NEW f \in flying, Execute(f) \/ Refuse(f) PROVE TypeOK'
  <2>1. UNCHANGED <<step, req, frames, acks, observed, status, flying, foreign, gates>>
    BY <1>10 DEF Execute, Refuse, callVars
  <2>2. executed' \cup refused' \subseteq executed \cup refused \cup {Addressee(f)}
    BY <1>10 DEF Execute, Refuse
  <2>3. {Addressee(g)' : g \in flying'} = {Addressee(g) : g \in flying}
    BY <2>1 DEF Addressee
  <2>4. executed' \cup refused' \subseteq {Addressee(g)' : g \in flying'}
    BY <2>2, <2>3
  <2> QED BY <2>1, <2>4
<1>11. ASSUME NEW s \in Shared, Overhear(s) PROVE TypeOK'
  <2>1. foreign' \subseteq Shared
    BY <1>11 DEF Overhear
  <2>2. UNCHANGED <<step, req, frames, acks, observed, status, flying, executed, refused, gates>>
    BY <1>11 DEF Overhear, callVars
  <2>3. {Addressee(g)' : g \in flying'} = {Addressee(g) : g \in flying}
    BY <2>2 DEF Addressee
  <2> QED BY <2>1, <2>2, <2>3
<1>12. CASE UNCHANGED vars
  <2>1. executed' \cup refused' \subseteq {Addressee(f)' : f \in flying'}
    BY <1>12, <1>u DEF vars, callVars
  <2> QED BY <2>1, <1>12 DEF vars, callVars, linkVars
<1> QED
  BY <1>1, <1>2, <1>3, <1>4, <1>5, <1>6, <1>7, <1>8, <1>9, <1>10, <1>11, <1>12
     DEF Next, Transmit

\* Frames stay counted: Send is the only step that adds one, and the loop
\* comes back to it only while attempts are left.
LEMMA NextFramesCounted ==
    TypeOK /\ FramesCounted /\ [Next]_vars => FramesCounted'
<1> SUFFICES ASSUME TypeOK, FramesCounted, [Next]_vars PROVE FramesCounted'
  OBVIOUS
<1> USE DEF FramesCounted, Running, Cleared
<1>t. /\ step \in [Calls -> {"idle", "send", "await", "poll", "ended", "recorded"}]
      /\ req \in [Calls -> Requests \cup {None}]
      /\ frames \in [Calls -> Seq(Frames)]
      /\ acks \in [Calls -> Seq(Acks)]
      /\ flying \subseteq Calls \X Nat
  BY DEF TypeOK
<1>a. \A c \in Calls : Cleared(c) => req[c].attempts \in Nat /\ req[c].attempts > 0
  BY CheckFacts, SettingsAssumption
<1>b. \A f \in flying : f[1] \in Calls /\ f[2] \in Nat
  BY <1>t
<1> HIDE DEF Cleared
<1>c. \A c \in Calls : req'[c] = req[c] => (Cleared(c) <=> Cleared(c)')
  BY DEF Cleared
<1>1. ASSUME NEW c \in Calls, Begin(c) PROVE FramesCounted'
  <2>1. PICK r \in Requests :
           /\ req' = [req EXCEPT ![c] = r]
           /\ step' = [step EXCEPT ![c] = IF Refusal(r) = None THEN "send" ELSE "ended"]
    BY <1>1, Zenon DEF Begin
  <2>2. /\ step[c] = "idle" /\ UNCHANGED <<frames, acks, flying>>
        /\ frames[c] = <<>>
    BY <1>1 DEF Begin, linkVars
  <2>3. step'[c] = "send" => Cleared(c)'
    BY <2>1, <1>t, RefusalFacts DEF Cleared
  <2>4. step'[c] \in {"send", "ended"} /\ req'[c] = r
    BY <2>1, <1>t
  <2>5. \A d \in Calls : d # c => step'[d] = step[d] /\ req'[d] = req[d]
    BY <2>1, <1>t
  <2>6. step'[c] = "send" => 0 < req'[c].attempts
    BY <2>3, CheckFacts, SettingsAssumption DEF Cleared
  <2>7. \A f \in flying : f[1] # c
    BY <2>2
  <2>8. /\ Len(frames'[c]) = 0
        /\ \A d \in Calls : frames'[d] = frames[d] /\ acks'[d] = acks[d]
    BY <2>2
  <2>9. \A d \in Calls : step'[d] \in Running => Cleared(d)'
    BY <2>3, <2>4, <2>5, <1>c
  <2>10. \A d \in Calls : step'[d] = "send" => Len(frames'[d]) < req'[d].attempts
    BY <2>4, <2>5, <2>6, <2>8
  <2>11. \A d \in Calls : Len(frames'[d]) > 0 =>
              Cleared(d)' /\ Len(frames'[d]) <= req'[d].attempts
    BY <2>5, <2>8, <1>c
  <2>12. \A d \in Calls : step'[d] = "idle" => frames'[d] = <<>> /\ acks'[d] = <<>>
    BY <2>4, <2>5, <2>8
  <2>13. \A f \in flying' : /\ step'[f[1]] # "idle" /\ Cleared(f[1])'
                            /\ f[2] \in 1..req'[f[1]].attempts
    BY <2>2, <2>5, <2>7, <1>b, <1>c
  <2> QED BY <2>9, <2>10, <2>11, <2>12, <2>13
<1>2. ASSUME NEW c \in Calls, UNCHANGED req,
             Send(c) \/ SendFails(c)
      PROVE  FramesCounted'
  <2>1. /\ step[c] = "send" /\ Cleared(c) /\ Len(frames[c]) < req[c].attempts
        /\ Len(frames[c]) \in Nat
    BY <1>2, <1>t DEF Send, SendFails
  <2>2. /\ step'[c] \in {"await", "ended"}
        /\ \A d \in Calls : d # c => step'[d] = step[d] /\ frames'[d] = frames[d]
        /\ acks' = acks
    BY <1>2, <1>t DEF Send, SendFails, Return
  <2>3. Len(frames'[c]) \in {Len(frames[c]), Len(frames[c]) + 1}
    BY <1>2, <1>t DEF Send, SendFails
  <2>4. \A f \in flying' : f \in flying \/ f = <<c, Len(frames[c]) + 1>>
    BY <1>2 DEF Send, SendFails
  <2>5. \A d \in Calls : Cleared(d)' <=> Cleared(d)
    BY <1>c, <1>2
  <2>6. \A f \in flying' : /\ step'[f[1]] # "idle" /\ Cleared(f[1])'
                           /\ f[2] \in 1..req'[f[1]].attempts
    <3> SUFFICES ASSUME NEW f \in flying'
                 PROVE  /\ step'[f[1]] # "idle" /\ Cleared(f[1])'
                        /\ f[2] \in 1..req'[f[1]].attempts
      OBVIOUS
    <3>1. CASE f \in flying
      BY <3>1, <1>b, <2>2, <2>5, <1>2
    <3>2. CASE f = <<c, Len(frames[c]) + 1>>
      BY <3>2, <2>1, <2>2, <2>5, <1>2, <1>a
    <3> QED BY <3>1, <3>2, <2>4
  <2>7. \A d \in Calls : Len(frames'[d]) > 0 =>
              Cleared(d)' /\ Len(frames'[d]) <= req'[d].attempts
    BY <2>1, <2>2, <2>3, <2>5, <1>2, <1>a
  <2>8. \A d \in Calls : step'[d] \in Running => Cleared(d)'
    BY <2>1, <2>2, <2>5
  <2>9. \A d \in Calls : step'[d] = "send" => Len(frames'[d]) < req'[d].attempts
    BY <2>2, <1>2
  <2>10. \A d \in Calls : step'[d] = "idle" => frames'[d] = <<>> /\ acks'[d] = <<>>
    BY <2>2
  <2> QED BY <2>6, <2>7, <2>8, <2>9, <2>10
<1>3. ASSUME NEW c \in Calls, UNCHANGED <<req, frames, flying>>,
             step[c] \notin {"idle", "send"},
             step'[c] \in Running => step[c] \in Running,
             step'[c] = "send" => Len(frames[c]) < req[c].attempts,
             step'[c] # "idle",
             \A d \in Calls : d # c => step'[d] = step[d] /\ acks'[d] = acks[d]
      PROVE  FramesCounted'
  <2>1. \A d \in Calls : Cleared(d)' <=> Cleared(d)
    BY <1>c, <1>3
  <2>2. \A d \in Calls : step'[d] \in Running => Cleared(d)'
    BY <2>1, <1>3
  <2>3. \A d \in Calls : step'[d] = "send" => Len(frames'[d]) < req'[d].attempts
    BY <1>3
  <2>4. \A d \in Calls : step'[d] = "idle" => frames'[d] = <<>> /\ acks'[d] = <<>>
    BY <1>3
  <2>5. \A f \in flying' : /\ step'[f[1]] # "idle" /\ Cleared(f[1])'
                           /\ f[2] \in 1..req'[f[1]].attempts
    BY <1>3, <1>b, <2>1
  <2> QED BY <2>1, <2>2, <2>3, <2>4, <2>5, <1>3
<1>4. ASSUME NEW c \in Calls, Await(c) PROVE FramesCounted'
  <2>1. PICK a \in Heard :
           /\ acks' = [acks EXCEPT ![c] = Append(@, a)]
           /\ step' = [step EXCEPT ![c] = IF Takes(a) THEN "poll" ELSE NextStep(c)]
    BY <1>4, Zenon DEF Await
  <2>2. step[c] = "await" /\ UNCHANGED <<req, frames, flying>>
    BY <1>4 DEF Await, linkVars
  <2>3. /\ step'[c] \in {"poll", "send", "ended"}
        /\ step'[c] = "send" => Len(frames[c]) < req[c].attempts
    BY <2>1, <1>t DEF NextStep
  <2>4. \A d \in Calls : d # c => step'[d] = step[d] /\ acks'[d] = acks[d]
    BY <2>1, <1>t
  <2> QED BY <2>2, <2>3, <2>4, <1>3
<1>5. ASSUME NEW c \in Calls, AwaitFails(c) \/ Poll(c) \/ PollFails(c)
      PROVE  FramesCounted'
  <2>1. /\ step[c] \in {"await", "poll"} /\ step'[c] = "ended"
        /\ UNCHANGED <<req, frames, flying, acks>>
        /\ \A d \in Calls : d # c => step'[d] = step[d]
    BY <1>5, <1>t DEF AwaitFails, Poll, PollFails, Return, linkVars
  <2> QED BY <2>1, <1>3
<1>6. ASSUME NEW c \in Calls, RecordCommandGateResult(c) PROVE FramesCounted'
  <2>1. /\ step[c] = "ended" /\ step'[c] = "recorded"
        /\ UNCHANGED <<req, frames, flying, acks>>
        /\ \A d \in Calls : d # c => step'[d] = step[d]
    BY <1>6, <1>t DEF RecordCommandGateResult, linkVars
  <2> QED BY <2>1, <1>3
<1>7. ASSUME UNCHANGED <<callVars, flying>> PROVE FramesCounted'
  <2>1. UNCHANGED <<step, req, frames, acks, flying>>
    BY <1>7 DEF callVars
  <2>2. \A d \in Calls : Cleared(d)' <=> Cleared(d)
    BY <1>c, <2>1
  <2> QED BY <2>1, <2>2, <1>b
<1>8. CASE RejectHandoffHardwareCommand \/ UNCHANGED vars
           \/ (\E f \in flying : Execute(f) \/ Refuse(f))
           \/ (\E s \in Shared : Overhear(s))
  <2>1. UNCHANGED <<callVars, flying>>
    BY <1>8 DEF RejectHandoffHardwareCommand, Overhear, Execute, Refuse, vars, linkVars
  <2> QED BY <2>1, <1>7
<1>9. \A c \in Calls : Send(c) \/ SendFails(c) => UNCHANGED req
  BY DEF Send, SendFails
<1> QED
  BY <1>1, <1>2, <1>4, <1>5, <1>6, <1>8, <1>9 DEF Next, Transmit

\* Frames keep their numbers: Begin gives a request to a call without frames,
\* Send numbers the frame it adds by those before it.
LEMMA NextFramesNumbered ==
    TypeOK /\ FramesCounted /\ FramesNumbered /\ [Next]_vars => FramesNumbered'
<1> SUFFICES ASSUME TypeOK, FramesCounted, FramesNumbered, [Next]_vars
             PROVE  FramesNumbered'
  OBVIOUS
<1>t. /\ req \in [Calls -> Requests \cup {None}]
      /\ frames \in [Calls -> Seq(Frames)]
  BY DEF TypeOK
<1>1. ASSUME UNCHANGED <<req, frames>> PROVE FramesNumbered'
  BY <1>1 DEF FramesNumbered
<1>2. ASSUME NEW c \in Calls, Begin(c) PROVE FramesNumbered'
  <2>1. frames[c] = <<>> /\ frames' = frames
    BY <1>2 DEF Begin, FramesCounted
  <2>2. \A d \in Calls : d # c => req'[d] = req[d]
    BY <1>2, <1>t DEF Begin
  <2> QED BY <2>1, <2>2 DEF FramesNumbered
<1>3. ASSUME NEW c \in Calls, Send(c) PROVE FramesNumbered'
  <2>1. /\ req' = req /\ frames' = [frames EXCEPT ![c] = Append(@, Frame(c))]
    BY <1>3 DEF Send
  <2>2. /\ Frame(c).confirmation = Len(frames[c]) % Byte
        /\ Frame(c).sequence = (req[c].sequence + (Len(frames[c]) % Byte)) % Byte
    BY DEF Frame
  <2>3. ASSUME NEW i \in 1..Len(frames'[c])
        PROVE  /\ frames'[c][i].confirmation = (i - 1) % Byte
               /\ frames'[c][i].sequence = (req[c].sequence + ((i - 1) % Byte)) % Byte
    <3>1. frames'[c] = Append(frames[c], Frame(c)) /\ frames[c] \in Seq(Frames)
      BY <2>1, <1>t
    <3>2. CASE i \in 1..Len(frames[c])
      <4>1. frames'[c][i] = frames[c][i]
        BY <3>1, <3>2
      <4> QED BY <4>1, <3>2 DEF FramesNumbered
    <3>3. CASE i = Len(frames[c]) + 1
      <4>1. frames'[c][i] = Frame(c) /\ i - 1 = Len(frames[c])
        BY <3>1, <3>3
      <4> QED BY <4>1, <2>2
    <3>4. Len(frames'[c]) = Len(frames[c]) + 1 /\ Len(frames[c]) \in Nat
      BY <3>1
    <3> QED BY <3>2, <3>3, <3>4
  <2>4. \A d \in Calls : d # c => frames'[d] = frames[d]
    BY <2>1, <1>t
  <2> QED BY <2>1, <2>3, <2>4 DEF FramesNumbered
<1>4. ASSUME NEW c \in Calls, Transmit(c), ~Send(c) PROVE UNCHANGED <<req, frames>>
  BY <1>4 DEF Transmit, SendFails, Await, AwaitFails, Poll, PollFails
<1>5. CASE RejectHandoffHardwareCommand \/ UNCHANGED vars
           \/ (\E f \in flying : Execute(f) \/ Refuse(f))
           \/ (\E s \in Shared : Overhear(s))
           \/ (\E c \in Calls : RecordCommandGateResult(c))
  BY <1>5, <1>1 DEF RejectHandoffHardwareCommand, Overhear, Execute, Refuse, vars, callVars,
                     RecordCommandGateResult
<1> QED BY <1>1, <1>2, <1>3, <1>4, <1>5 DEF Next

\* A command is taken once: an acknowledgement that Takes sends the call to
\* the poller, and it comes from a vehicle that took a command.
LEMMA NextTakenOnce ==
    TypeOK /\ FramesCounted /\ TakenOnce /\ [Next]_vars => TakenOnce'
<1> SUFFICES ASSUME TypeOK, FramesCounted, TakenOnce, [Next]_vars PROVE TakenOnce'
  OBVIOUS
<1> USE DEF TakenOnce
<1>t. /\ step \in [Calls -> {"idle", "send", "await", "poll", "ended", "recorded"}]
      /\ acks \in [Calls -> Seq(Acks)]
      /\ status \in [Calls -> Statuses \cup {None}]
  BY DEF TypeOK
<1>k. ASSUME UNCHANGED acks, executed \subseteq executed', foreign \subseteq foreign',
             \A c \in Calls : step'[c] \in {"send", "await"} => ~Taken(c),
             \A c \in Calls : step'[c] = "poll" \/ status'[c] = "accepted" => Taken(c)
      PROVE  TakenOnce'
  BY <1>k DEF Taken
<1>1. ASSUME NEW c \in Calls, Begin(c) PROVE TakenOnce'
  <2>1. PICK r \in Requests :
           /\ status' = [status EXCEPT ![c] = Refusal(r)]
           /\ step' = [step EXCEPT ![c] = IF Refusal(r) = None THEN "send" ELSE "ended"]
    BY <1>1, Zenon DEF Begin
  <2>2. acks[c] = <<>> /\ UNCHANGED <<acks, executed, foreign>>
    BY <1>1 DEF Begin, linkVars, FramesCounted
  <2>3. /\ status'[c] # "accepted" /\ step'[c] # "poll"
        /\ \A d \in Calls : d # c => status'[d] = status[d] /\ step'[d] = step[d]
    BY <2>1, <1>t, RefusalFacts
  <2>4. ~Taken(c)
    BY <2>2 DEF Taken
  <2> QED BY <2>2, <2>3, <2>4, <1>k
<1>2. ASSUME NEW c \in Calls, Send(c) \/ SendFails(c) PROVE TakenOnce'
  <2>1. /\ step[c] = "send" /\ step'[c] \in {"await", "ended"}
        /\ UNCHANGED <<acks, executed, foreign>>
        /\ status'[c] = status[c] \/ status'[c] = "transmit-failed"
        /\ \A d \in Calls : d # c => status'[d] = status[d] /\ step'[d] = step[d]
    BY <1>2, <1>t DEF Send, SendFails, Return
  <2> QED BY <2>1, <1>k
<1>3. ASSUME NEW c \in Calls, Await(c) PROVE TakenOnce'
  <2>1. PICK a \in Heard :
           /\ acks' = [acks EXCEPT ![c] = Append(@, a)]
           /\ step' = [step EXCEPT ![c] = IF Takes(a) THEN "poll" ELSE NextStep(c)]
           /\ status' = IF step'[c] = "ended"
                        THEN [status EXCEPT ![c] = "ack-not-accepted"] ELSE status
    BY <1>3, Zenon DEF Await
  <2>2. step[c] = "await" /\ UNCHANGED <<executed, foreign>> /\ ~Taken(c)
    BY <1>3 DEF Await, linkVars
  <2>3. step'[c] = "poll" <=> Takes(a)
    BY <2>1, <1>t DEF NextStep
  <2>4. /\ acks'[c] = Append(acks[c], a) /\ acks[c] \in Seq(Acks)
        /\ a \in Acks /\ (Takes(a) => a.source \in executed \cup foreign)
    BY <2>1, <1>t, HeardFacts
  <2>5. /\ Len(acks'[c]) = Len(acks[c]) + 1 /\ Len(acks[c]) \in Nat
        /\ acks'[c][Len(acks'[c])] = a
        /\ \A i \in 1..Len(acks[c]) : acks'[c][i] = acks[c][i]
    BY <2>4
  <2>6. \A i \in 1..Len(acks'[c]) :
           i = Len(acks'[c]) \/ (i \in 1..Len(acks[c]) /\ acks'[c][i] = acks[c][i])
    BY <2>5
  <2>7. Taken(c)' <=> Takes(a)
    <3>1. Len(acks'[c]) \in 1..Len(acks'[c])
      BY <2>5
    <3>2. Takes(a) => Taken(c)'
      BY <2>5, <3>1, Zenon DEF Taken, Takes
    <3>3. \A i \in 1..Len(acks'[c]) : Takes(acks'[c][i]) => Takes(a)
      BY <2>2, <2>5, <2>6 DEF Taken
    <3> QED BY <3>2, <3>3, Zenon DEF Taken, Takes
  <2>8. \A i \in 1..Len(acks'[c]) :
           Takes(acks'[c][i]) => acks'[c][i].source \in executed \cup foreign
    BY <2>4, <2>5, <2>6
  <2>9. /\ status'[c] = status[c] \/ status'[c] = "ack-not-accepted"
        /\ \A d \in Calls : d # c =>
              status'[d] = status[d] /\ step'[d] = step[d] /\ acks'[d] = acks[d]
    BY <2>1, <1>t
  <2>10. \A d \in Calls : d # c => (Taken(d)' <=> Taken(d))
    BY <2>9 DEF Taken
  <2>11. \A d \in Calls : step'[d] \in {"send", "await"} => ~Taken(d)'
    BY <2>3, <2>7, <2>9, <2>10
  <2>12. status'[c] # "accepted"
    BY <2>2, <2>9
  <2>13. \A d \in Calls : step'[d] = "poll" \/ status'[d] = "accepted" => Taken(d)'
    BY <2>3, <2>7, <2>9, <2>10, <2>12
  <2>14. \A d \in Calls : \A i \in 1..Len(acks'[d]) :
            Takes(acks'[d][i]) => acks'[d][i].source \in executed' \cup foreign'
    BY <2>2, <2>8, <2>9
  <2> QED BY <2>11, <2>13, <2>14 DEF Takes
<1>4. ASSUME NEW c \in Calls, AwaitFails(c) \/ Poll(c) \/ PollFails(c)
      PROVE  TakenOnce'
  <2>1. /\ step'[c] = "ended" /\ UNCHANGED <<acks, executed, foreign>>
        /\ \A d \in Calls : d # c => status'[d] = status[d] /\ step'[d] = step[d]
    BY <1>4, <1>t DEF AwaitFails, Poll, PollFails, Return, linkVars
  <2>2. status'[c] = "accepted" => step[c] = "poll"
    BY <1>4, <1>t DEF AwaitFails, Poll, PollFails, Return
  <2> QED BY <2>1, <2>2, <1>k
<1>5. ASSUME NEW c \in Calls, RecordCommandGateResult(c) PROVE TakenOnce'
  <2>1. /\ step'[c] = "recorded" /\ UNCHANGED <<acks, executed, foreign, status>>
        /\ \A d \in Calls : d # c => step'[d] = step[d]
    BY <1>5, <1>t DEF RecordCommandGateResult, linkVars
  <2> QED BY <2>1, <1>k
<1>6. ASSUME UNCHANGED callVars, executed \subseteq executed', foreign \subseteq foreign'
      PROVE  TakenOnce'
  BY <1>6, <1>k DEF callVars
<1>7. CASE RejectHandoffHardwareCommand \/ UNCHANGED vars
  BY <1>6, <1>7 DEF RejectHandoffHardwareCommand, vars, linkVars
<1>8. ASSUME NEW f \in flying, Execute(f) \/ Refuse(f) PROVE TakenOnce'
  BY <1>6, <1>8 DEF Execute, Refuse
<1>9. ASSUME NEW s \in Shared, Overhear(s) PROVE TakenOnce'
  BY <1>6, <1>9 DEF Overhear
<1> QED
  BY <1>1, <1>2, <1>3, <1>4, <1>5, <1>7, <1>8, <1>9 DEF Next, Transmit

-----------------------------------------------------------------------------
\* The strengthening holds in every reachable state.
LEMMA Inductive == Spec => []IInv
<1>1. Init => IInv
  BY InitIInv
<1>2. IInv /\ [Next]_vars => IInv'
  BY NextTypeOK, NextFramesCounted, NextFramesNumbered, NextTakenOnce DEF IInv
<1> QED BY <1>1, <1>2, PTL DEF Spec

\* The types of a call's evidence, of the link and of the store's list, which
\* keeps at most MaxGates results (store.go:306).
THEOREM TypeCorrect == Spec => []TypeOK
<1>1. IInv => TypeOK
  BY DEF IInv
<1> QED BY <1>1, Inductive, PTL

\* Whatever the requests, the settings and the link: a frame is on the link
\* only for a call that the preflight cleared, and only as many as the gate
\* allows (transmit.go:109-166).
THEOREM FramesAreCleared == Spec => []OnlyClearedFrames
<1>1. IInv => OnlyClearedFrames
  <2> SUFFICES ASSUME IInv, NEW f \in flying
               PROVE  /\ f[2] \in 1..MaxAttempts
                      /\ Normalize(req[f[1]].mode) = "simulator"
                      /\ Normalize(req[f[1]].profile) \in AllowedProfiles
                      /\ Normalize(req[f[1]].verb) \in AllowedVerbs
                      /\ Confirmations \subseteq req[f[1]].confirmed
    BY Zenon DEF OnlyClearedFrames
  <2>1. /\ req[f[1]] \in Requests /\ Check(req[f[1]])
        /\ f[2] \in 1..req[f[1]].attempts
    BY DEF IInv, FramesCounted, Cleared
  <2>2. f[2] \in 1..MaxAttempts
    BY <2>1, CheckFacts, SettingsAssumption
  <2>3. /\ Normalize(req[f[1]].mode) = "simulator"
        /\ Normalize(req[f[1]].profile) \in AllowedProfiles
        /\ Normalize(req[f[1]].verb) \in AllowedVerbs
        /\ Confirmations \subseteq req[f[1]].confirmed
    BY <2>1, Zenon DEF Check
  <2> QED BY <2>2, <2>3
<1> QED BY <1>1, Inductive, PTL

\* Two numbers below Byte stay apart when the same byte is added to both.
LEMMA ShiftApart ==
    ASSUME NEW s \in 0..(Byte - 1), NEW i \in 0..(Byte - 1), NEW j \in 0..(Byte - 1),
           i # j
    PROVE  (s + i) % Byte # (s + j) % Byte
<1>1. Byte \in Nat \ {0}
  BY SettingsAssumption
<1>2. ASSUME NEW x \in 0..(2 * Byte - 1)
      PROVE  x % Byte = IF x < Byte THEN x ELSE x - Byte
  <2>1. CASE x < Byte
    BY <2>1, <1>1
  <2>2. CASE x >= Byte
    BY <2>2, <1>1
  <2> QED BY <2>1, <2>2, <1>1
<1>3. s + i \in 0..(2 * Byte - 1) /\ s + j \in 0..(2 * Byte - 1)
  BY <1>1
<1> QED BY <1>1, <1>2, <1>3

\* As long as the attempts allowed fit a byte, no two frames of a call share
\* their confirmation or their sequence (transmit.go:151).
THEOREM RetriesAlwaysApart ==
    ASSUME AttemptsFitByte
    PROVE  Spec => []RetriesTellApart
<1>1. IInv => RetriesTellApart
  <2> SUFFICES ASSUME IInv, NEW c \in Calls,
                      NEW i \in 1..Len(frames[c]), NEW j \in 1..Len(frames[c]), i # j
               PROVE  /\ frames[c][i].confirmation # frames[c][j].confirmation
                      /\ frames[c][i].sequence # frames[c][j].sequence
    BY DEF RetriesTellApart
  <2>1. Len(frames[c]) \in Nat /\ Len(frames[c]) > 0
    BY DEF IInv, TypeOK
  <2>2. req[c] \in Requests /\ Check(req[c]) /\ Len(frames[c]) <= req[c].attempts
    BY <2>1, Zenon DEF IInv, FramesCounted, Cleared
  <2>3. /\ Len(frames[c]) <= Byte /\ Byte \in Nat \ {0}
        /\ req[c].sequence \in 0..(Byte - 1)
    <3>1. req[c].attempts \in 1..MaxAttempts /\ req[c].sequence \in 0..(Byte - 1)
      BY <2>2, CheckFacts, Zenon
    <3>2. MaxAttempts \in Nat /\ Byte \in Nat \ {0} /\ MaxAttempts <= Byte
      BY AttemptsFitByte, SettingsAssumption DEF AttemptsFitByte
    <3> QED BY <2>1, <2>2, <3>1, <3>2
  <2>4. \A k \in 1..Len(frames[c]) : k - 1 \in 0..(Byte - 1) /\ (k - 1) % Byte = k - 1
    <3>1. \A n \in 0..(Byte - 1) : n % Byte = n
      BY <2>3
    <3>2. \A k \in 1..Len(frames[c]) : k - 1 \in 0..(Byte - 1)
      BY <2>1, <2>3
    <3> QED BY <3>1, <3>2
  <2>5. \A k \in 1..Len(frames[c]) :
           /\ frames[c][k].confirmation = k - 1
           /\ frames[c][k].sequence = (req[c].sequence + (k - 1)) % Byte
    BY <2>4 DEF IInv, FramesNumbered
  <2>6. (req[c].sequence + (i - 1)) % Byte # (req[c].sequence + (j - 1)) % Byte
    <3>1. i - 1 # j - 1
      BY <2>1
    <3> QED BY <3>1, <2>3, <2>4, ShiftApart
  <2> QED BY <2>1, <2>5, <2>6
<1> QED BY <1>1, Inductive, PTL

\* For any calls, vehicles and foreign answers: an accepted call has in its
\* evidence an acceptance of this command, by a vehicle that accepted a frame
\* of this gate or has answered another ground station. On a link that no
\* other station shares it is the former (transmit.go:198).
THEOREM AcceptedHasEvidence == Spec => []AcceptedOnEvidence
<1>1. IInv => AcceptedOnEvidence
  BY Zenon DEF IInv, TakenOnce, Taken, Takes, AcceptedOnEvidence
<1> QED BY <1>1, Inductive, PTL

\* Once the vehicle's acceptance is heard the call sends no more frames for
\* the command, whatever the poller says.
THEOREM TakenIsLeftAlone == Spec => SilentOnceTaken
<1>1. IInv /\ [Next]_vars =>
         [\A c \in Calls :
             frames'[c] # frames[c] => \A i \in 1..Len(acks[c]) : ~Takes(acks[c][i])]_vars
  <2> SUFFICES ASSUME IInv, [Next]_vars, NEW c \in Calls, frames'[c] # frames[c]
               PROVE  \A i \in 1..Len(acks[c]) : ~Takes(acks[c][i])
    BY Zenon
  <2>1. frames \in [Calls -> Seq(Frames)]
    BY DEF IInv, TypeOK
  <2>2. PICK d \in Calls : Send(d)
    BY DEF Next, Transmit, Begin, SendFails, Await, AwaitFails, Poll, PollFails,
           RecordCommandGateResult, RejectHandoffHardwareCommand, Execute, Refuse,
           Overhear, vars, callVars
  <2>3. c = d /\ step[c] = "send"
    BY <2>1, <2>2 DEF Send
  <2> QED BY <2>3 DEF IInv, TakenOnce, Taken
<1> QED BY <1>1, Inductive, PTL DEF Spec, SilentOnceTaken

-----------------------------------------------------------------------------
(* What the store shows. A view is made after its call has ended, and must *)
(* stay true while other calls go on.                                      *)

Took(c) == \E i \in 1..Len(acks[c]) : acks[c][i].accepted

\* What an accepted call has to show for itself.
Evidence(c) == Check(req[c]) /\ Len(frames[c]) > 0 /\ Took(c) /\ observed[c]

\* Evidence is gathered on the way, and a blocked call has no frame.
Gathered ==
    /\ \A c \in Calls : step[c] = "await" => Len(frames[c]) > 0
    /\ \A c \in Calls : step[c] = "poll" => Len(frames[c]) > 0 /\ Took(c)
    /\ \A c \in Calls : status[c] = "accepted" => Evidence(c)
    /\ \A c \in Calls : Blocked(c) => \A f \in flying : f[1] # c

\* A view is as good as its call.
Told(view) ==
    /\ view.accepted => /\ view.preflight /\ view.simulator
                        /\ view.frames > 0 /\ view.ack /\ view.post
    /\ view.block => /\ ~view.simulator
                     /\ view.call \in Calls => Blocked(view.call)

GatesTold == \A i \in 1..Len(gates) : Told(gates[i])

KInv == IInv /\ Gathered /\ GatesTold

\* A call that has ended stays as it is, and the others are not its concern.
LEMMA GatheredStays ==
    ASSUME Gathered, TypeOK, NEW c \in Calls,
           \A d \in Calls \ {c} : /\ step'[d] = step[d] /\ status'[d] = status[d]
                                  /\ req'[d] = req[d] /\ frames'[d] = frames[d]
                                  /\ acks'[d] = acks[d] /\ observed'[d] = observed[d],
           \A f \in flying' : f \in flying \/ f[1] = c,
           step'[c] = "await" => Len(frames'[c]) > 0,
           step'[c] = "poll" => Len(frames'[c]) > 0 /\ Took(c)',
           status'[c] = "accepted" => Evidence(c)',
           Blocked(c)' => \A f \in flying' : f[1] # c
    PROVE  Gathered'
<1>1. ASSUME NEW d \in Calls, d # c
      PROVE  /\ step'[d] = "await" => Len(frames'[d]) > 0
             /\ step'[d] = "poll" => Len(frames'[d]) > 0 /\ Took(d)'
             /\ status'[d] = "accepted" => Evidence(d)'
             /\ Blocked(d)' => \A f \in flying' : f[1] # d
  BY <1>1 DEF Gathered, Took, Evidence, Blocked
<1> QED BY <1>1, Zenon DEF Gathered

LEMMA NextGathered ==
    ASSUME IInv, Gathered, [Next]_vars
    PROVE  Gathered'
<1> USE DEF IInv
<1>t. /\ step \in [Calls -> {"idle", "send", "await", "poll", "ended", "recorded"}]
      /\ req \in [Calls -> Requests \cup {None}] /\ frames \in [Calls -> Seq(Frames)]
      /\ acks \in [Calls -> Seq(Acks)] /\ status \in [Calls -> Statuses \cup {None}]
      /\ observed \in [Calls -> BOOLEAN]
      /\ \A c \in Calls : status[c] = None <=> step[c] \in {"idle", "send", "await", "poll"}
      /\ None \notin Statuses
  BY SettingsAssumption DEF TypeOK
<1>n. None # "accepted" /\ None # "hardware-transmit-blocked"
  BY <1>t DEF Statuses
<1>1. ASSUME NEW c \in Calls, Begin(c) PROVE Gathered'
  <2>1. PICK r \in Requests :
           /\ req' = [req EXCEPT ![c] = r]
           /\ status' = [status EXCEPT ![c] = Refusal(r)]
           /\ step' = [step EXCEPT ![c] = IF Refusal(r) = None THEN "send" ELSE "ended"]
    BY <1>1, Zenon DEF Begin
  <2>2. step[c] = "idle" /\ UNCHANGED <<frames, acks, observed, flying>>
    BY <1>1 DEF Begin, linkVars
  <2>3. /\ status'[c] # "accepted" /\ step'[c] \in {"send", "ended"}
        /\ \A d \in Calls \ {c} : /\ status'[d] = status[d] /\ step'[d] = step[d]
                                  /\ req'[d] = req[d]
    BY <2>1, <1>t, RefusalFacts
  <2>4. \A f \in flying : f[1] # c
    BY <2>2 DEF FramesCounted
  <2> QED BY <2>2, <2>3, <2>4, GatheredStays
<1>2. ASSUME NEW c \in Calls, Send(c) PROVE Gathered'
  <2>1. /\ step' = [step EXCEPT ![c] = "await"]
        /\ frames' = [frames EXCEPT ![c] = Append(@, Frame(c))]
        /\ flying' = flying \cup {<<c, Len(frames[c]) + 1>>} /\ step[c] = "send"
        /\ UNCHANGED <<req, acks, observed, status>>
    BY <1>2 DEF Send
  <2>2. /\ step'[c] = "await" /\ status'[c] = None
        /\ \A d \in Calls \ {c} : step'[d] = step[d] /\ frames'[d] = frames[d]
    BY <2>1, <1>t
  <2>3. Len(frames'[c]) > 0
    <3>1. frames'[c] = Append(frames[c], Frame(c)) /\ frames[c] \in Seq(Frames)
      BY <2>1, <1>t
    <3>2. Frame(c) \in Frames
      BY <2>1, FrameOK
    <3> QED BY <3>1, <3>2
  <2>4. \A f \in flying' : f \in flying \/ f[1] = c
    BY <2>1
  <2>5. ~Blocked(c)' /\ status'[c] # "accepted"
    BY <2>2, <1>n DEF Blocked
  <2> QED BY <2>1, <2>2, <2>3, <2>4, <2>5, GatheredStays
<1>3. ASSUME NEW c \in Calls, SendFails(c) PROVE Gathered'
  <2>1. /\ step'[c] = "ended" /\ status'[c] = "transmit-failed"
        /\ UNCHANGED <<req, frames, acks, observed>>
        /\ \A d \in Calls \ {c} : step'[d] = step[d] /\ status'[d] = status[d]
    BY <1>3, <1>t DEF SendFails, Return
  <2>2. \A f \in flying' : f \in flying \/ f[1] = c
    BY <1>3 DEF SendFails
  <2> QED BY <2>1, <2>2, GatheredStays DEF Blocked
<1>4. ASSUME NEW c \in Calls, Await(c) PROVE Gathered'
  <2>1. PICK a \in Heard :
           /\ acks' = [acks EXCEPT ![c] = Append(@, a)]
           /\ step' = [step EXCEPT ![c] = IF Takes(a) THEN "poll" ELSE NextStep(c)]
           /\ status' = IF step'[c] = "ended"
                        THEN [status EXCEPT ![c] = "ack-not-accepted"] ELSE status
    BY <1>4, Zenon DEF Await
  <2>2. step[c] = "await" /\ UNCHANGED <<req, frames, observed, flying>>
    BY <1>4 DEF Await, linkVars
  <2>3. /\ step'[c] = IF Takes(a) THEN "poll" ELSE NextStep(c)
        /\ status'[c] \in {None, "ack-not-accepted"}
        /\ \A d \in Calls \ {c} : /\ step'[d] = step[d] /\ status'[d] = status[d]
                                  /\ acks'[d] = acks[d]
    BY <2>1, <2>2, <1>t
  <2>4. Takes(a) => Took(c)'
    <3>1. acks'[c] = Append(acks[c], a) /\ acks[c] \in Seq(Acks)
      BY <2>1, <1>t
    <3>2. a \in Acks
      BY <2>1, HeardFacts
    <3>3. /\ Len(acks'[c]) \in 1..Len(acks'[c])
          /\ acks'[c][Len(acks'[c])] = a
      BY <3>1, <3>2
    <3> QED BY <3>3, Zenon DEF Took, Takes
  <2>5. Len(frames[c]) > 0
    BY <2>2 DEF Gathered
  <2>6. /\ step'[c] # "await" /\ status'[c] # "accepted" /\ ~Blocked(c)'
        /\ step'[c] = "poll" => Len(frames'[c]) > 0 /\ Took(c)'
    BY <2>2, <2>3, <2>4, <2>5, <1>n DEF Blocked, NextStep
  <2> QED BY <2>2, <2>3, <2>6, GatheredStays
<1>5. ASSUME NEW c \in Calls, Poll(c) PROVE Gathered'
  <2>1. PICK o \in BOOLEAN :
           /\ observed' = [observed EXCEPT ![c] = o]
           /\ status' = [status EXCEPT ![c] = IF o THEN "accepted" ELSE "post-state-not-observed"]
           /\ step' = [step EXCEPT ![c] = "ended"]
    BY <1>5, Zenon DEF Poll, Return
  <2>2. step[c] = "poll" /\ UNCHANGED <<req, frames, acks, flying>>
    BY <1>5 DEF Poll, linkVars
  <2>3. /\ step'[c] = "ended"
        /\ status'[c] = "accepted" => observed'[c]
        /\ status'[c] # "hardware-transmit-blocked"
        /\ \A d \in Calls \ {c} : /\ step'[d] = step[d] /\ status'[d] = status[d]
                                  /\ observed'[d] = observed[d]
    BY <2>1, <1>t
  <2>4. Len(frames[c]) > 0 /\ Took(c) /\ Check(req[c])
    BY <2>2 DEF Gathered, FramesCounted, Running, Cleared
  <2>5. status'[c] = "accepted" => Evidence(c)'
    BY <2>2, <2>3, <2>4 DEF Evidence, Took
  <2> QED BY <2>2, <2>3, <2>5, GatheredStays DEF Blocked
<1>6. ASSUME NEW c \in Calls, AwaitFails(c) \/ PollFails(c) PROVE Gathered'
  <2>1. /\ step'[c] = "ended"
        /\ status'[c] \in {"ack-observation-failed", "post-state-poll-failed"}
        /\ UNCHANGED <<req, frames, acks, observed, flying>>
        /\ \A d \in Calls \ {c} : step'[d] = step[d] /\ status'[d] = status[d]
    BY <1>6, <1>t DEF AwaitFails, PollFails, Return, linkVars
  <2> QED BY <2>1, GatheredStays DEF Blocked
<1>7. ASSUME NEW c \in Calls, RecordCommandGateResult(c) PROVE Gathered'
  <2>1. /\ step'[c] = "recorded" /\ UNCHANGED <<req, frames, acks, observed, flying, status>>
        /\ \A d \in Calls \ {c} : step'[d] = step[d]
    BY <1>7, <1>t DEF RecordCommandGateResult, linkVars
  <2> QED BY <2>1, GatheredStays DEF Gathered, Blocked, Evidence, Took
<1>8. ASSUME UNCHANGED <<callVars, flying>> PROVE Gathered'
  BY <1>8 DEF Gathered, callVars, Evidence, Took, Blocked
<1>9. CASE RejectHandoffHardwareCommand \/ UNCHANGED vars \/ \E s \in Shared : Overhear(s)
  BY <1>8, <1>9 DEF RejectHandoffHardwareCommand, Overhear, vars, linkVars
<1>10. ASSUME NEW f \in flying, Execute(f) \/ Refuse(f) PROVE Gathered'
  BY <1>8, <1>10 DEF Execute, Refuse
<1> QED
  BY <1>1, <1>2, <1>3, <1>4, <1>5, <1>6, <1>7, <1>9, <1>10 DEF Next, Transmit

\* The views made of an ended call and of a refused hand-off are true.
LEMMA ViewsTold ==
    /\ \A c \in Calls : Gathered /\ TypeOK => Told(GateView(c))
    /\ Told(HandoffView)
<1>1. ASSUME NEW c \in Calls, Gathered, TypeOK PROVE Told(GateView(c))
  <2> DEFINE view == GateView(c)
  <2>1. /\ view.call = c /\ view.frames = Len(frames[c])
        /\ view.accepted <=> status[c] = "accepted"
        /\ view.preflight <=> ~Blocked(c) /\ Check(req[c])
        /\ view.simulator <=> ~Blocked(c) /\ Normalize(req[c].mode) = "simulator"
        /\ view.ack <=> Took(c)
        /\ view.post <=> observed[c]
        /\ view.block <=> Blocked(c)
    BY Zenon DEF GateView, Took
  <2> HIDE DEF view
  <2>2. view.accepted => Evidence(c) /\ ~Blocked(c)
    BY <1>1, <2>1 DEF Gathered, Blocked
  <2>3. Check(req[c]) => Normalize(req[c].mode) = "simulator"
    BY Zenon DEF Check
  <2>4. Told(view)
    BY <2>1, <2>2, <2>3, Zenon DEF Told, Evidence
  <2> QED BY <2>4 DEF view
<1>2. Told(HandoffView)
  <2>1. None \notin Calls
    BY SettingsAssumption
  <2> QED BY <2>1, Zenon DEF Told, HandoffView
<1> QED BY <1>1, <1>2

\* Kept adds a view in front and may drop the last.
LEMMA KeptTold ==
    ASSUME TypeOK, GatesTold, NEW v \in Views, Told(v), gates' = Kept(v),
           \A view : Told(view) => Told(view)'
    PROVE  GatesTold'
<1>1. gates \in Seq(Views) /\ Len(gates) <= MaxGates /\ MaxGates \in Nat \ {0}
  BY SettingsAssumption DEF TypeOK
<1> DEFINE longer == <<v>> \o gates
<1>2. /\ longer \in Seq(Views) /\ Len(longer) = Len(gates) + 1 /\ longer[1] = v
      /\ \A i \in 2..(Len(gates) + 1) : longer[i] = gates[i - 1]
  BY <1>1
<1>3. \A i \in 1..Len(longer) : Told(longer[i])
  <2> SUFFICES ASSUME NEW i \in 1..Len(longer) PROVE Told(longer[i])
    OBVIOUS
  <2>1. CASE i = 1
    BY <1>2, <2>1
  <2>2. CASE i # 1
    <3>1. i \in 2..(Len(gates) + 1) /\ i - 1 \in 1..Len(gates)
      BY <1>1, <1>2, <2>2
    <3>2. longer[i] = gates[i - 1]
      BY <1>2, <3>1
    <3> QED BY <3>1, <3>2 DEF GatesTold
  <2> QED BY <2>1, <2>2
<1>4. /\ Len(gates') \in Nat /\ Len(gates') <= Len(longer)
      /\ \A i \in 1..Len(gates') : gates'[i] = longer[i]
  <2>1. CASE Len(gates) < MaxGates
    BY <1>1, <1>2, <2>1 DEF Kept
  <2>2. CASE ~(Len(gates) < MaxGates)
    <3>1. Len(gates) = MaxGates /\ gates' = SubSeq(longer, 1, MaxGates)
      BY <1>1, <2>2 DEF Kept
    <3> HIDE DEF longer
    <3>2. /\ Len(gates') = MaxGates
          /\ \A i \in 1..MaxGates : gates'[i] = longer[i]
      BY <1>1, <1>2, <3>1
    <3> QED BY <1>1, <1>2, <3>1, <3>2
  <2> QED BY <2>1, <2>2
<1> HIDE DEF longer
<1>5. ASSUME NEW i \in 1..Len(gates') PROVE Told(gates'[i])
  <2>1. i \in 1..Len(longer) /\ gates'[i] = longer[i]
    BY <1>2, <1>4
  <2> QED BY <1>3, <2>1
<1> QED BY <1>5 DEF GatesTold

\* A blocked call stays blocked.
LEMMA BlockedStays ==
    ASSUME TypeOK, [Next]_vars, NEW c \in Calls, Blocked(c)
    PROVE  Blocked(c)'
<1>1. /\ status \in [Calls -> Statuses \cup {None}] /\ status[c] # None
      /\ step[c] \notin {"idle", "send", "await", "poll"}
      /\ step \in [Calls -> {"idle", "send", "await", "poll", "ended", "recorded"}]
  BY SettingsAssumption DEF TypeOK, Blocked, Statuses
<1>2. ASSUME NEW d \in Calls, step[d] \in {"idle", "send", "await", "poll"},
             \E s : status' = [status EXCEPT ![d] = s]
      PROVE  status'[c] = status[c]
  BY <1>1, <1>2
<1>3. ASSUME NEW d \in Calls, Begin(d) PROVE status'[c] = status[c]
  <2>1. step[d] = "idle" /\ \E s : status' = [status EXCEPT ![d] = s]
    BY <1>3, Zenon DEF Begin
  <2> QED BY <1>2, <2>1
<1>4. ASSUME NEW d \in Calls, Await(d) PROVE status'[c] = status[c]
  <2>1. /\ step[d] = "await"
        /\ status' = status \/ \E s : status' = [status EXCEPT ![d] = s]
    BY <1>4, Zenon DEF Await
  <2> QED BY <1>2, <2>1
<1>5. ASSUME NEW d \in Calls, SendFails(d) \/ AwaitFails(d) \/ Poll(d) \/ PollFails(d)
      PROVE  status'[c] = status[c]
  <2>1. /\ step[d] \in {"send", "await", "poll"}
        /\ \E s : status' = [status EXCEPT ![d] = s]
    BY <1>5, Zenon DEF SendFails, AwaitFails, Poll, PollFails, Return
  <2> QED BY <1>2, <2>1
<1>6. ASSUME NEW d \in Calls, Send(d) \/ RecordCommandGateResult(d) PROVE status' = status
  BY <1>6 DEF Send, RecordCommandGateResult
<1>7. ASSUME RejectHandoffHardwareCommand \/ UNCHANGED vars \/ \E s \in Shared : Overhear(s)
      PROVE  status' = status
  BY <1>7 DEF RejectHandoffHardwareCommand, Overhear, vars, callVars
<1>8. ASSUME NEW f \in flying, Execute(f) \/ Refuse(f) PROVE status' = status
  BY <1>8 DEF Execute, Refuse, callVars
<1>9. status'[c] = status[c]
  BY <1>3, <1>4, <1>5, <1>6, <1>7, <1>8 DEF Next, Transmit
<1> QED BY <1>9 DEF Blocked

LEMMA NextGatesTold ==
    ASSUME TypeOK, Gathered, GatesTold, [Next]_vars
    PROVE  GatesTold'
<1>1. \A view : Told(view) => Told(view)'
  BY BlockedStays DEF Told
<1>2. ASSUME NEW c \in Calls, RecordCommandGateResult(c) PROVE GatesTold'
  <2>1. gates' = Kept(GateView(c))
    BY <1>2 DEF RecordCommandGateResult
  <2> QED BY <1>1, <2>1, GateViewOK, ViewsTold, KeptTold
<1>3. CASE RejectHandoffHardwareCommand
  <2>1. HandoffView \in Views
    BY DEF HandoffView, Views
  <2>2. gates' = Kept(HandoffView)
    BY <1>3 DEF RejectHandoffHardwareCommand
  <2> QED BY <1>1, <2>1, <2>2, ViewsTold, KeptTold
<1>4. ASSUME gates' = gates PROVE GatesTold'
  BY <1>1, <1>4 DEF GatesTold
<1>5. ASSUME NEW c \in Calls, \/ Begin(c) \/ Send(c) \/ SendFails(c) \/ Await(c)
                               \/ AwaitFails(c) \/ Poll(c) \/ PollFails(c)
      PROVE  gates' = gates
  BY <1>5, Zenon DEF Begin, Send, SendFails, Await, AwaitFails, Poll, PollFails
<1>6. ASSUME NEW f \in flying, Execute(f) \/ Refuse(f) PROVE gates' = gates
  BY <1>6 DEF Execute, Refuse
<1>7. ASSUME UNCHANGED vars \/ \E s \in Shared : Overhear(s) PROVE gates' = gates
  BY <1>7 DEF Overhear, vars
<1> QED BY <1>2, <1>3, <1>4, <1>5, <1>6, <1>7 DEF Next, Transmit

\* What the store shows as accepted has all of its evidence, and what it shows
\* as blocked never touched the link, then or later.
THEOREM ViewsAlwaysCarryEvidence == Spec => []ViewsCarryEvidence
<1>1. Init => KInv
  <2> SUFFICES ASSUME Init PROVE KInv
    OBVIOUS
  <2>1. None # "accepted" /\ None # "hardware-transmit-blocked"
    BY SettingsAssumption DEF Statuses
  <2>2. Gathered
    BY <2>1 DEF Init, Gathered, Blocked
  <2>3. GatesTold
    BY DEF Init, GatesTold
  <2> QED BY <2>2, <2>3, InitIInv DEF KInv
<1>2. KInv /\ [Next]_vars => KInv'
  <2>1. IInv /\ [Next]_vars => IInv'
    BY NextTypeOK, NextFramesCounted, NextFramesNumbered, NextTakenOnce DEF IInv
  <2> QED BY <2>1, NextGathered, NextGatesTold DEF KInv, IInv
<1>3. KInv => ViewsCarryEvidence
  <2> SUFFICES ASSUME KInv, NEW i \in 1..Len(gates)
               PROVE  /\ gates[i].accepted => /\ gates[i].preflight /\ gates[i].simulator
                                              /\ gates[i].frames > 0 /\ gates[i].ack
                                              /\ gates[i].post
                      /\ gates[i].block => /\ ~gates[i].simulator
                                           /\ \A f \in flying : f[1] # gates[i].call
    BY Zenon DEF ViewsCarryEvidence
  <2>1. Told(gates[i])
    BY Zenon DEF KInv, GatesTold
  <2>2. flying \subseteq Calls \X Nat
    BY DEF KInv, IInv, TypeOK
  <2>3. \A f \in flying : f[1] \in Calls
    BY <2>2
  <2>4. \A c \in Calls : Blocked(c) => \A f \in flying : f[1] # c
    BY DEF KInv, Gathered
  <2> QED BY <2>1, <2>3, <2>4, Zenon DEF Told
<1> QED BY <1>1, <1>2, <1>3, PTL DEF Spec
=============================================================================
