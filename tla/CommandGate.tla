----------------------------- MODULE CommandGate -----------------------------
(***************************************************************************)
(* The simulator command gate (internal/commandgate): Transmit clears a    *)
(* request, sends COMMAND_LONG frames until an acknowledgement accepts one *)
(* and asks for the state afterwards; the store (internal/gcs/store.go)    *)
(* keeps what came of it, and what the hand-off API turned away.           *)
(*                                                                         *)
(* Calls run at once and share one link to several vehicles. The           *)
(* transmitter, the observer of acknowledgements and the poller are        *)
(* interfaces, the vehicles behind them are external: frames are lost,     *)
(* repeated and reordered, and the observer hands out whatever             *)
(* acknowledgement is about: an earlier attempt's, another call's, another *)
(* vehicle's, or the answer to another ground station's command, the one   *)
(* the gate sends included. Transmit tells the observer its target but     *)
(* compares the command and the result of what comes back, not its source. *)
(***************************************************************************)
EXTENDS Integers, Sequences

CONSTANTS
    Calls,            \* calls of Transmit
    Requests,         \* what callers ask for
    Systems,          \* system ids of the vehicles on the link
    Shared,           \* those another ground station commands as well
    AllowedProfiles,  \* PreflightGate, after withDefaults
    AllowedVerbs,
    MaxAttempts,
    Byte,             \* values of a uint8, 256
    MaxGates,         \* gate results the store keeps, 50
    None

Confirmations == {"local-override", "ack-required", "post-state-polling",
                  "simulator-confirmed", "abort-ready"}

\* TransmitResult.Status of a call that has ended.
Statuses == {"hardware-transmit-blocked", "preflight-rejected", "transmit-unavailable",
             "invalid-target", "transmit-failed", "ack-observation-failed",
             "post-state-poll-failed", "post-state-not-observed",
             "ack-not-accepted", "accepted"}

ASSUME RequestsAssumption ==
    \A r \in Requests :
        /\ r.attempts \in Int /\ r.sequence \in 0..(Byte - 1)
        /\ r.confirmed \subseteq Confirmations
        /\ r.sender \in BOOLEAN /\ r.wired \in BOOLEAN
        /\ r.target \in Systems \cup {None}
ASSUME SettingsAssumption ==
    /\ MaxAttempts \in Nat \ {0} /\ Byte \in Nat \ {0} /\ MaxGates \in Nat \ {0}
    /\ None \notin Requests /\ None \notin Statuses
    /\ None \notin Calls /\ None \notin Systems
    /\ Shared \subseteq Systems

\* The bound on attempts that keeps uint8(attempt - 1) from wrapping.
AttemptsFitByte == MaxAttempts <= Byte

VARIABLES
    step,      \* where a call of Transmit is
    req,       \* its request
    frames,    \* FrameEvidence, one for each attempt sent
    acks,      \* ACKEvidence, one for each attempt answered
    observed,  \* PostStateEvidence.Observed
    status,    \* TransmitResult.Status, None while the call runs
    flying,    \* frames on the link: <<call, attempt>>
    executed,  \* vehicles that have accepted a frame of this gate
    refused,   \* vehicles that have refused one
    foreign,   \* vehicles that have answered another ground station
    gates      \* Store.commandGates, newest first

callVars == <<step, req, frames, acks, observed, status>>
linkVars == <<flying, executed, refused, foreign>>
vars == <<callVars, linkVars, gates>>

-----------------------------------------------------------------------------
(* Clearing a request.                                                     *)

\* normalize: case, blanks and underscores do not matter.
Normalize(s) ==
    CASE s \in {"Simulator", " SIMULATOR"} -> "simulator"
      [] s \in {"Hardware", "HARDWARE "}   -> "hardware"
      [] s = "Request_Autopilot_Version"   -> "request-autopilot-version"
      [] OTHER                             -> s

\* Fault: abort readiness is not asked for.
Check_NoAbort(r) ==
    /\ Normalize(r.mode) = "simulator"
    /\ Normalize(r.profile) \in AllowedProfiles
    /\ Normalize(r.verb) \in AllowedVerbs
    /\ r.entity # "" /\ r.by # "" /\ r.sender
    /\ r.attempts \in 1..MaxAttempts
    /\ Confirmations \ {"abort-ready"} \subseteq r.confirmed

\* PreflightGate.Check accepts.
Check(r) ==
    /\ Normalize(r.mode) = "simulator"
    /\ Normalize(r.profile) \in AllowedProfiles
    /\ Normalize(r.verb) \in AllowedVerbs
    /\ r.entity # "" /\ r.by # "" /\ r.sender
    /\ r.attempts \in 1..MaxAttempts
    /\ r.confirmed = Confirmations

\* The early returns of Transmit, in their order, or None. r.wired says
\* whether the caller's gate has its three interfaces, r.target is None when a
\* target id is zero.
Refusal(r) ==
    IF Normalize(r.mode) = "hardware" THEN "hardware-transmit-blocked"
    ELSE IF ~Check(r) THEN "preflight-rejected"
    ELSE IF ~r.wired THEN "transmit-unavailable"
    ELSE IF r.target = None THEN "invalid-target"
    ELSE None

-----------------------------------------------------------------------------
Init ==
    /\ step = [c \in Calls |-> "idle"]
    /\ req = [c \in Calls |-> None]
    /\ frames = [c \in Calls |-> <<>>]
    /\ acks = [c \in Calls |-> <<>>]
    /\ observed = [c \in Calls |-> FALSE]
    /\ status = [c \in Calls |-> None]
    /\ flying = {}
    /\ executed = {}
    /\ refused = {}
    /\ foreign = {}
    /\ gates = <<>>

(* Transmit.                                                               *)

Begin(c) ==
    /\ step[c] = "idle"
    /\ \E r \in Requests :
           /\ req' = [req EXCEPT ![c] = r]
           /\ status' = [status EXCEPT ![c] = Refusal(r)]
           /\ step' = [step EXCEPT ![c] = IF Refusal(r) = None THEN "send" ELSE "ended"]
    /\ UNCHANGED <<frames, acks, observed, linkVars, gates>>

\* The call returns.
Return(c, s) ==
    /\ status' = [status EXCEPT ![c] = s]
    /\ step' = [step EXCEPT ![c] = "ended"]

\* Fault: a retry is the same frame again.
Frame_Same(c) == [confirmation |-> 0, sequence |-> req[c].sequence]

\* The frame of the next attempt: confirmation and sequence are uint8.
Frame(c) ==
    LET confirmation == Len(frames[c]) % Byte
    IN  [confirmation |-> confirmation,
         sequence     |-> (req[c].sequence + confirmation) % Byte]

Send(c) ==
    /\ step[c] = "send"
    /\ frames' = [frames EXCEPT ![c] = Append(@, Frame(c))]
    /\ flying' = flying \cup {<<c, Len(frames[c]) + 1>>}
    /\ step' = [step EXCEPT ![c] = "await"]
    /\ UNCHANGED <<req, acks, observed, status, executed, refused, foreign, gates>>

\* The transmitter reports an error. The frame may be on the link all the same.
SendFails(c) ==
    /\ step[c] = "send"
    /\ flying' \in {flying, flying \cup {<<c, Len(frames[c]) + 1>>}}
    /\ Return(c, "transmit-failed")
    /\ UNCHANGED <<req, frames, acks, observed, executed, refused, foreign, gates>>

AckFrom(s, command, accepted) == [source |-> s, command |-> command, accepted |-> accepted]

\* What AwaitCommandACK may hand out: a vehicle's answer to this gate, or
\* whatever it answers another ground station.
Heard ==
    {AckFrom(s, "request-message", TRUE) : s \in executed}
    \cup {AckFrom(s, "request-message", FALSE) : s \in refused}
    \cup [source : foreign, command : {"request-message", "other"}, accepted : BOOLEAN]

\* Fault: the command of an acknowledgement is not looked at.
Takes_AnyCommand(a) == a.accepted

\* Whether the loop goes on to the post-state with this acknowledgement.
Takes(a) == a.command = "request-message" /\ a.accepted

\* The head of the loop.
NextStep(c) == IF Len(frames[c]) < req[c].attempts THEN "send" ELSE "ended"

\* Fault: only acknowledgements that are not taken are kept as evidence.
Await_KeepsRefusals(c) ==
    /\ step[c] = "await"
    /\ \E a \in Heard :
           /\ acks' = IF Takes(a) THEN acks ELSE [acks EXCEPT ![c] = Append(@, a)]
           /\ step' = [step EXCEPT ![c] = IF Takes(a) THEN "poll" ELSE NextStep(c)]
           /\ status' = IF step'[c] = "ended"
                        THEN [status EXCEPT ![c] = "ack-not-accepted"] ELSE status
    /\ UNCHANGED <<req, frames, observed, linkVars, gates>>

\* AwaitCommandACK returns an acknowledgement: the loop goes on to the state
\* afterwards, to the next attempt, or ends.
Await(c) ==
    /\ step[c] = "await"
    /\ \E a \in Heard :
           /\ acks' = [acks EXCEPT ![c] = Append(@, a)]
           /\ step' = [step EXCEPT ![c] = IF Takes(a) THEN "poll" ELSE NextStep(c)]
           /\ status' = IF step'[c] = "ended"
                        THEN [status EXCEPT ![c] = "ack-not-accepted"] ELSE status
    /\ UNCHANGED <<req, frames, observed, linkVars, gates>>

\* No acknowledgement in time: the call ends, retries are for refusals.
AwaitFails(c) ==
    /\ step[c] = "await"
    /\ Return(c, "ack-observation-failed")
    /\ UNCHANGED <<req, frames, acks, observed, linkVars, gates>>

\* Fault: a state that is not observed is asked for with another attempt.
Poll_Retries(c) ==
    /\ step[c] = "poll"
    /\ \E o \in BOOLEAN :
           /\ observed' = [observed EXCEPT ![c] = o]
           /\ IF o THEN Return(c, "accepted")
              ELSE /\ step' = [step EXCEPT ![c] = NextStep(c)]
                   /\ status' = IF step'[c] = "ended"
                        THEN [status EXCEPT ![c] = "post-state-not-observed"] ELSE status
    /\ UNCHANGED <<req, frames, acks, linkVars, gates>>

\* PollPostState answers, one way or the other.
Poll(c) ==
    /\ step[c] = "poll"
    /\ \E o \in BOOLEAN :
           /\ observed' = [observed EXCEPT ![c] = o]
           /\ Return(c, IF o THEN "accepted" ELSE "post-state-not-observed")
    /\ UNCHANGED <<req, frames, acks, linkVars, gates>>

PollFails(c) ==
    /\ step[c] = "poll"
    /\ Return(c, "post-state-poll-failed")
    /\ UNCHANGED <<req, frames, acks, observed, linkVars, gates>>

-----------------------------------------------------------------------------
(* The store.                                                              *)

Blocked(c) == status[c] = "hardware-transmit-blocked"

\* The view RecordCommandGateResult makes of a result. A blocked call never
\* came to the preflight.
GateView(c) ==
    [call      |-> c,
     accepted  |-> status[c] = "accepted",
     preflight |-> ~Blocked(c) /\ Check(req[c]),
     simulator |-> ~Blocked(c) /\ Normalize(req[c].mode) = "simulator",
     frames    |-> Len(frames[c]),
     ack       |-> \E i \in 1..Len(acks[c]) : acks[c][i].accepted,
     post      |-> observed[c],
     block     |-> Blocked(c)]

\* What rejectHandoffHardwareCommand records.
HandoffView ==
    [call |-> None, accepted |-> FALSE, preflight |-> FALSE, simulator |-> FALSE,
     frames |-> 0, ack |-> FALSE, post |-> FALSE, block |-> TRUE]

\* Fault: the list is never cut.
Kept_All(view) == <<view>> \o gates

Kept(view) ==
    IF Len(gates) < MaxGates THEN <<view>> \o gates
    ELSE SubSeq(<<view>> \o gates, 1, MaxGates)

\* A caller of Transmit may hand its result to the store.
RecordCommandGateResult(c) ==
    /\ step[c] = "ended"
    /\ gates' = Kept(GateView(c))
    /\ step' = [step EXCEPT ![c] = "recorded"]
    /\ UNCHANGED <<req, frames, acks, observed, status, linkVars>>

\* A command POSTed to a hand-off package that is hardware-readonly.
RejectHandoffHardwareCommand ==
    /\ gates' = Kept(HandoffView)
    /\ UNCHANGED <<callVars, linkVars>>

-----------------------------------------------------------------------------
(* The link and the vehicles.                                              *)

\* The vehicle a frame is for.
Addressee(f) == req[f[1]].target

\* A vehicle hears a frame, perhaps again, and accepts or refuses it.
Execute(f) ==
    /\ executed' = executed \cup {Addressee(f)}
    /\ UNCHANGED <<callVars, flying, refused, foreign, gates>>

Refuse(f) ==
    /\ refused' = refused \cup {Addressee(f)}
    /\ UNCHANGED <<callVars, flying, executed, foreign, gates>>

\* A vehicle answers another ground station's command, this gate's kind of
\* command included, and can be overheard from here on.
Overhear(s) ==
    /\ foreign' = foreign \cup {s}
    /\ UNCHANGED <<callVars, flying, executed, refused, gates>>

Transmit(c) ==
    \/ Send(c) \/ SendFails(c)
    \/ Await(c) \/ AwaitFails(c)
    \/ Poll(c) \/ PollFails(c)

Next ==
    \/ \E c \in Calls : Begin(c) \/ Transmit(c) \/ RecordCommandGateResult(c)
    \/ RejectHandoffHardwareCommand
    \/ \E f \in flying : Execute(f) \/ Refuse(f)
    \/ \E s \in Shared : Overhear(s)

Spec == Init /\ [][Next]_vars

-----------------------------------------------------------------------------
Frames == [confirmation : 0..(Byte - 1), sequence : 0..(Byte - 1)]
Views == [call : Calls \cup {None}, accepted : BOOLEAN, preflight : BOOLEAN,
          simulator : BOOLEAN, frames : Nat, ack : BOOLEAN, post : BOOLEAN,
          block : BOOLEAN]
Acks == [source : Systems, command : {"request-message", "other"}, accepted : BOOLEAN]

TypeOK ==
    /\ step \in [Calls -> {"idle", "send", "await", "poll", "ended", "recorded"}]
    /\ req \in [Calls -> Requests \cup {None}]
    /\ frames \in [Calls -> Seq(Frames)]
    /\ acks \in [Calls -> Seq(Acks)]
    /\ observed \in [Calls -> BOOLEAN]
    /\ status \in [Calls -> Statuses \cup {None}]
    /\ flying \subseteq Calls \X Nat
    /\ executed \cup refused \subseteq {Addressee(f) : f \in flying}
    /\ foreign \subseteq Shared
    /\ gates \in Seq(Views) /\ Len(gates) <= MaxGates
    /\ \A c \in Calls : status[c] = None <=> step[c] \in {"idle", "send", "await", "poll"}

\* "The command must pass a safety profile, local override, narrow allowlist,
\* ACK requirement, post-state polling requirement, simulator-only
\* confirmation, and abort-ready confirmation" before it is on the link
\* (openspec/specs/rules-and-command-safety/spec.md:43), and no call puts more
\* frames there than the gate allows.
OnlyClearedFrames ==
    \A f \in flying :
        /\ f[2] \in 1..MaxAttempts
        /\ Normalize(req[f[1]].mode) = "simulator"
        /\ Normalize(req[f[1]].profile) \in AllowedProfiles
        /\ Normalize(req[f[1]].verb) \in AllowedVerbs
        /\ Confirmations \subseteq req[f[1]].confirmed

\* A vehicle can tell a retry from a repeated frame, and one retry from
\* another (transmit.go: confirmation and sequence of an attempt).
RetriesTellApart ==
    \A c \in Calls : \A i, j \in 1..Len(frames[c]) :
        i # j => /\ frames[c][i].confirmation # frames[c][j].confirmation
                 /\ frames[c][i].sequence # frames[c][j].sequence

\* A call is accepted only on the evidence of an acceptance of this command, and
\* its source is a vehicle that accepted a frame this gate had cleared for it,
\* or one that has answered another ground station.
\* Whether it is the vehicle of the call's own target is not promised: Transmit
\* does not look (transmit.go:198; transmit_test.go:15-41 takes system 42 for
\* target 1).
AcceptedOnEvidence ==
    \A c \in Calls : status[c] = "accepted" =>
        \E i \in 1..Len(acks[c]) :
            /\ acks[c][i].command = "request-message" /\ acks[c][i].accepted
            /\ acks[c][i].source \in executed \cup foreign

\* Nothing more is sent for a command once the vehicle has taken it: the call
\* looks at the state afterwards and ends.
SilentOnceTaken ==
    [][\A c \in Calls :
          frames'[c] # frames[c] =>
             \A i \in 1..Len(acks[c]) : ~Takes(acks[c][i])]_vars

\* What the store shows as accepted carries all of its evidence, and what it
\* shows as blocked never touched the link (evidence-api.md:55).
ViewsCarryEvidence ==
    \A i \in 1..Len(gates) :
        /\ gates[i].accepted => /\ gates[i].preflight /\ gates[i].simulator
                                /\ gates[i].frames > 0 /\ gates[i].ack /\ gates[i].post
        /\ gates[i].block => /\ ~gates[i].simulator
                             /\ \A f \in flying : f[1] # gates[i].call
=============================================================================
