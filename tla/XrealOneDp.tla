----------------------------- MODULE XrealOneDp -----------------------------
(***************************************************************************)
(* Switching the display profile of XREAL One glasses: setDisplayProfile() *)
(* and verifyDpState() of XrealOneFamilySession.kt over the DP RPC client  *)
(* of xreal_one_dp_jni.cpp.  A profile is a pair of an EDID and an input   *)
(* mode, written by two commands; each command travels on a TCP connection *)
(* of its own and the glasses may drop off the network while they switch.  *)
(*                                                                         *)
(* The glasses serve the requests they received one after the other, also  *)
(* those whose client has hung up; re-enumerating loses what they have not *)
(* served and ends the connection.                                         *)
(***************************************************************************)
EXTENDS Naturals, Sequences

CONSTANTS
    Profiles,        \* the profiles the application asks for
    SendAttempts,    \* attempts of send_command_with_retries(), 8 in the code
    MaxRounds,       \* bound: rounds of verifyDpState() within its 7 seconds
    MaxCalls,        \* bound: calls of setDisplayProfile()
    MaxFaults,       \* bound: faults of the network and of the glasses
    Null, Other      \* nothing was read; a value that is of no profile

\* What the module assumes of its constants.
DpAssumption ==
    /\ SendAttempts \in Nat \ {0}
    /\ MaxRounds \in Nat \ {0} /\ MaxCalls \in Nat /\ MaxFaults \in Nat
    /\ Null # Other /\ Null \notin Profiles /\ Other \notin Profiles
    /\ {"none", "ok", "refused"} \cap (Profiles \cup {Null, Other}) = {}

\* An EDID or an input mode, by the profile it belongs to.
Value == Profiles \cup {Other}

\* One Pro has the protocol parameters of the 1S.
Models == {"one", "oneS"}

Setters == {"setEdid", "setInput"}
Command == Setters \cup {"getEdid", "getInput"}
Request == [command: Command, value: Value, connection: Nat]

VARIABLES
    model,           \* the glasses' model, which chooses displayModeProtocol
    edid, input,     \* what the glasses are set to, by the profile it is of
    inbox,           \* requests the glasses have received and not served
    connection,      \* number of the client's current TCP connection
    connected,       \* the glasses have not dropped it
    answer,          \* the answer it carries: "none", "ok", "refused", a value
    phase,           \* where setDisplayProfile() is
    step,            \* where the native call of that phase is
    attempt,         \* attempts left to send_command_with_retries()
    wanted,          \* the profile asked for
    lastEdid, lastInput,                \* lastEdid, lastInputMode
    writeCount, writeConfirmed,         \* inputModeWriteCount, ...Confirmed
    rounds, calls, faults,              \* counters of the bounds
    result           \* what the last call returned

glassesVars == <<edid, input, inbox>>
netVars     == <<connection, connected, answer>>
verifyVars  == <<lastEdid, lastInput, writeCount, writeConfirmed, rounds>>
callVars    == <<wanted, calls, result>>
vars == <<model, glassesVars, netVars, phase, step, attempt, verifyVars, callVars,
          faults>>

\* The command the native call of a phase sends, and the phases of one.
CommandOf ==
    [setEdid |-> "setEdid", setInput |-> "setInput",
     readEdid |-> "getEdid", readInput |-> "getInput",
     writeInput |-> "setInput", rereadEdid |-> "getEdid",
     finalEdid |-> "getEdid", finalInput |-> "getInput"]
NativePhases == DOMAIN CommandOf
Phases == NativePhases \cup {"idle", "loop", "decide", "reread", "verdict"}
\* send_command_with_retries() is only used for the input mode.
Retried == {"setInput", "writeInput"}

Answers == {"none", "ok", "refused"} \cup Value

\* requireInputModeReadback and inputModeWriteAttempts of the model.
RequireReadback == model = "one"
WriteAttempts == IF model = "one" THEN 1 ELSE 3

Init ==
    /\ model \in Models
    /\ edid = Other /\ input = Other /\ inbox = <<>>
    /\ connection = 0 /\ connected = FALSE /\ answer = "none"
    /\ phase = "idle" /\ step = "connect" /\ attempt = 1
    /\ wanted = Other /\ lastEdid = Null /\ lastInput = Null
    /\ writeCount = 0 /\ writeConfirmed = FALSE
    /\ rounds = 0 /\ calls = 0 /\ faults = 0 /\ result = FALSE

-----------------------------------------------------------------------------
(* The glasses *)

Apply(request) ==
    /\ edid' = IF request.command = "setEdid" THEN request.value ELSE edid
    /\ input' = IF request.command = "setInput" THEN request.value ELSE input

\* What the glasses answer: the value asked for, or an acknowledgement.
AnswerTo(request) ==
    CASE request.command = "getEdid"  -> edid
      [] request.command = "getInput" -> input
      [] OTHER -> "ok"

\* Nobody reads an answer on a connection that is no longer the client's.
Reply(request, what) ==
    answer' = IF connected /\ request.connection = connection THEN what ELSE answer

\* The next request is carried out and answered ...
Serve ==
    /\ inbox # <<>>
    /\ Apply(Head(inbox)) /\ Reply(Head(inbox), AnswerTo(Head(inbox)))
    /\ inbox' = Tail(inbox)
    /\ UNCHANGED <<connection, connected, phase, step, attempt, verifyVars,
                   callVars, faults>>

\* ... or refused, or answered with something malformed, and left undone.
Refuse ==
    /\ inbox # <<>> /\ faults < MaxFaults
    /\ Reply(Head(inbox), "refused")
    /\ inbox' = Tail(inbox)
    /\ faults' = faults + 1
    /\ UNCHANGED <<edid, input, connection, connected, phase, step, attempt,
                   verifyVars, callVars>>

\* The display drops off the bus and comes back in the mode it was set to.
Reenumerate ==
    /\ connected /\ faults < MaxFaults
    /\ inbox' = <<>> /\ connected' = FALSE
    /\ faults' = faults + 1
    /\ UNCHANGED <<edid, input, connection, answer, phase, step, attempt,
                   verifyVars, callVars>>

-----------------------------------------------------------------------------
(* One native call: connect, send one request, wait for its answer          *)

\* The connection of the last call has been closed by its ScopedFd.
StartNative(next) ==
    /\ phase' = next /\ step' = "connect"
    /\ attempt' = IF next \in Retried THEN SendAttempts ELSE 1
    /\ connected' = FALSE /\ answer' = "none"
    /\ UNCHANGED connection

\* Mutant of Connect: one connection serves all commands.
ConnectOnce ==
    /\ phase \in NativePhases /\ step = "connect"
    /\ connection' = 1 /\ connected' = TRUE /\ answer' = "none"
    /\ step' = "send"
    /\ UNCHANGED <<glassesVars, phase, attempt, verifyVars, callVars, faults>>

\* connect_tcp()
Connect ==
    /\ phase \in NativePhases /\ step = "connect"
    /\ connection' = connection + 1 /\ connected' = TRUE /\ answer' = "none"
    /\ step' = "send"
    /\ UNCHANGED <<glassesVars, phase, attempt, verifyVars, callVars, faults>>

\* make_request() and send_all(): a peer that is gone may go unnoticed.
Send ==
    /\ phase \in NativePhases /\ step = "send"
    /\ inbox' = IF connected
                THEN Append(inbox, [command |-> CommandOf[phase],
                                    value |-> wanted, connection |-> connection])
                ELSE inbox
    /\ step' = "await"
    /\ UNCHANGED <<edid, input, netVars, phase, attempt, verifyVars, callVars,
                   faults>>

-----------------------------------------------------------------------------
(* What the session does with the outcome of a native call                  *)

\* setDisplayProfile(): xrealOneDpSetDisplayMode() writes the EDID first.
Start(p) ==
    /\ phase = "idle" /\ calls < MaxCalls
    /\ wanted' = p /\ calls' = calls + 1
    /\ lastEdid' = Null /\ lastInput' = Null
    /\ writeCount' = 0 /\ writeConfirmed' = FALSE /\ rounds' = 0
    /\ StartNative("setEdid")
    /\ UNCHANGED <<glassesVars, faults, result>>

\* A set command is over: done or given up.  The outcome of
\* xrealOneDpSetDisplayMode() itself is only reported, never used.
Written(done) ==
    CASE phase = "setEdid" ->
           /\ IF done THEN StartNative("setInput")
              ELSE phase' = "loop" /\ UNCHANGED <<netVars, step, attempt>>
           /\ UNCHANGED verifyVars
      [] phase = "setInput" ->
           phase' = "loop" /\ UNCHANGED <<netVars, step, attempt, verifyVars>>
      [] OTHER ->
           /\ writeConfirmed' = (writeConfirmed \/ done)
           /\ phase' = IF /\ ~RequireReadback /\ writeConfirmed'
                          /\ writeCount >= WriteAttempts
                       THEN "reread" ELSE "loop"
           /\ UNCHANGED <<netVars, step, attempt, lastEdid, lastInput,
                          writeCount, rounds>>

\* After the deadline what is still null is read once more.
FinalReads(theEdid) ==
    IF theEdid = Null /\ phase # "finalEdid" THEN StartNative("finalEdid")
    ELSE IF lastInput = Null THEN StartNative("finalInput")
    ELSE phase' = "verdict" /\ UNCHANGED <<netVars, step, attempt>>

\* A get command is over: a value, or Null when it threw.
ReadBack(v) ==
    CASE phase = "readEdid"   -> /\ StartNative("readInput") /\ lastEdid' = v
                                 /\ UNCHANGED lastInput
      [] phase = "readInput"  -> /\ phase' = "decide" /\ lastInput' = v
                                 /\ UNCHANGED <<netVars, step, attempt, lastEdid>>
      [] phase = "rereadEdid" -> /\ lastEdid' = v
                                 /\ phase' = IF v = wanted THEN "verdict" ELSE "loop"
                                 /\ UNCHANGED <<netVars, step, attempt, lastInput>>
      [] phase = "finalEdid"  -> /\ FinalReads(v) /\ lastEdid' = v
                                 /\ UNCHANGED lastInput
      [] phase = "finalInput" -> /\ phase' = "verdict" /\ lastInput' = v
                                 /\ UNCHANGED <<netVars, step, attempt, lastEdid>>

Over == UNCHANGED <<glassesVars, callVars, faults>>
OverByFault == faults < MaxFaults /\ faults' = faults + 1
               /\ UNCHANGED <<glassesVars, callVars>>

\* A set attempt failed: refused, not sent, or not connected.  The input
\* mode's is repeated on a new connection, the EDID's is not.
SetFailed ==
    IF attempt > 1
    THEN /\ attempt' = attempt - 1 /\ step' = "connect"
         /\ connected' = FALSE /\ answer' = "none"
         /\ UNCHANGED <<connection, phase, verifyVars>>
    ELSE Written(FALSE)

Setting == phase \in NativePhases /\ CommandOf[phase] \in Setters
Getting == phase \in NativePhases /\ CommandOf[phase] \notin Setters

\* read_matching_response() has the answer.
SetAnswered ==
    /\ Setting /\ step = "await" /\ answer # "none"
    /\ IF answer = "ok" THEN Written(TRUE) ELSE SetFailed
    /\ Over
GetAnswered ==
    /\ Getting /\ step = "await" /\ answer # "none"
    /\ ReadBack(IF answer = "refused" THEN Null ELSE answer)
    /\ Over /\ UNCHANGED <<writeCount, writeConfirmed, rounds>>

\* No answer: the connection was closed, or nothing came in time.  For a set
\* command that is taken for success (the glasses re-enumerate); a reset
\* connection makes recv() fail instead.
SetUnanswered ==
    /\ Setting /\ step = "await" /\ answer = "none"
    /\ \/ Written(TRUE)
       \/ ~connected /\ SetFailed
    /\ IF connected THEN OverByFault ELSE Over
GetUnanswered ==
    /\ Getting /\ step = "await" /\ answer = "none"
    /\ ReadBack(Null)
    /\ IF connected THEN OverByFault ELSE Over
    /\ UNCHANGED <<writeCount, writeConfirmed, rounds>>

\* connect_tcp() or send_all() throws.
SetNotSent ==
    /\ Setting
    /\ step = "connect" \/ (step = "send" /\ ~connected)
    /\ SetFailed
    /\ IF step = "connect" THEN OverByFault ELSE Over
GetNotSent ==
    /\ Getting
    /\ step = "connect" \/ (step = "send" /\ ~connected)
    /\ ReadBack(Null)
    /\ IF step = "connect" THEN OverByFault ELSE Over
    /\ UNCHANGED <<writeCount, writeConfirmed, rounds>>

-----------------------------------------------------------------------------
(* verifyDpState() *)

Stay == UNCHANGED <<glassesVars, wanted, calls, faults>>

Return(ok) ==
    /\ phase' = "idle" /\ result' = ok
    /\ UNCHANGED <<netVars, step, attempt>>

\* Rounds begin until the deadline, and at least one does.
Round ==
    /\ phase = "loop" /\ rounds < MaxRounds
    /\ rounds' = rounds + 1
    /\ StartNative("readEdid")
    /\ Stay /\ UNCHANGED <<lastEdid, lastInput, writeCount, writeConfirmed, result>>
DeadlineOver ==
    /\ phase = "loop" /\ rounds > 0
    /\ FinalReads(lastEdid)
    /\ Stay /\ UNCHANGED <<verifyVars, result>>

\* Mutant of Decide: the input mode that was read back is not looked at.
DecideByEdid ==
    /\ phase = "decide"
    /\ IF lastEdid = wanted THEN Return(TRUE)
       ELSE phase' = "loop" /\ UNCHANGED <<netVars, step, attempt, result>>
    /\ Stay /\ UNCHANGED verifyVars

\* Both as wanted: done.  The EDID alone: the input mode is written again.
Decide ==
    /\ phase = "decide"
    /\ CASE lastEdid = wanted /\ lastInput = wanted ->
              Return(TRUE) /\ UNCHANGED writeCount
         [] lastEdid = wanted /\ lastInput # wanted /\ writeCount < WriteAttempts ->
              /\ StartNative("writeInput") /\ writeCount' = writeCount + 1
              /\ UNCHANGED result
         [] OTHER ->
              /\ phase' = "loop"
              /\ UNCHANGED <<netVars, step, attempt, writeCount, result>>
    /\ Stay /\ UNCHANGED <<lastEdid, lastInput, writeConfirmed, rounds>>

\* The input mode's last write was confirmed: only the EDID is read again.
Reread ==
    /\ phase = "reread"
    /\ StartNative("rereadEdid")
    /\ Stay /\ UNCHANGED <<verifyVars, result>>

\* The rest of the way out: a model whose readback is unstable is content
\* with its EDID and a confirmed write of the input mode.
Verdict ==
    /\ phase = "verdict"
    /\ Return(~RequireReadback /\ lastEdid = wanted /\ writeConfirmed)
    /\ Stay /\ UNCHANGED verifyVars

Session ==
    \/ Connect \/ Send
    \/ SetAnswered \/ SetUnanswered \/ SetNotSent
    \/ GetAnswered \/ GetUnanswered \/ GetNotSent
    \/ Round \/ DeadlineOver \/ Decide \/ Reread \/ Verdict
Glasses == Serve \/ Refuse \/ Reenumerate

Next ==
    /\ Session \/ Glasses \/ \E p \in Profiles : Start(p)
    /\ UNCHANGED model

Spec == Init /\ [][Next]_vars

-----------------------------------------------------------------------------
(* Properties *)

\* Every variable stays in its type.
TypeOK ==
    /\ model \in Models
    /\ edid \in Value /\ input \in Value
    /\ inbox \in Seq(Request)
    /\ connection \in Nat /\ connected \in BOOLEAN /\ answer \in Answers
    /\ phase \in Phases /\ step \in {"connect", "send", "await"}
    /\ attempt \in 1..SendAttempts
    /\ wanted \in Value
    /\ lastEdid \in Value \cup {Null} /\ lastInput \in Value \cup {Null}
    /\ writeCount \in 0..WriteAttempts /\ writeConfirmed \in BOOLEAN
    /\ rounds \in 0..MaxRounds /\ calls \in 0..MaxCalls
    /\ faults \in 0..MaxFaults
    /\ result \in BOOLEAN

\* Each request has a connection of its own, and the one of the client's carries
\* what the present native call has sent.
RequestsInOrder ==
    /\ \A i \in DOMAIN inbox : inbox[i].connection <= connection
    /\ \A i, j \in DOMAIN inbox : i < j => inbox[i].connection < inbox[j].connection
    /\ \A i \in DOMAIN inbox : connected /\ inbox[i].connection = connection =>
         /\ step = "await"
         /\ phase \in NativePhases =>
              inbox[i].command = CommandOf[phase] /\ inbox[i].value = wanted

\* The client waits for the answer to the last request the glasses were sent:
\* once it is there they have served everything.
Awaiting == phase \in NativePhases /\ step = "await"
AnswerIsLast == phase \in NativePhases /\ answer # "none" => step = "await" /\ inbox = <<>>

\* An answer that came late, on a connection its client has given up, is never
\* taken for the answer to a later command; so the answer tells what the glasses
\* are set to.
Target(command) == IF command \in {"setEdid", "getEdid"} THEN edid ELSE input
AnswersAreTrue ==
    Awaiting =>
        /\ answer = "ok" => Setting /\ Target(CommandOf[phase]) = wanted
        /\ answer \in Value => Getting /\ answer = Target(CommandOf[phase])

\* What was read stays so: nothing that sets it can be on its way.
NonePending(commands) == \A i \in DOMAIN inbox : inbox[i].command \notin commands
ReadsAreApplied ==
    /\ lastEdid # Null => lastEdid = edid /\ phase # "setEdid" /\ NonePending({"setEdid"})
    /\ lastInput # Null /\ (phase = "decide" \/ (phase = "idle" /\ result /\ RequireReadback)) =>
         lastInput = input /\ NonePending({"setInput"})
    /\ phase = "idle" /\ result => lastEdid = wanted /\ (RequireReadback => lastInput = wanted)

\* How far a call has come that nothing has disturbed.
FaultlessIsOnItsWay ==
    faults = 0 =>
        /\ phase \in {"idle", "setEdid", "setInput", "loop", "readEdid", "readInput", "decide"}
        /\ phase = "idle" => calls = 0 \/ result
        /\ inbox # <<>> => Awaiting /\ \A i \in DOMAIN inbox : inbox[i].connection = connection
        /\ phase \in NativePhases => (step = "connect" \/ connected) /\ answer # "refused"
        /\ phase \in {"setInput", "loop", "readEdid", "readInput", "decide"} => edid = wanted
        /\ phase \in {"loop", "readEdid", "readInput", "decide"} => input = wanted
        /\ phase \in {"setEdid", "setInput", "loop"} => rounds = 0
        /\ phase \in {"readInput", "decide"} => lastEdid = wanted
        /\ phase = "decide" => lastInput = wanted

\* What the session learns of the glasses is so, and stays so until it returns.
DpInv ==
    /\ TypeOK /\ RequestsInOrder /\ AnswerIsLast /\ AnswersAreTrue
    /\ ReadsAreApplied /\ FaultlessIsOnItsWay

\* setDisplayProfile() returns true only if the glasses have the EDID of the
\* profile and, where the protocol requires the readback, its input mode,
\* whatever was lost, refused or served late.
SuccessIsApplied ==
    phase = "idle" /\ result => edid = wanted /\ (RequireReadback => input = wanted)

\* What the README says of every model: "the library now verifies both EDID and
\* DP input mode".  A switch that returns true has set both.
VerifiedIsApplied == phase = "idle" /\ result => edid = wanted /\ input = wanted

\* With nothing lost and nobody late, a switch succeeds.
FaultlessSwitchSucceeds == phase = "idle" /\ calls > 0 /\ faults = 0 => result

\* What setDisplayProfile() returns is so.
SwitchIsTruthful == SuccessIsApplied /\ FaultlessSwitchSucceeds
=============================================================================
