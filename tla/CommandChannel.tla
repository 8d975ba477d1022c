--------------------------- MODULE CommandChannel ---------------------------
(***************************************************************************)
(* What the command side of an XREAL USB session promises its callers: one *)
(* exchange at a time, each with a fresh request id; an exchange ends with *)
(* nothing or with a packet that answers it; none happens once the handle  *)
(* is released.  No threads, locks, endpoints or receivers.                *)
(***************************************************************************)
EXTENDS Naturals

CONSTANTS Callers, Commands, Nobody, NoReply

Packet == [cmd: Commands, id: Nat, valid: BOOLEAN]

VARIABLES
    open,      \* the USB handle is open
    owner,     \* the caller whose exchange is under way
    lastId,    \* the id of the latest request
    kind,      \* how each caller last called: "mcu", "timed" or "imu"
    cmd,       \* the command of its latest request
    id,        \* the id of its latest request
    result     \* what its latest call returned

vars == <<open, owner, lastId, kind, cmd, id, result>>

Init ==
    /\ open = TRUE
    /\ owner = Nobody
    /\ lastId = 0
    /\ kind \in [Callers -> {"mcu"}]
    /\ cmd \in [Callers -> Commands]
    /\ id = [c \in Callers |-> 0]
    /\ result = [c \in Callers |-> NoReply]

\* A packet that answers c: the same command, and for a timed call the same
\* request and an intact packet.
Answers(p, c) ==
    /\ p.cmd = cmd[c]
    /\ kind[c] = "timed" => p.valid /\ p.id = id[c]

\* A fresh request; while the handle is open it may start an exchange.
Issue(c) ==
    /\ owner = Nobody
    /\ owner' \in IF open THEN {c, Nobody} ELSE {Nobody}
    /\ lastId' = lastId + 1
    /\ id' = [id EXCEPT ![c] = lastId + 1]
    /\ \E k \in {"mcu", "timed", "imu"} : kind' = [kind EXCEPT ![c] = k]
    /\ \E k \in Commands : cmd' = [cmd EXCEPT ![c] = k]
    /\ result' = [result EXCEPT ![c] = NoReply]
    /\ UNCHANGED open

\* The exchange ends; what it returns is constrained, not computed.
Finish(c) ==
    /\ owner = c
    /\ owner' = Nobody
    /\ result' = [result EXCEPT ![c] = result'[c]]
    /\ result'[c] \in Packet \cup {NoReply}
    /\ result'[c] # NoReply => Answers(result'[c], c)
    /\ UNCHANGED <<open, lastId, kind, cmd, id>>

Release ==
    /\ open /\ owner = Nobody
    /\ open' = FALSE
    /\ UNCHANGED <<owner, lastId, kind, cmd, id, result>>

Next ==
    \/ \E c \in Callers : Issue(c) \/ Finish(c)
    \/ Release

Spec == Init /\ [][Next]_vars
=============================================================================
