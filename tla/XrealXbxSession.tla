-------------------------- MODULE XrealXbxSession --------------------------
(***************************************************************************)
(* The threads of XrealXbxSession (XrealXbxSession.kt) around one native   *)
(* handle (XrealNativeUsbSession.kt): the IMU thread that starts with the  *)
(* session, the caller of the display queries, the heartbeat either of     *)
(* them starts, and close(), which joins the threads for a limited time    *)
(* before it frees the handle.                                             *)
(*                                                                         *)
(* Every command is a native call that returns after a while, with a reply *)
(* or without one.  The caller's commands and close() come from one        *)
(* thread, as ArGlassesManager.open() demands.                             *)
(***************************************************************************)
EXTENDS Naturals

CONSTANTS
    HandshakeCalls, \* commands of ensureMcuReady(), 10 in the code
    Parts,          \* commands 0x15 that read the calibration
    Knots           \* commands 0xe0 of readOfficial6fKnots(), 36 in the code

\* What the module assumes of its constants.
XbxAssumption ==
    /\ HandshakeCalls \in Nat \ {0} /\ Parts \in Nat \ {0}
    /\ Knots \in Nat \ {0}

VARIABLES
    running,          \* running
    ready,            \* mcuReady
    monitor,          \* who is inside the synchronized ensureMcuReady()
    heartbeatRunning, \* heartbeatRunning
    heartbeatField,   \* heartbeatThread is assigned
    heartbeat,        \* where the heartbeat thread is
    heartbeats,       \* heartbeat threads ever started
    pc,               \* where the IMU thread and the caller are
    left,             \* the calls left in their phase
    inside,           \* the threads inside a native call
    closer,           \* where close() is
    freed,            \* the native session is deleted
    timedOut,         \* a join gave up (history)
    missed,           \* close() did not see the heartbeat thread (history)
    misused           \* the handle was freed under a call, or used afterwards

stateVars == <<running, ready, monitor>>
beatVars  == <<heartbeatRunning, heartbeatField, heartbeat, heartbeats>>
threadVars == <<pc, left, inside>>
closeVars == <<closer, freed, timedOut, missed>>
vars == <<stateVars, beatVars, threadVars, closeVars, misused>>

Workers == {"imu", "caller"}
Threads == Workers \cup {"heartbeat"}

\* The phases of runImu() in their order, each a number of calls.
ImuPhases == {"stop", "length", "part", "sync", "start", "stream", "knot"}
NextPhase(p) == [stop |-> "length", length |-> "part", part |-> "sync",
                 sync |-> "start", start |-> "stream", stream |-> "knot",
                 knot |-> "read"][p]
Calls(p) == CASE p = "handshake" -> HandshakeCalls
              [] p = "part" -> Parts
              [] p = "knot" -> Knots
              [] OTHER -> 1

CallPcs == ImuPhases \cup {"handshake", "command", "read"}
Pcs == CallPcs \cup {"idle", "enter", "assign", "done"}
HeartbeatPcs == {"none", "top", "send", "sleep", "done"}
CloserPcs == {"open", "flag", "joinHeartbeat", "joinImu", "free", "closed"}

Init ==
    /\ running = TRUE /\ ready = FALSE /\ monitor = "none"
    /\ heartbeatRunning = FALSE /\ heartbeatField = FALSE
    /\ heartbeat = "none" /\ heartbeats = 0
    /\ pc = [t \in Workers |-> IF t = "imu" THEN "enter" ELSE "idle"]
    /\ left = [t \in Workers |-> 0]
    /\ inside = {}
    /\ closer = "open" /\ freed = FALSE
    /\ timedOut = FALSE /\ missed = FALSE /\ misused = FALSE

-----------------------------------------------------------------------------
(* ensureMcuReady() *)

Goto(t, p) ==
    /\ pc' = [pc EXCEPT ![t] = p]
    /\ left' = [left EXCEPT ![t] = IF p \in CallPcs THEN Calls(p) ELSE 0]

\* Where a thread goes when the MCU is ready, and when a check failed.
Proceed(t) == IF t = "imu" THEN "stop" ELSE "command"
GiveUp(t)  == IF t = "imu" THEN "done" ELSE "idle"

\* queryDisplayProfile(), setDisplayProfile(): not while the session closes.
CallerStarts ==
    /\ pc["caller"] = "idle" /\ closer = "open"
    /\ Goto("caller", "enter")
    /\ UNCHANGED <<stateVars, beatVars, inside, closeVars, misused>>

\* Mutant of Enter: ensureMcuReady() is not synchronized.
EnterUnsynchronized(t) ==
    /\ pc[t] = "enter" /\ monitor' = t
    /\ Goto(t, IF ready THEN Proceed(t) ELSE "handshake")
    /\ UNCHANGED <<running, ready, beatVars, inside, closeVars, misused>>

Enter(t) ==
    /\ pc[t] = "enter" /\ monitor = "none"
    /\ IF ready THEN Goto(t, Proceed(t)) /\ UNCHANGED monitor
                ELSE Goto(t, "handshake") /\ monitor' = t
    /\ UNCHANGED <<running, ready, beatVars, inside, closeVars,
                   misused>>

\* The handshake is complete.  The heartbeat thread starts before its field
\* is assigned.
BecomeReady(t) ==
    /\ pc[t] = "handshake" /\ t \notin inside /\ left[t] = 0
    /\ ready' = TRUE
    /\ IF heartbeatRunning
       THEN /\ Goto(t, Proceed(t)) /\ monitor' = "none"
            /\ UNCHANGED <<heartbeatRunning, heartbeat, heartbeats>>
       ELSE /\ Goto(t, "assign")
            /\ heartbeatRunning' = TRUE /\ heartbeat' = "top"
            /\ heartbeats' = heartbeats + 1
            /\ UNCHANGED monitor
    /\ UNCHANGED <<running, heartbeatField, inside, closeVars,
                   misused>>

Assign(t) ==
    /\ pc[t] = "assign"
    /\ heartbeatField' = TRUE
    /\ monitor' = "none"
    /\ Goto(t, Proceed(t))
    /\ UNCHANGED <<running, ready, heartbeatRunning, heartbeat, heartbeats,
                   inside, closeVars, misused>>

-----------------------------------------------------------------------------
(* Native calls of the IMU thread and the caller *)

\* running is only asked between the parts of the calibration and between the
\* records.
AsksRunning(t) == pc[t] \in {"part", "read"}

CallBegins(t) ==
    /\ pc[t] \in CallPcs /\ t \notin inside /\ left[t] > 0
    /\ running \/ ~AsksRunning(t)
    /\ inside' = inside \cup {t}
    /\ misused' = (misused \/ freed)
    /\ UNCHANGED <<stateVars, beatVars, pc, left, closeVars>>

\* It brings a reply.
CallReplies(t) ==
    /\ t \in inside
    /\ inside' = inside \ {t}
    /\ IF pc[t] = "read" THEN UNCHANGED <<pc, left>>
       ELSE IF left[t] > 1 \/ pc[t] = "handshake"
            THEN left' = [left EXCEPT ![t] = @ - 1] /\ UNCHANGED pc
            ELSE Goto(t, IF t = "imu" THEN NextPhase(pc[t]) ELSE "idle")
    /\ UNCHANGED <<stateVars, beatVars, closeVars, misused>>

\* It brings none: the answer to 0x19 is not looked at, an empty record is
\* passed over, everything else ends the thread's work.
CallFails(t) ==
    /\ t \in inside
    /\ inside' = inside \ {t}
    /\ IF pc[t] = "stop" THEN Goto(t, "length") /\ UNCHANGED monitor
       ELSE IF pc[t] = "read" THEN UNCHANGED <<pc, left, monitor>>
       ELSE /\ Goto(t, GiveUp(t))
            /\ monitor' = IF monitor = t THEN "none" ELSE monitor
    /\ UNCHANGED <<running, ready, beatVars, closeVars, misused>>

\* The session closes between two parts or two records.
ImuStops ==
    /\ AsksRunning("imu") /\ "imu" \notin inside /\ ~running
    /\ Goto("imu", "done")
    /\ UNCHANGED <<stateVars, beatVars, inside, closeVars, misused>>

-----------------------------------------------------------------------------
(* The heartbeat *)

\* Mutant of HeartbeatTop: only heartbeatRunning is asked, which a handshake
\* that ends late sets again.
HeartbeatTopOneFlag ==
    /\ heartbeat = "top"
    /\ heartbeat' = IF heartbeatRunning THEN "send" ELSE "done"
    /\ UNCHANGED <<stateVars, heartbeatRunning, heartbeatField, heartbeats,
                   threadVars, closeVars, misused>>

HeartbeatTop ==
    /\ heartbeat = "top"
    /\ heartbeat' = IF heartbeatRunning /\ running THEN "send" ELSE "done"
    /\ UNCHANGED <<stateVars, heartbeatRunning, heartbeatField, heartbeats,
                   threadVars, closeVars, misused>>

HeartbeatSends ==
    /\ heartbeat = "send" /\ "heartbeat" \notin inside
    /\ inside' = inside \cup {"heartbeat"}
    /\ misused' = (misused \/ freed)
    /\ UNCHANGED <<stateVars, beatVars, pc, left, closeVars>>

HeartbeatSent ==
    /\ heartbeat = "send" /\ "heartbeat" \in inside
    /\ inside' = inside \ {"heartbeat"}
    /\ heartbeat' = "sleep"
    /\ UNCHANGED <<stateVars, heartbeatRunning, heartbeatField, heartbeats,
                   pc, left, closeVars, misused>>

HeartbeatWakes ==
    /\ heartbeat = "sleep"
    /\ heartbeat' = "top"
    /\ UNCHANGED <<stateVars, heartbeatRunning, heartbeatField, heartbeats,
                   threadVars, closeVars, misused>>

-----------------------------------------------------------------------------
(* close() *)

CloseBegins ==
    /\ closer = "open" /\ pc["caller"] = "idle"
    /\ running' = FALSE
    /\ closer' = "flag"
    /\ UNCHANGED <<ready, monitor, beatVars, threadVars, freed, timedOut,
                   missed, misused>>

CloseHeartbeat ==
    /\ closer = "flag"
    /\ heartbeatRunning' = FALSE
    /\ closer' = "joinHeartbeat"
    /\ UNCHANGED <<stateVars, heartbeatField, heartbeat, heartbeats,
                   threadVars, freed, timedOut, missed, misused>>

HeartbeatAlive == heartbeat \in {"top", "send", "sleep"}
ImuAlive == pc["imu"] # "done"

\* heartbeatThread is a plain field: close() may find it null although the
\* thread runs.  A thread it finds is waited for up to 800 ms.
CloseJoinsHeartbeat ==
    /\ closer = "joinHeartbeat"
    /\ closer' = "joinImu"
    /\ \/ ~HeartbeatAlive /\ UNCHANGED <<missed, timedOut>>
       \/ HeartbeatAlive /\ missed' = TRUE /\ UNCHANGED timedOut
       \/ HeartbeatAlive /\ heartbeatField /\ timedOut' = TRUE /\ UNCHANGED missed
    /\ UNCHANGED <<stateVars, beatVars, threadVars, freed, misused>>

\* The IMU thread is waited for up to 1200 ms.
CloseJoinsImu ==
    /\ closer = "joinImu"
    /\ closer' = "free"
    /\ timedOut' = (timedOut \/ ImuAlive)
    /\ UNCHANGED <<stateVars, beatVars, threadVars, freed, missed, misused>>

CloseFrees ==
    /\ closer = "free"
    /\ closer' = "closed"
    /\ freed' = TRUE
    /\ misused' = (misused \/ inside # {})
    /\ UNCHANGED <<stateVars, beatVars, threadVars, timedOut, missed>>

-----------------------------------------------------------------------------
WorkerStep(t) ==
    \/ Enter(t) \/ BecomeReady(t) \/ Assign(t)
    \/ CallBegins(t) \/ CallReplies(t) \/ CallFails(t)
    \/ t = "imu" /\ ImuStops

HeartbeatStep ==
    HeartbeatTop \/ HeartbeatSends \/ HeartbeatSent \/ HeartbeatWakes

CloserStep ==
    CloseHeartbeat \/ CloseJoinsHeartbeat \/ CloseJoinsImu \/ CloseFrees

Next ==
    \/ CallerStarts \/ CloseBegins
    \/ \E t \in Workers : WorkerStep(t)
    \/ HeartbeatStep \/ CloserStep

Spec == Init /\ [][Next]_vars

(* Threads run on and native calls return.  Nobody has to query or close.  *)
Fairness ==
    /\ \A t \in Workers : WF_vars(WorkerStep(t))
    /\ WF_vars(HeartbeatStep) /\ WF_vars(CloserStep)

FairSpec == Spec /\ Fairness

-----------------------------------------------------------------------------
(* Properties *)

\* Every variable stays in its type.
TypeOK ==
    /\ running \in BOOLEAN /\ ready \in BOOLEAN
    /\ monitor \in Workers \cup {"none"}
    /\ heartbeatRunning \in BOOLEAN /\ heartbeatField \in BOOLEAN
    /\ heartbeat \in HeartbeatPcs /\ heartbeats \in Nat
    /\ pc \in [Workers -> Pcs] /\ left \in [Workers -> Nat]
    /\ inside \in SUBSET Threads
    /\ closer \in CloserPcs /\ freed \in BOOLEAN
    /\ timedOut \in BOOLEAN /\ missed \in BOOLEAN /\ misused \in BOOLEAN

\* A thread inside a native call is where it makes one, with calls left; the IMU
\* thread and the caller are each in phases of their own.
CallsAreInPhase ==
    /\ \A t \in Workers \cap inside : pc[t] \in CallPcs /\ left[t] > 0
    /\ "heartbeat" \in inside => heartbeat = "send"
    /\ pc["imu"] \in ImuPhases \cup {"enter", "handshake", "assign", "read", "done"}
    /\ pc["caller"] \in {"idle", "enter", "handshake", "assign", "command"}

\* Who does the handshake or starts the heartbeat is in the monitor, whoever else
\* waits for it; nothing beats before the handshake is complete.
MonitorIsHeld ==
    /\ \A t \in Workers : monitor = t <=> pc[t] \in {"handshake", "assign"}
    /\ ~ready => ~heartbeatRunning /\ heartbeat = "none"
                 /\ \A t \in Workers : pc[t] # "assign"

\* What close() has seen to at each of its steps: no thread it joined is at work
\* unless the join gave up, and a heartbeat started late sends nothing.
ClosedInOrder ==
    /\ closer # "open" => ~running /\ pc["caller"] = "idle"
    /\ closer \in {"joinImu", "free", "closed"} =>
          timedOut \/ missed \/ heartbeat \in {"none", "top", "done"}
    /\ closer \in {"free", "closed"} => timedOut \/ pc["imu"] = "done"
    /\ freed <=> closer = "closed"

\* The handshake is done once: when the MCU is ready nobody is in it, and one
\* heartbeat was started, however the two users of the MCU interleave and
\* whichever of them failed at it before.
HandshakeOnce ==
    /\ ready => \A t \in Workers : pc[t] # "handshake"
    /\ heartbeats = IF ready THEN 1 ELSE 0

\* The native handle outlives the calls on it, unless a thread outlived its
\* limited join or the heartbeat was not there to be joined.
HandleOutlivesCalls == misused => timedOut \/ missed

\* The session's state is well formed, its handshake is done once, with one
\* heartbeat, and close() frees the handle when no thread that it has joined is
\* in a call on it.
SessionInv ==
    /\ TypeOK
    /\ CallsAreInPhase /\ MonitorIsHeld /\ ClosedInOrder
    /\ HandshakeOnce /\ HandleOutlivesCalls

\* After close() every thread of the session ends for good, a heartbeat that
\* was started late included.
ThreadsEnd == closer = "closed" ~> [](~HeartbeatAlive /\ ~ImuAlive)
=============================================================================
