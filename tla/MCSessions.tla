------------------------------ MODULE MCSessions ------------------------------
(***************************************************************************)
(* Three parts of the Kotlin and Java library, for TLC: the permission     *)
(* requests of the manager, the session of the XBX, and the connection a   *)
(* phone application makes.  They share no state here, so a behaviour is   *)
(* one of one of them, which "part" chooses, and the others stay as they   *)
(* begin.                                                                  *)
(***************************************************************************)
EXTENDS MCGlassesPermission

CONSTANTS
    HandshakeCalls, Parts, Knots,   \* XrealXbxSession
    MaxStarts, MaxSamples           \* PhoneAtwConnection

VARIABLES
    part,
    running, ready, monitor, heartbeatRunning, heartbeatField, heartbeat, heartbeats,
    pc, left, inside, closer, freed, timedOut, missed, misused,
    closed, opening, asking, controlTasks, control, then, session, notices, discoveryClosed,
    accepting, active, calibrated, sampled, driver, sampler, samples, starts,
    initialized, accepted, lateAccepts, told

Xbx == INSTANCE XrealXbxSession
Atw == INSTANCE PhoneAtwConnection WITH tasks <- controlTasks

ASSUME SessionsAssumption == Xbx!XbxAssumption /\ Atw!AtwAssumption

xbxVars == <<running, ready, monitor, heartbeatRunning, heartbeatField, heartbeat, heartbeats,
             pc, left, inside, closer, freed, timedOut, missed, misused>>
atwVars == <<closed, opening, asking, controlTasks, control, then, session, notices,
             discoveryClosed, accepting, active, calibrated, sampled, driver, sampler,
             samples, starts, initialized, accepted, lateAccepts, told>>
sessionsVars == <<part, vars, xbxVars, atwVars>>

SessionsInit ==
    /\ part \in {"permission", "xbx", "atw"}
    /\ Init /\ Xbx!Init /\ Atw!Init

SessionsNext ==
    \/ part = "permission" /\ Next /\ UNCHANGED <<part, xbxVars, atwVars>>
    \/ part = "xbx" /\ Xbx!Next /\ UNCHANGED <<part, vars, atwVars>>
    \/ part = "atw" /\ Atw!Next /\ UNCHANGED <<part, vars, xbxVars>>

\* The fairness of each of them, where it is the one that is chosen.
SessionsFairness ==
    /\ WF_vars(part = "permission" /\ Receive) /\ WF_vars(part = "permission" /\ ReportResult)
    /\ \A d \in Devices : WF_vars(part = "permission" /\ Answer(d))
    /\ \A t \in Xbx!Workers : WF_xbxVars(part = "xbx" /\ Xbx!WorkerStep(t))
    /\ WF_xbxVars(part = "xbx" /\ Xbx!HeartbeatStep)
    /\ WF_xbxVars(part = "xbx" /\ Xbx!CloserStep)
    /\ WF_atwVars(part = "atw" /\ Atw!PermissionResult) /\ WF_atwVars(part = "atw" /\ Atw!Notice)
    /\ WF_atwVars(part = "atw" /\ Atw!ControlStep) /\ WF_atwVars(part = "atw" /\ Atw!SamplerStep)

SessionsSpec == SessionsInit /\ [][SessionsNext]_sessionsVars /\ SessionsFairness

-----------------------------------------------------------------------------
(* Their properties; those of GlassesPermission have their names already.  *)

\* The XBX handshake is done once, with one heartbeat, and close() frees the handle
\* when no thread that it has joined is in a call on it.
SessionInv == Xbx!SessionInv
\* After close() of an XBX session its IMU and heartbeat threads end for good.
ThreadsEnd == Xbx!ThreadsEnd
\* A phone ATW connection initializes its consumer before samples, not once it is
\* closed, and has at most one sample on its way when close() returns.
AtwInv == Atw!AtwInv
\* After close() a phone ATW connection ends with no session, driver or receiver.
CloseEndsEverything == Atw!CloseEndsEverything
\* The first start() of a phone ATW connection gets a notice, unless it is closed.
StartIsAnswered == Atw!StartIsAnswered
=============================================================================
