------------------------- MODULE PhoneAtwConnection -------------------------
(***************************************************************************)
(* PhoneAtwDeviceConnection and the PhoneAtwSession it owns: start() and   *)
(* close() of the application, the control executor that opens, starts and *)
(* closes the session, the driver's receiver thread that carries samples   *)
(* through the gates of ArGlassesManager and PhoneAtwSession to the        *)
(* consumer, and the executor that delivers notices.                       *)
(*                                                                         *)
(* The consumer, the driver and Android (external) may fail at any point;  *)
(* the consumer's initialize() and accept() return.                        *)
(***************************************************************************)
EXTENDS Naturals, Sequences

CONSTANTS
    MaxStarts,   \* bound on the calls of start()
    MaxSamples   \* bound on the samples the driver delivers

\* What the module assumes of its constants.
AtwAssumption == MaxStarts \in Nat /\ MaxSamples \in Nat

VARIABLES
    closed,          \* connection: closed
    opening,         \* connection: opening
    asking,          \* permission requests Android has not answered
    tasks,           \* tasks of the control executor
    control,         \* where the control thread is
    then,            \* where it goes when the session is closed
    session,         \* connection: session is not null
    notices,         \* tasks of the callbacks executor
    discoveryClosed, \* discovery.close() has returned
    accepting,       \* session: accepting
    active,          \* manager: active, the gate of the session's callbacks
    calibrated,      \* session: receivedCalibration is not null
    sampled,         \* session: firstSample is down
    driver,          \* the driver session exists and delivers
    sampler,         \* where its receiver thread is with a sample
    samples,         \* samples delivered so far
    starts,          \* calls of start() so far
    initialized,     \* the consumer was initialized (history)
    accepted,        \* the consumer accepted a sample (history)
    lateAccepts,     \* samples it was given after close() returned (history)
    told             \* notices the listener was given (history)

appVars     == <<closed, opening, asking, starts>>
sessionVars == <<accepting, active, calibrated, sampled>>
driverVars  == <<driver, sampler, samples>>
history     == <<initialized, accepted, lateAccepts, told>>
vars == <<appVars, tasks, control, then, session, notices, discoveryClosed,
          sessionVars, driverVars, history>>

ControlPcs == {"idle", "top", "opening", "calibrating", "opened", "initialize",
               "initialized", "awaiting", "started", "report", "stopAccepting",
               "invalidate", "join", "finally", "discovery"}
SamplerPcs == {"idle", "active", "running", "accepting", "accept", "count"}

Init ==
    /\ closed = FALSE /\ opening = FALSE /\ asking = 0 /\ starts = 0
    /\ tasks = <<>> /\ control = "idle" /\ then = "report" /\ session = FALSE
    /\ notices = <<>> /\ discoveryClosed = FALSE
    /\ accepting = FALSE /\ active = FALSE /\ calibrated = FALSE
    /\ sampled = FALSE
    /\ driver = FALSE /\ sampler = "idle" /\ samples = 0
    /\ initialized = FALSE /\ accepted = FALSE /\ lateAccepts = 0 /\ told = {}

-----------------------------------------------------------------------------
(* start(), open() and close() are synchronized; only the control thread    *)
(* holds the monitor for long, while the consumer is initialized.           *)

MonitorFree == control # "initialize"

Fail == notices' = Append(notices, "failed")

\* Mutant of OpenDevice: a second permission result opens again.
OpenDeviceAgain ==
    IF closed THEN UNCHANGED <<opening, tasks, notices>>
    ELSE opening' = TRUE /\ tasks' = Append(tasks, "open") /\ UNCHANGED notices

\* open(): the consumer may reject the model; otherwise the session is opened
\* once in the life of the connection.
OpenDevice ==
    IF opening \/ closed THEN UNCHANGED <<opening, tasks, notices>>
    ELSE \/ Fail /\ UNCHANGED <<opening, tasks>>
         \/ /\ opening' = TRUE
            /\ tasks' = Append(tasks, "open")
            /\ UNCHANGED notices

\* start(): it fails unless exactly one pair of glasses is there, opens it
\* when it has permission and asks for the permission otherwise.
Start ==
    /\ starts < MaxStarts /\ MonitorFree
    /\ starts' = starts + 1
    /\ \/ /\ closed \/ opening
          /\ UNCHANGED <<opening, asking, tasks, notices>>
       \/ /\ ~closed /\ ~opening
          /\ \/ Fail /\ UNCHANGED <<opening, asking, tasks>>
             \/ OpenDevice /\ UNCHANGED asking
             \/ asking' = asking + 1 /\ UNCHANGED <<opening, tasks, notices>>
    /\ UNCHANGED <<closed, control, then, session, discoveryClosed,
                   sessionVars, driverVars, history>>

\* onPermissionResult(), as long as discovery listens.
PermissionResult ==
    /\ asking > 0 /\ MonitorFree
    /\ asking' = asking - 1
    /\ \/ closed /\ UNCHANGED <<opening, tasks, notices>>
       \/ ~closed /\ OpenDevice
       \/ ~closed /\ Fail /\ UNCHANGED <<opening, tasks>>
    /\ UNCHANGED <<closed, starts, control, then, session, discoveryClosed,
                   sessionVars, driverVars, history>>

\* close(): what is left is done by the last task of the control executor.
Close ==
    /\ ~closed /\ MonitorFree
    /\ closed' = TRUE
    /\ tasks' = Append(tasks, "close")
    /\ UNCHANGED <<opening, asking, starts, control, then, session, notices,
                   discoveryClosed, sessionVars, driverVars, history>>

\* A notice reaches the listener unless the connection has been closed.
Notice ==
    /\ notices # <<>>
    /\ notices' = Tail(notices)
    /\ told' = IF closed THEN told ELSE told \cup {Head(notices)}
    /\ UNCHANGED <<appVars, tasks, control, then, session, discoveryClosed,
                   sessionVars, driverVars, initialized, accepted, lateAccepts>>

-----------------------------------------------------------------------------
(* The control thread *)

Go(from, to) == control = from /\ control' = to

\* Closing the session: PhoneAtwSession.close() or, in open(), what it does
\* when it fails; then on to "after".
CloseSession(after) == control' = "stopAccepting" /\ then' = after

ControlRest == UNCHANGED <<appVars, driverVars, accepted, lateAccepts, told>>

NextTask ==
    /\ control = "idle" /\ tasks # <<>>
    /\ tasks' = Tail(tasks)
    /\ IF Head(tasks) = "open" THEN control' = "top" /\ UNCHANGED then
       ELSE IF session THEN CloseSession("discovery")
       ELSE control' = "discovery" /\ UNCHANGED then
    /\ ControlRest
    /\ UNCHANGED <<session, notices, discoveryClosed, sessionVars, initialized>>

OpenBegins ==
    /\ control = "top"
    /\ control' = IF closed THEN "finally" ELSE "opening"
    /\ ControlRest
    /\ UNCHANGED <<tasks, then, session, notices, discoveryClosed, sessionVars,
                   initialized>>

\* PhoneAtwSession.open(): ArGlassesManager.open() opens the driver, then the
\* display mode is set and read back.  Callbacks flow as soon as it exists.
OpenDriver ==
    /\ Go("opening", "calibrating")
    /\ driver' = TRUE /\ active' = TRUE
    /\ UNCHANGED <<appVars, tasks, then, session, notices, discoveryClosed,
                   accepting, calibrated, sampled, sampler, samples, history>>

\* Mutant of OpenFails: the manager is not closed.
OpenFailsQuietly ==
    /\ control \in {"opening", "calibrating"} /\ control' = "report"
    /\ ControlRest
    /\ UNCHANGED <<tasks, then, session, notices, discoveryClosed, sessionVars,
                   initialized>>

\* The driver or its display mode fails, or no calibration comes in time.
OpenFails ==
    /\ control \in {"opening", "calibrating"}
    /\ CloseSession("report")
    /\ ControlRest
    /\ UNCHANGED <<tasks, session, notices, discoveryClosed, sessionVars,
                   initialized>>

\* The calibration is there: the session is assigned to the connection.
Opened ==
    /\ Go("calibrating", "opened") /\ calibrated
    /\ session' = TRUE
    /\ ControlRest
    /\ UNCHANGED <<tasks, then, notices, discoveryClosed, sessionVars,
                   initialized>>

\* In the monitor, the consumer is initialized unless the connection is closed.
Lock ==
    /\ control = "opened"
    /\ IF closed THEN control' = "finally" /\ UNCHANGED initialized
                 ELSE control' = "initialize" /\ initialized' = TRUE
    /\ ControlRest
    /\ UNCHANGED <<tasks, then, session, notices, discoveryClosed, sessionVars>>

\* initialize() returns, and the monitor is left.
Initialized ==
    /\ Go("initialize", "initialized")
    /\ ControlRest
    /\ UNCHANGED <<tasks, then, session, notices, discoveryClosed, sessionVars,
                   initialized>>

\* ... or it throws.
InitializeFails ==
    /\ control = "initialize"
    /\ CloseSession("report")
    /\ ControlRest
    /\ UNCHANGED <<tasks, session, notices, discoveryClosed, sessionVars,
                   initialized>>

\* startSamples() opens the gate and waits for the first sample.
StartSamples ==
    /\ control = "initialized"
    /\ IF closed THEN control' = "finally" /\ UNCHANGED accepting
                 ELSE control' = "awaiting" /\ accepting' = TRUE
    /\ ControlRest
    /\ UNCHANGED <<tasks, then, session, notices, discoveryClosed, active,
                   calibrated, sampled, initialized>>

FirstSample ==
    /\ Go("awaiting", "finally") /\ sampled
    /\ notices' = Append(notices, "ready")
    /\ ControlRest
    /\ UNCHANGED <<tasks, then, session, discoveryClosed, sessionVars,
                   initialized>>

NoSample ==
    /\ control = "awaiting" /\ ~sampled
    /\ CloseSession("report")
    /\ ControlRest
    /\ UNCHANGED <<tasks, session, notices, discoveryClosed, sessionVars,
                   initialized>>

\* Mutant of Report: the failure is not reported.
ReportNothing ==
    /\ Go("report", "finally")
    /\ ControlRest
    /\ UNCHANGED <<tasks, then, session, notices, discoveryClosed, sessionVars,
                   initialized>>

\* The catch clause, after the session has been closed.
Report ==
    /\ Go("report", "finally")
    /\ Fail
    /\ ControlRest
    /\ UNCHANGED <<tasks, then, session, discoveryClosed, sessionVars,
                   initialized>>

\* The finally clause: a connection closed meanwhile closes its session here
\* or in its last task, whichever comes first.
Finally ==
    /\ control = "finally"
    /\ IF closed /\ session THEN CloseSession("idle")
                            ELSE control' = "idle" /\ UNCHANGED then
    /\ ControlRest
    /\ UNCHANGED <<tasks, session, notices, discoveryClosed, sessionVars,
                   initialized>>

\* PhoneAtwSession.close(): no more samples, ...
StopAccepting ==
    /\ Go("stopAccepting", "invalidate")
    /\ accepting' = FALSE
    /\ ControlRest
    /\ UNCHANGED <<tasks, then, session, notices, discoveryClosed, active,
                   calibrated, sampled, initialized>>

\* ... ArGlassesSession.close(): no more callbacks, ...
Invalidate ==
    /\ Go("invalidate", "join")
    /\ active' = FALSE
    /\ ControlRest
    /\ UNCHANGED <<tasks, then, session, notices, discoveryClosed, accepting,
                   calibrated, sampled, initialized>>

\* ... and the driver's close() joins its receiver.
JoinDriver ==
    /\ Go("join", then) /\ sampler = "idle"
    /\ driver' = FALSE
    /\ session' = FALSE
    /\ UNCHANGED <<appVars, tasks, then, notices, discoveryClosed, sessionVars,
                   sampler, samples, history>>

\* The last task closes discovery, which stops listening for permissions.
CloseDiscovery ==
    /\ Go("discovery", "idle")
    /\ discoveryClosed' = TRUE
    /\ asking' = 0
    /\ UNCHANGED <<closed, opening, starts, tasks, then, session, notices,
                   sessionVars, driverVars, history>>

ControlStep ==
    \/ NextTask \/ OpenBegins \/ OpenDriver \/ OpenFails \/ Opened
    \/ Lock \/ Initialized \/ InitializeFails
    \/ StartSamples \/ FirstSample \/ NoSample
    \/ Report \/ Finally
    \/ StopAccepting \/ Invalidate \/ JoinDriver \/ CloseDiscovery

-----------------------------------------------------------------------------
(* The driver's receiver thread: a calibration, or a sample and the flags    *)
(* that are looked at on its way, each at a moment of its own.               *)

SamplerRest == UNCHANGED <<appVars, tasks, control, then, session, notices,
                           discoveryClosed, initialized, told>>

\* onImuCalibration()
Calibration ==
    /\ driver /\ sampler = "idle" /\ active
    /\ calibrated' = TRUE
    /\ SamplerRest
    /\ UNCHANGED <<accepting, active, sampled, driverVars, accepted, lateAccepts>>

\* The executor of ArGlassesManager.open() looks at the gate before it hands
\* the callback over ...
SampleArrives ==
    /\ driver /\ sampler = "idle" /\ samples < MaxSamples
    /\ samples' = samples + 1
    /\ sampler' = IF active THEN "active" ELSE "idle"
    /\ SamplerRest
    /\ UNCHANGED <<sessionVars, driver, accepted, lateAccepts>>

\* ... and again before it runs it; onImuSample() looks at its own ...
Pass(from, gate, to) ==
    /\ sampler = from
    /\ sampler' = IF gate THEN to ELSE "idle"
    /\ SamplerRest
    /\ UNCHANGED <<sessionVars, driver, samples, accepted, lateAccepts>>
PassesActive == Pass("active", active, "running")
PassesAccepting == Pass("running", accepting, "accepting")

\* ... and the connection at whether it has been closed.
PassesOpen ==
    /\ sampler = "accepting"
    /\ sampler' = IF closed THEN "count" ELSE "accept"
    /\ SamplerRest
    /\ UNCHANGED <<sessionVars, driver, samples, accepted, lateAccepts>>

\* consumer.accept()
Accept ==
    /\ sampler = "accept" /\ sampler' = "count"
    /\ accepted' = TRUE
    /\ lateAccepts' = lateAccepts + IF closed THEN 1 ELSE 0
    /\ SamplerRest
    /\ UNCHANGED <<sessionVars, driver, samples>>

\* firstSample.countDown()
CountDown ==
    /\ sampler = "count" /\ sampler' = "idle"
    /\ sampled' = TRUE
    /\ SamplerRest
    /\ UNCHANGED <<accepting, active, calibrated, driver, samples, accepted,
                   lateAccepts>>

SamplerStep ==
    PassesActive \/ PassesAccepting \/ PassesOpen \/ Accept \/ CountDown

Next ==
    \/ Start \/ PermissionResult \/ Close \/ Notice
    \/ ControlStep
    \/ Calibration \/ SampleArrives \/ SamplerStep

Spec == Init /\ [][Next]_vars

(* Threads run on, a permission request is answered, and every wait of the  *)
(* control thread is limited.  Nobody has to start, close or deliver.       *)
Fairness ==
    /\ WF_vars(PermissionResult) /\ WF_vars(Notice)
    /\ WF_vars(ControlStep) /\ WF_vars(SamplerStep)

FairSpec == Spec /\ Fairness

-----------------------------------------------------------------------------
(* Properties *)

\* Every variable stays in its type.
TypeOK ==
    /\ closed \in BOOLEAN /\ opening \in BOOLEAN /\ asking \in Nat
    /\ starts \in Nat
    /\ tasks \in Seq({"open", "close"})
    /\ control \in ControlPcs /\ then \in {"report", "idle", "discovery"}
    /\ session \in BOOLEAN /\ notices \in Seq({"ready", "failed"})
    /\ discoveryClosed \in BOOLEAN
    /\ accepting \in BOOLEAN /\ active \in BOOLEAN /\ calibrated \in BOOLEAN
    /\ sampled \in BOOLEAN
    /\ driver \in BOOLEAN /\ sampler \in SamplerPcs /\ samples \in Nat
    /\ initialized \in BOOLEAN /\ accepted \in BOOLEAN
    /\ lateAccepts \in Nat /\ told \in SUBSET {"ready", "failed"}

\* The consumer is given a sample only once it has been initialized and the
\* driver has published a calibration, from a driver that is not yet joined.
AcceptFollowsInitialize ==
    sampler \in {"accepting", "accept"} => initialized /\ calibrated /\ driver

\* The consumer's initialize() and close() exclude each other: the connection
\* is not closed while it runs, so it never begins after close() returned.
NoInitializeOnceClosed == control = "initialize" => ~closed

\* close() does not wait for the receiver thread, but after it the consumer is
\* given at most the one sample that had passed the last check.
AtMostOneLateAccept == lateAccepts <= 1

\* The listener hears "ready" only after the consumer has accepted a sample.
ReadyAfterSample == "ready" \in told => accepted

ElementsOf(s) == {s[i] : i \in DOMAIN s}

\* The control thread is closing the session.
Closing == control \in {"stopAccepting", "invalidate", "join"}

\* The driver runs only for a control thread that is opening or closing it or
\* for the session the connection holds.
DriverIsOwned ==
    /\ session => driver /\ calibrated
    /\ driver => session \/ control = "calibrating" \/ Closing
    /\ discoveryClosed => closed /\ tasks = <<>> /\ control = "idle"

\* The control executor is ever given one task that opens and one that closes,
\* in this order; until it opens nothing else goes on.
TasksInOrder ==
    /\ tasks \in {<<>>, <<"open">>, <<"close">>, <<"open", "close">>}
    /\ tasks \in {<<"open">>, <<"open", "close">>} => opening /\ control = "idle"
    /\ tasks \in {<<"close">>, <<"open", "close">>} => closed
    /\ ~opening => ~session /\ control \in {"idle", "discovery"}
    /\ control = "discovery" \/ (Closing /\ then = "discovery") =>
          closed /\ tasks = <<>>

\* What the control thread has reached at each of its steps.
ControlHasReached ==
    /\ control = "calibrating" => driver
    /\ control \in {"opened", "initialize", "initialized", "awaiting"} => session
    /\ control \in {"initialize", "initialized", "awaiting"} => initialized
    /\ accepting => initialized /\ calibrated

\* What the receiver thread has reached with a sample: the driver outlives it, and
\* one that counts was accepted or came too late.
SampleHasReached ==
    /\ sampler # "idle" => driver
    /\ sampler = "count" \/ sampled \/ "ready" \in ElementsOf(notices) =>
          accepted \/ closed
    /\ lateAccepts > 0 => closed /\ sampler # "accept"

\* What every thread may rely on, in all the orders they run in.
AtwInv ==
    /\ TypeOK
    /\ TasksInOrder /\ ControlHasReached /\ SampleHasReached
    /\ DriverIsOwned
    /\ AcceptFollowsInitialize
    /\ NoInitializeOnceClosed
    /\ ReadyAfterSample
    /\ AtMostOneLateAccept

\* Once closed, the connection ends up with no session, no driver thread and
\* no permission receiver, wherever the control thread was.
CloseEndsEverything ==
    closed ~> [](discoveryClosed /\ ~session /\ ~driver /\ sampler = "idle")

\* The first start() is answered by a notice unless the connection is closed.
StartIsAnswered == starts = 1 ~> told # {} \/ closed
=============================================================================
