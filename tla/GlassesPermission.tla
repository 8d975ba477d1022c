------------------------- MODULE GlassesPermission -------------------------
(***************************************************************************)
(* The permission requests of ArGlassesManager (ArGlassesManager.kt): a    *)
(* request for glasses asks for one component after the other, each answer *)
(* arriving as a broadcast, and reports one result on the executor.        *)
(*                                                                         *)
(* Glasses are the sequence of their USB devices, the primary one first,   *)
(* as in ConnectedGlasses.devices.  Requests and broadcasts are handled on *)
(* the main thread, results on a serial executor.  Android (external)      *)
(* answers a request at once when the permission is there, and otherwise   *)
(* after the user has.                                                     *)
(***************************************************************************)
EXTENDS Naturals, Sequences, FiniteSets

CONSTANTS
    Glasses,      \* the glasses that are connected
    NoGlasses,    \* pendingGlasses is null
    NoDevice,     \* pendingPermission is null, or a broadcast names no device
    MaxRequests,  \* bound on the requests
    MaxDetaches   \* bound on the permissions lost with a detached device

Devices == UNION {{g[i] : i \in DOMAIN g} : g \in Glasses}

\* What identify(device) makes of a single device; a companion is no glasses.
Alone(d) == <<d>>
Primary == {g[1] : g \in Glasses}
Targets == Glasses \cup {Alone(d) : d \in Devices}

ASSUME PermissionAssumption ==
    /\ \A g \in Glasses : g \in Seq(Devices) /\ g # <<>>
    /\ NoGlasses \notin Targets /\ NoDevice \notin Devices
    /\ MaxRequests \in Nat /\ MaxDetaches \in Nat

VARIABLES
    pendingPermission, \* the device asked for last
    pendingGlasses,    \* the glasses asked for last
    tasks,             \* results waiting on the executor
    granted,           \* Android: devices the application may open
    prompts,           \* Android: questions the user has not answered
    broadcasts,        \* Android: answers not received yet
    detaches,          \* devices detached so far
    asked,             \* what was requested (history)
    answers,           \* the results reported (history)
    ignored,           \* broadcasts that led to nothing (history)
    overlapped,        \* a request was made with another one unanswered (history)
    mixed              \* requestPermission(device) has been used (history)

managerVars == <<pendingPermission, pendingGlasses, tasks>>
systemVars  == <<granted, prompts, broadcasts, detaches>>
history     == <<asked, answers, ignored, overlapped, mixed>>
usage       == <<overlapped, mixed>>
vars == <<managerVars, systemVars, history>>

\* A result: decided already, or by what is granted when it is reported.
Task == [of: Targets, ok: BOOLEAN, decided: BOOLEAN]

Init ==
    /\ pendingPermission = NoDevice /\ pendingGlasses = NoGlasses
    /\ tasks = <<>>
    /\ granted \in SUBSET Devices
    /\ prompts = [d \in Devices |-> 0]
    /\ broadcasts = <<>>
    /\ detaches = 0
    /\ asked = <<>> /\ answers = <<>> /\ ignored = 0
    /\ overlapped = FALSE /\ mixed = FALSE

-----------------------------------------------------------------------------
Components(g) == {g[i] : i \in DOMAIN g}
HasPermission(g) == Components(g) \subseteq granted

\* The first component without permission.
FirstMissing(g) ==
    g[CHOOSE i \in DOMAIN g :
        g[i] \notin granted /\ \A j \in 1..(i - 1) : g[j] \in granted]

\* requestPermissionDevice(), with the broadcasts that are left: Android
\* answers at once for a device that has permission.
Ask(d, left) ==
    /\ pendingPermission' = d
    /\ IF d \in granted
       THEN broadcasts' = Append(left, d) /\ UNCHANGED prompts
       ELSE prompts' = [prompts EXCEPT ![d] = @ + 1] /\ broadcasts' = left

Outstanding == Len(asked) - Len(answers) - ignored

\* Nothing keeps the application from asking before the last answer is there.
NewRequest(target) ==
    /\ Len(asked) < MaxRequests
    /\ asked' = Append(asked, target)
    /\ overlapped' = (overlapped \/ Outstanding > 0)

\* requestPermission(glasses): with nothing missing the result is dispatched,
\* and pendingGlasses keeps the glasses.
Request(g) ==
    /\ NewRequest(g)
    /\ pendingGlasses' = g
    /\ IF HasPermission(g)
       THEN /\ tasks' = Append(tasks, [of |-> g, ok |-> TRUE, decided |-> TRUE])
            /\ UNCHANGED <<pendingPermission, prompts, broadcasts>>
       ELSE Ask(FirstMissing(g), broadcasts) /\ UNCHANGED tasks
    /\ UNCHANGED <<granted, detaches, answers, ignored, mixed>>

\* requestPermission(device).
RequestDevice(d) ==
    /\ NewRequest(Alone(d)) /\ mixed' = TRUE
    /\ Ask(d, broadcasts)
    /\ UNCHANGED <<pendingGlasses, tasks, granted, detaches, answers, ignored>>

-----------------------------------------------------------------------------
(* onReceive(ACTION_USB_PERMISSION) *)

\* The device of the broadcast, else the one asked for last.
ReceivedDevice == IF Head(broadcasts) # NoDevice THEN Head(broadcasts)
            ELSE pendingPermission

ReceiveNothing ==
    /\ broadcasts # <<>> /\ ReceivedDevice = NoDevice
    /\ broadcasts' = Tail(broadcasts)
    /\ ignored' = ignored + 1
    /\ UNCHANGED <<managerVars, granted, prompts, detaches, asked, answers, usage>>

\* The component was granted and the glasses have another one without.
AskedMore ==
    /\ ReceivedDevice \in granted
    /\ pendingGlasses # NoGlasses
    /\ ~HasPermission(pendingGlasses)

\* Mutant of ReceiveAndAskNext: the next component is not asked for.
ReceiveAndForget ==
    /\ broadcasts # <<>> /\ ReceivedDevice # NoDevice /\ AskedMore
    /\ broadcasts' = Tail(broadcasts)
    /\ UNCHANGED <<managerVars, granted, prompts, detaches, history>>

ReceiveAndAskNext ==
    /\ broadcasts # <<>> /\ ReceivedDevice # NoDevice /\ AskedMore
    /\ Ask(FirstMissing(pendingGlasses), Tail(broadcasts))
    /\ UNCHANGED <<pendingGlasses, tasks, granted, detaches, history>>

\* Mutant of ReceiveAndReport: the device is reported, not the glasses.
ReceiveAndReportDevice ==
    /\ broadcasts # <<>> /\ ReceivedDevice # NoDevice /\ ~AskedMore
    /\ broadcasts' = Tail(broadcasts)
    /\ pendingPermission' = NoDevice /\ pendingGlasses' = NoGlasses
    /\ tasks' = Append(tasks, [of |-> Alone(ReceivedDevice), decided |-> FALSE,
                               ok |-> ReceivedDevice \in granted])
    /\ UNCHANGED <<granted, prompts, detaches, history>>

ReceiveAndReport ==
    /\ broadcasts # <<>> /\ ReceivedDevice # NoDevice /\ ~AskedMore
    /\ broadcasts' = Tail(broadcasts)
    /\ pendingPermission' = NoDevice
    /\ pendingGlasses' = NoGlasses
    /\ LET Report(g) == tasks' = Append(tasks, [of |-> g, decided |-> FALSE,
                                                ok |-> ReceivedDevice \in granted])
       IN  \/ /\ pendingGlasses # NoGlasses
              /\ Report(pendingGlasses) /\ UNCHANGED ignored
           \/ /\ pendingGlasses = NoGlasses /\ ReceivedDevice \in Primary
              /\ Report(Alone(ReceivedDevice)) /\ UNCHANGED ignored
           \/ /\ pendingGlasses = NoGlasses /\ ReceivedDevice \notin Primary
              /\ ignored' = ignored + 1 /\ UNCHANGED tasks
    /\ UNCHANGED <<granted, prompts, detaches, asked, answers, usage>>

\* The executor reports the oldest result.
ReportResult ==
    /\ tasks # <<>>
    /\ LET t == Head(tasks)
       IN  answers' = Append(answers,
              [of |-> t.of,
               ok |-> t.ok /\ (t.decided \/ HasPermission(t.of))])
    /\ tasks' = Tail(tasks)
    /\ UNCHANGED <<pendingPermission, pendingGlasses, systemVars, asked, ignored,
                   usage>>

-----------------------------------------------------------------------------
(* Android and the user (external) *)

\* The user answers a question; the broadcast may fail to name the device.
Answer(d) ==
    /\ prompts[d] > 0
    /\ prompts' = [prompts EXCEPT ![d] = @ - 1]
    /\ granted' \in {granted, granted \cup {d}}
    /\ \E named \in {d, NoDevice} : broadcasts' = Append(broadcasts, named)
    /\ UNCHANGED <<managerVars, detaches, history>>

\* A detached device loses its permission.
Detach(d) ==
    /\ d \in granted /\ detaches < MaxDetaches
    /\ granted' = granted \ {d}
    /\ detaches' = detaches + 1
    /\ UNCHANGED <<managerVars, prompts, broadcasts, history>>

Receive == ReceiveNothing \/ ReceiveAndAskNext \/ ReceiveAndReport

Next ==
    \/ \E g \in Glasses : Request(g)
    \/ \E d \in Devices : RequestDevice(d) \/ Answer(d) \/ Detach(d)
    \/ Receive \/ ReportResult

Spec == Init /\ [][Next]_vars

(* The main thread and the executor run on, and the user answers. *)
Fairness ==
    /\ WF_vars(Receive) /\ WF_vars(ReportResult)
    /\ \A d \in Devices : WF_vars(Answer(d))

FairSpec == Spec /\ Fairness

-----------------------------------------------------------------------------
(* Properties *)

\* The questions the user faces, those about one device numbered.
Questions == UNION {{d} \X (1..prompts[d]) : d \in Devices}
AllPrompts == Cardinality(Questions)

\* Every variable stays in its type.
TypeOK ==
    /\ pendingPermission \in Devices \cup {NoDevice}
    /\ pendingGlasses \in Glasses \cup {NoGlasses}
    /\ tasks \in Seq(Task)
    /\ granted \in SUBSET Devices
    /\ prompts \in [Devices -> Nat] /\ IsFiniteSet(Questions)
    /\ broadcasts \in Seq(Devices \cup {NoDevice})
    /\ detaches \in Nat
    /\ asked \in Seq(Targets)
    /\ answers \in Seq([of: Targets, ok: BOOLEAN])
    /\ ignored \in Nat
    /\ overlapped \in BOOLEAN /\ mixed \in BOOLEAN

\* However requests overlap, each one is under way exactly once: as a
\* question, a broadcast or a result.  None is lost, none answered twice.
NoRequestLost ==
    Outstanding = AllPrompts + Len(broadcasts) + Len(tasks)

\* "Permission requests are serialized across every component": while
\* requests do not overlap, the user faces one question at a time, for the
\* device the manager remembers.
PromptsAreSerialized ==
    ~overlapped =>
        /\ AllPrompts <= 1
        /\ \A d \in Devices : prompts[d] > 0 => pendingPermission = d

AnswersMatch == \A i \in DOMAIN answers : answers[i].of = asked[i]

\* A request that does not overlap is alone under way: the manager remembers a
\* device of it, and its glasses if nothing but glasses is ever asked for.
OneAtATime ==
    ~overlapped =>
        /\ Outstanding <= 1
        /\ AllPrompts + Len(broadcasts) > 0 =>
              /\ pendingPermission # NoDevice
              /\ ~mixed => pendingGlasses = asked[Len(asked)]
        /\ ~mixed => /\ ignored = 0
                     /\ \A i \in DOMAIN tasks : tasks[i].of = asked[Len(asked)]

\* As long as glasses are requested one after the other, a result names the
\* glasses that were asked for, whatever is refused, detached or left unnamed.
AnswersNameRequest == ~overlapped /\ ~mixed => AnswersMatch

\* What the manager holds is well formed, accounts for every request and is what
\* the user is asked, and results name the glasses that were asked for.
PermissionInv ==
    /\ TypeOK /\ NoRequestLost
    /\ PromptsAreSerialized /\ OneAtATime /\ AnswersNameRequest

\* The same when the application also uses requestPermission(device).
ResultsNameTarget == ~overlapped => AnswersMatch

\* Every request is answered, or ignored for naming no glasses.
EveryRequestEnds ==
    \A n \in 1..MaxRequests :
        Len(asked) = n ~> Len(answers) + ignored >= n
=============================================================================
