---------------------------- MODULE NativeUsbOwner ----------------------------
(***************************************************************************)
(* Who owns the USB of a pair of glasses, from open to close: the          *)
(* UsbDeviceConnection, the native object with its libusb context, handle  *)
(* and claimed interfaces, and the thread that reads.  The native classes  *)
(* are XrealUsbSession and UsbSession (ar_glass_jni.cpp) and               *)
(* GoovisUsbSession (goovis_g3_jni.cpp); the sessions that own them differ *)
(* in what an open that fails leaves behind, and in what close() waits for.*)
(* What the threads of an XrealUsbSession do is in XrealUsbCommand and     *)
(* XrealImuStream; here it is opened and closed.                           *)
(*                                                                         *)
(* Nothing tests the pointer that Kotlin holds: a call that is inside the  *)
(* native object when it is deleted, or comes later, uses freed memory.    *)
(* The model records the threads that do.                                  *)
(***************************************************************************)
EXTENDS Naturals

CONSTANT MaxOpens    \* bound on the sessions opened

\* "xreal": XrealNativeUsbSession.  "goovis": GoovisG3FamilySession.
\* "rokid": RokidAirSession, "viture": VitureBeastSession, "rayneo":
\* RayneoAirFamilySession, all three with a NativeUsbDeviceSession.
UsbSessions == {"rokid", "viture", "rayneo"}
Sessions == {"xreal", "goovis"} \cup UsbSessions
AllInterfaces == {"mcu", "imu", "hid"}
Native == {"context", "handle"}
Resources == {"connection", "reader"} \cup Native \cup AllInterfaces

OwnerAssumption == MaxOpens \in Nat

VARIABLES
    session,    \* which session it is
    withImu,    \* it was opened for the IMU
    phase,      \* where its constructor or close() is
    held,       \* what the session has open
    left,       \* what earlier sessions left open
    running,    \* the session's running
    alive,      \* running_ of a GoovisUsbSession
    reader,     \* where the reading thread is
    display,    \* where a thread that sets the display profile is
    writeLock,  \* write_mutex_ of a GoovisUsbSession
    gaveUp,     \* a join in close() timed out (history)
    touched,    \* the threads that used a deleted object (history)
    blamed,     \* the steps at which an open failed (history)
    given,      \* the app has been given the session
    opens       \* sessions opened

ownerVars == <<session, withImu, phase, held, left, running, alive, reader, display, writeLock,
               gaveUp, touched, blamed, given, opens>>
setup == <<session, withImu, given, opens>>
threads == <<running, alive, reader, display, writeLock, gaveUp, touched>>
resources == <<held, left, blamed>>

OwnerInit ==
    /\ session \in Sessions /\ withImu \in BOOLEAN /\ (session = "rayneo" => withImu)
    /\ phase = "none" /\ held = {} /\ left = {}
    /\ running = FALSE /\ alive = FALSE
    /\ reader = "none" /\ display = "idle" /\ writeLock = "none"
    /\ gaveUp = FALSE /\ touched = {} /\ blamed = {} /\ given = FALSE /\ opens = 0

-----------------------------------------------------------------------------
(* The constructors.  An exception leaves all that no one cleans up.       *)

Failed(step, keeps) ==
    /\ left' = left \cup keeps /\ held' = {}
    /\ blamed' = blamed \cup {step}
    /\ phase' = "none"

Gets(resource, next) ==
    /\ held' = held \cup {resource}
    /\ phase' = next
    /\ UNCHANGED <<left, blamed>>

\* A session is opened when none is open, and the threads of the last are gone.
OpenDevice ==
    /\ phase = "none" /\ display = "idle" /\ reader \in {"none", "done"}
    /\ opens < MaxOpens /\ opens' = opens + 1
    /\ Gets("connection", "init")
    /\ running' = TRUE /\ alive' = TRUE /\ reader' = "none" /\ given' = FALSE
    /\ UNCHANGED <<session, withImu, display, writeLock, gaveUp, touched>>

\* What the native constructor leaves when it throws: GoovisUsbSession closes
\* what it opened, the others do not.
Thrown(step) == Failed(step, IF session = "goovis" THEN held \ Native ELSE held)

InitContext ==
    /\ phase = "init"
    /\ Gets("context", "wrap") \/ Thrown("init")
    /\ UNCHANGED <<setup, threads>>

WrapSysDevice ==
    /\ phase = "wrap"
    /\ Gets("handle", "claim") \/ Thrown("wrap")
    /\ UNCHANGED <<setup, threads>>

\* An XREAL has one interface for commands and one for the IMU.
Wanted ==
    CASE session = "xreal" -> IF withImu THEN {"mcu", "imu"} ELSE {"mcu"}
      [] session = "rokid" -> IF withImu THEN {"hid"} ELSE {}
      [] OTHER -> {"hid"}

\* The kernel gives an interface to one file: one that an earlier session left
\* claimed is busy.
Claim(i) == i \notin left /\ Gets(i, "claim")

XrealClaims ==
    /\ phase = "claim" /\ session = "xreal"
    /\ \E i \in Wanted \ held :
         /\ i = "imu" => "mcu" \in held
         /\ Claim(i) \/ Thrown("claim")
    /\ UNCHANGED <<setup, threads>>

GoovisClaims ==
    /\ phase = "claim" /\ session = "goovis" /\ "hid" \notin held
    /\ Claim("hid") \/ Thrown("claim")
    /\ UNCHANGED <<setup, threads>>

\* The sessions of a UsbSession claim by a call of their own.
UsbClaims ==
    /\ phase = "claim" /\ session \in UsbSessions
    /\ \E i \in Wanted \ held : Claim(i) \/ Failed("claim", held)
    /\ UNCHANGED <<setup, threads>>

\* What the constructor does after the claim.  GOOVIS enables the IMU and
\* starts its thread; the thread of a RayNeo is there before its first command.
StartReading ==
    /\ phase = "claim" /\ Wanted \subseteq held
    /\ phase' = IF session = "rayneo" THEN "probe" ELSE "open"
    /\ given' = (session # "rayneo")
    /\ reader' = IF withImu /\ session # "xreal" THEN "loop" ELSE "none"
    /\ UNCHANGED <<session, withImu, opens, resources, running, alive, display, writeLock,
                   gaveUp, touched>>

EnableFails ==
    /\ phase = "claim" /\ Wanted \subseteq held
    /\ session = "goovis" /\ withImu
    /\ Failed("enable", held)
    /\ UNCHANGED <<setup, threads>>

\* The glasses answer the commands of a RayNeo's constructor, or it closes the
\* session; but what fails the first write leaves the thread reading.
Probed ==
    /\ phase = "probe"
    /\ phase' = "open" /\ given' = TRUE
    /\ UNCHANGED <<session, withImu, opens, resources, threads>>

ProbeUnanswered ==
    /\ phase = "probe"
    /\ phase' = "join" /\ running' = FALSE
    /\ UNCHANGED <<setup, resources, alive, reader, display, writeLock, gaveUp, touched>>

ProbeNotSent ==
    /\ phase = "probe"
    /\ Failed("probe", held \cup {"reader"})
    /\ reader' = "none"
    /\ UNCHANGED <<setup, running, alive, display, writeLock, gaveUp, touched>>

-----------------------------------------------------------------------------
(* The reading thread: a loop on running around one transfer.              *)

Deleted == "handle" \notin held

ReaderCalls ==
    /\ reader = "loop" /\ running
    /\ reader' = "call"
    /\ touched' = IF Deleted THEN touched \cup {"reader"} ELSE touched
    /\ UNCHANGED <<setup, resources, phase, running, alive, display, writeLock, gaveUp>>

UsbReads == session \in UsbSessions /\ ReaderCalls

\* read_imu() of GOOVIS looks at running_ before its transfer, which is up as
\* long as the session's running is.
GoovisReads == session = "goovis" /\ alive /\ ReaderCalls

ReaderReturns ==
    /\ reader = "call"
    /\ reader' = "loop"
    /\ UNCHANGED <<setup, resources, phase, running, alive, display, writeLock, gaveUp, touched>>

ReaderEnds ==
    /\ reader = "loop" /\ ~running
    /\ reader' = "done"
    /\ UNCHANGED <<setup, resources, phase, running, alive, display, writeLock, gaveUp, touched>>

-----------------------------------------------------------------------------
(* setDisplayProfile() and queryDisplayProfile(): a thread of the app that *)
(* has the session.  GOOVIS writes under write_mutex_ and looks at         *)
(* running_ there; the others make a transfer.                             *)

\* The session does not ask whether it was closed.
DisplayUses(s) ==
    /\ given /\ display = "idle" /\ session = s
    /\ touched' = IF Deleted THEN touched \cup {"display"} ELSE touched
    /\ UNCHANGED <<setup, resources, phase, running, alive, reader, gaveUp>>

UsbDisplay ==
    /\ DisplayUses("rokid") \/ DisplayUses("viture")
    /\ display' = "call"
    /\ UNCHANGED writeLock

GoovisDisplay ==
    /\ writeLock = "none"
    /\ DisplayUses("goovis")
    /\ IF alive
       THEN display' = "call" /\ writeLock' = "display"
       ELSE UNCHANGED <<display, writeLock>>

DisplayReturns ==
    /\ display = "call"
    /\ display' = "idle"
    /\ writeLock' = IF writeLock = "display" THEN "none" ELSE writeLock
    /\ UNCHANGED <<setup, resources, phase, running, alive, reader, gaveUp, touched>>

-----------------------------------------------------------------------------
(* close()                                                                 *)

Close ==
    /\ phase = "open"
    /\ running' = FALSE
    /\ phase' = IF session = "goovis" /\ withImu THEN "disable" ELSE "join"
    /\ UNCHANGED <<setup, resources, alive, reader, display, writeLock, gaveUp, touched>>

\* setImuEnabled(false) takes write_mutex_: it waits for a display command.
DisableImu ==
    /\ phase = "disable" /\ writeLock = "none"
    /\ phase' = "join"
    /\ UNCHANGED <<setup, resources, threads>>

\* Mutant of Join: interrupt() is enough to end the thread.
JoinInterrupts ==
    /\ phase = "join"
    /\ phase' = "release"
    /\ UNCHANGED <<setup, resources, threads>>

\* join(1_200): a transfer that takes longer is not waited for.
Join ==
    /\ phase = "join"
    /\ phase' = "release"
    /\ gaveUp' = (gaveUp \/ reader \notin {"none", "done"})
    /\ UNCHANGED <<setup, resources, running, alive, reader, display, writeLock, touched>>

Inside == {t \in {"reader", "display"} :
             IF t = "reader" THEN reader = "call" ELSE display = "call"}

Closing(next) ==
    /\ phase' = next
    /\ UNCHANGED <<setup, left, blamed, running, reader, display, writeLock, gaveUp>>

\* GoovisUsbSession::close() and XrealUsbSession::close() release what they
\* claimed; the first takes no lock.
NativeReleases ==
    /\ phase = "release" /\ session \in {"goovis", "xreal"}
    /\ alive' = FALSE
    /\ held' = held \ AllInterfaces
    /\ Closing("closeHandle") /\ UNCHANGED touched

UsbReleases ==
    /\ phase = "release" /\ session \in UsbSessions
    /\ held' = held \ AllInterfaces
    /\ Closing("closeHandle") /\ UNCHANGED <<alive, touched>>

\* close() and the destructors: the handle, the context, the object.
CloseHandle ==
    /\ phase = "closeHandle"
    /\ held' = held \ Native
    /\ touched' = touched \cup Inside
    /\ Closing("closeConnection") /\ UNCHANGED alive

\* XrealNativeUsbSession.close() does not close its connection.
CloseConnection ==
    /\ phase = "closeConnection"
    /\ held' = {}
    /\ left' = IF session = "xreal" THEN left \cup held ELSE left
    /\ phase' = "none"
    /\ UNCHANGED <<setup, blamed, threads>>

OwnerNext ==
    \/ OpenDevice \/ InitContext \/ WrapSysDevice
    \/ XrealClaims \/ GoovisClaims \/ UsbClaims
    \/ StartReading \/ EnableFails \/ Probed \/ ProbeUnanswered \/ ProbeNotSent
    \/ UsbReads \/ GoovisReads \/ ReaderReturns \/ ReaderEnds
    \/ UsbDisplay \/ GoovisDisplay \/ DisplayReturns
    \/ Close \/ DisableImu \/ Join \/ NativeReleases \/ UsbReleases \/ CloseHandle
    \/ CloseConnection

OwnerSpec == OwnerInit /\ [][OwnerNext]_ownerVars

-----------------------------------------------------------------------------
OwnerTypeOK ==
    /\ session \in Sessions /\ withImu \in BOOLEAN /\ given \in BOOLEAN
    /\ phase \in {"none", "init", "wrap", "claim", "probe", "open", "disable",
                  "join", "release", "closeHandle", "closeConnection"}
    /\ held \subseteq Resources /\ left \subseteq Resources
    /\ running \in BOOLEAN /\ alive \in BOOLEAN /\ gaveUp \in BOOLEAN
    /\ reader \in {"none", "loop", "call", "done"}
    /\ display \in {"idle", "call"} /\ writeLock \in {"none", "display"}
    /\ touched \subseteq {"reader", "display"} /\ opens \in 0..MaxOpens

\* Nothing is closed before what is inside it: interfaces before the handle,
\* the handle before its context, all of it before the file.
ClosedInsideOut ==
    /\ held # {} => "connection" \in held
    /\ "handle" \in held => "context" \in held
    /\ held \cap AllInterfaces # {} => "handle" \in held

\* The object is not deleted under the reader's transfer unless join() in
\* close() has given up on it.
ReaderIsOutlived == "reader" \in touched => gaveUp

\* A session that was opened and closed leaves nothing open, whatever the
\* sessions before it did, but for the connection of an XREAL.
CloseLeavesNothing ==
    blamed = {} => left \subseteq IF session = "xreal" THEN {"connection"} ELSE {}

\* The constructor of GoovisUsbSession leaves nothing native behind, at
\* whichever step it fails; an interface stays claimed, and is busy for every
\* later session, only after an open that failed once it had claimed one.
FailedOpenLeaves ==
    /\ session = "goovis" /\ "enable" \notin blamed =>
         left \cap (Native \cup AllInterfaces) = {}
    /\ left \cap AllInterfaces # {} => blamed \cap {"claim", "enable", "probe"} # {}
    /\ "reader" \in left => "probe" \in blamed

\* What is open is what the steps so far have opened and not yet closed; only
\* the reader of an open session has not been waited for, and only a RayNeo
\* is closed by its own constructor.
Opened ==
    CASE phase = "none" -> {}
      [] phase \in {"init", "closeConnection"} -> {"connection"}
      [] phase = "wrap" -> {"connection", "context"}
      [] OTHER -> {"connection"} \cup Native
HeldIsOpened ==
    /\ held \ AllInterfaces = Opened
    /\ held \cap AllInterfaces \subseteq
         IF phase \in {"claim", "probe", "open", "disable", "join", "release"} THEN Wanted ELSE {}
    /\ reader \in {"loop", "call"} => gaveUp \/ phase \in {"probe", "open", "disable", "join"}
    /\ phase = "probe" => session = "rayneo"

\* An owner of USB closes what it opened, from the inside out and not under
\* its reader, and what failed opens leave is what their step accounts for.
OwnerInv ==
    /\ OwnerTypeOK
    /\ HeldIsOpened
    /\ ClosedInsideOut
    /\ ReaderIsOutlived
    /\ CloseLeavesNothing
    /\ FailedOpenLeaves
=============================================================================
