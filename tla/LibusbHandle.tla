---------------------------- MODULE LibusbHandle ----------------------------
(***************************************************************************)
(* One open device handle and the threads that use it (core.c, the part of *)
(* linux_usbfs.c on interfaces and configurations): what libusb thinks it  *)
(* has claimed, in claimed_interfaces, and which driver the kernel has     *)
(* bound to each interface.  The lock of the handle covers claim, release  *)
(* and the second half of a reset; everything else calls the kernel        *)
(* without it.  The kernel is modelled as usbfs behaves: one ioctl() is    *)
(* atomic, and one that needs an interface nobody has claimed claims it.   *)
(***************************************************************************)
EXTENDS Integers, FiniteSets

CONSTANTS
    Threads,        \* the threads that use the handle
    LastInterface,  \* interfaces are numbered from 0
    NoThread        \* holder of a free lock

VARIABLES
    lock,             \* dev_handle->lock: the thread that holds it
    claimed,          \* dev_handle->claimed_interfaces
    autoDetach,       \* dev_handle->auto_detach_kernel_driver
    attached,         \* dev->attached
    call,             \* per thread: the call it is in and where
    plugged,          \* the device is there
    bound,            \* kernel: the driver of each interface
    disconnectClaim,  \* the kernel has USBDEVFS_DISCONNECT_CLAIM
    lost              \* claimed, but given up behind libusb's back

HandleAssumption == NoThread \notin Threads /\ LastInterface \in Nat

handleVars == <<lock, claimed, autoDetach, attached, call, plugged, bound, disconnectClaim, lost>>
kernel == <<plugged, disconnectClaim>>
ours == <<claimed, autoDetach, attached>>

Interfaces == 0..LastInterface
\* "usbfs": claimed through this handle, "implicit": by the kernel for it,
\* "other": by another process.
Drivers == {"none", "driver", "usbfs", "implicit", "other"}
Held(i) == bound[i] \in {"usbfs", "implicit"}
Ops == {"claim", "release", "alt", "halt", "reset", "detach", "attach", "setConfig"}

Call(op, i, at, r) == [op |-> op, i |-> i, at |-> at, r |-> r]
Idle == Call("none", 0, "idle", "ok")
At(t, ops, at) == call[t].op \in ops /\ call[t].at = at
Goto(t, at) == call' = [call EXCEPT ![t].at = at]
GotoWith(t, at, r) == call' = [call EXCEPT ![t].at = at, ![t].r = r]
Return(t) == call' = [call EXCEPT ![t] = Idle]

HandleInit ==
    /\ lock = NoThread /\ claimed = {} /\ autoDetach \in BOOLEAN /\ attached = TRUE
    /\ call = [t \in Threads |-> Idle]
    /\ plugged = TRUE /\ bound \in [Interfaces -> {"none", "driver"}]
    /\ disconnectClaim \in BOOLEAN /\ lost = {}

-----------------------------------------------------------------------------
(* The kernel: the answer of an ioctl() and what it does to an interface   *)

Claim(i, r) ==
    r = CASE ~plugged -> "noDevice"
          [] plugged /\ (bound[i] = "none" \/ Held(i)) -> "ok"
          [] OTHER -> "busy"
\* USBDEVFS_DISCONNECT_CLAIM, except for an interface of usbfs: whoever holds it.
DisconnectClaim(i, r) ==
    r = CASE ~plugged -> "noDevice"
          [] plugged /\ bound[i] \in {"none", "driver"} -> "ok"
          [] OTHER -> "busy"
Bind(i, r) ==
    /\ bound' = [bound EXCEPT ![i] = IF r = "ok" THEN "usbfs" ELSE @]
    /\ lost' = IF r = "ok" THEN lost \ {i} ELSE lost

\* An ioctl() that needs an interface takes it.
TakeImplicitly(i) ==
    bound' = [bound EXCEPT ![i] = IF plugged /\ @ = "none" THEN "implicit" ELSE @]

Release(i) == bound' = [bound EXCEPT ![i] = IF Held(i) THEN "none" ELSE @]

-----------------------------------------------------------------------------
(* Calls *)

Begins(t, op, i, at) ==
    /\ call[t] = Idle
    /\ call' = [call EXCEPT ![t] = Call(op, i, at, "ok")]
    /\ UNCHANGED <<kernel, ours, lock, bound, lost>>

\* All but two of the functions first look whether the device is still attached.
SetConfigurationBegins(t) == Begins(t, "setConfig", 0, "ioctl")
ClaimInterfaceBegins(t, i) == attached /\ Begins(t, "claim", i, "lock")
ReleaseInterfaceBegins(t, i) == Begins(t, "release", i, "lock")
SetAltSettingBegins(t, i) == attached /\ Begins(t, "alt", i, "lock")
ClearHaltBegins(t, i) == attached /\ Begins(t, "halt", i, "ioctl")
ResetDeviceBegins(t) == attached /\ Begins(t, "reset", 0, "release")
DetachKernelDriverBegins(t, i) == attached /\ Begins(t, "detach", i, "getDriver")
AttachKernelDriverBegins(t, i) == attached /\ Begins(t, "attach", i, "ioctl")

SetAutoDetachKernelDriver ==
    /\ autoDetach' = ~autoDetach
    /\ UNCHANGED <<kernel, claimed, attached, call, lock, bound, lost>>

Lock(t) ==
    /\ lock = NoThread /\ call[t].at = "lock"
    /\ lock' = t /\ Goto(t, "locked")
    /\ UNCHANGED <<kernel, ours, bound, lost>>

\* libusb_claim_interface(): an interface that is claimed needs nothing.
ClaimAgain(t) ==
    /\ At(t, {"claim"}, "locked") /\ call[t].i \in claimed
    /\ lock' = NoThread /\ Return(t)
    /\ UNCHANGED <<kernel, ours, bound, lost>>

\* op_claim_interface(): with or without detaching the driver of the kernel.
ClaimInterface(t) ==
    /\ At(t, {"claim"}, "locked") /\ call[t].i \notin claimed
    /\ Goto(t, IF autoDetach THEN "detachClaim" ELSE "plainClaim")
    /\ UNCHANGED <<kernel, ours, lock, bound, lost>>

PlainClaim(t) ==
    /\ call[t].at = "plainClaim"
    /\ \E r \in {"ok", "busy", "noDevice"} :
         Claim(call[t].i, r) /\ Bind(call[t].i, r) /\ GotoWith(t, "claimed", r)
    /\ UNCHANGED <<kernel, ours, lock>>

\* detach_kernel_driver_and_claim(): an older kernel needs two calls.
DetachClaim(t) ==
    /\ call[t].at = "detachClaim" /\ disconnectClaim
    /\ \E r \in {"ok", "busy", "noDevice"} :
         DisconnectClaim(call[t].i, r) /\ Bind(call[t].i, r) /\ GotoWith(t, "claimed", r)
    /\ UNCHANGED <<kernel, ours, lock>>
DetachClaimFallback(t) ==
    /\ call[t].at = "detachClaim" /\ ~disconnectClaim
    /\ Goto(t, "getDriver")
    /\ UNCHANGED <<kernel, ours, lock, bound, lost>>

\* op_detach_kernel_driver(): it asks which driver it is, then disconnects
\* whichever it is by then.
Detached(t, r) ==
    IF call[t].op = "detach" THEN Return(t)
    ELSE IF r = "noDevice" THEN GotoWith(t, "claimed", r) ELSE Goto(t, "plainClaim")
GetDriver(t) ==
    /\ call[t].at = "getDriver"
    /\ IF plugged /\ (Held(call[t].i) \/ bound[call[t].i] = "other")
       THEN Detached(t, "notFound") ELSE Goto(t, "disconnect")
    /\ UNCHANGED <<kernel, ours, lock, bound, lost>>
DisconnectDriver(t) ==
    LET i == call[t].i IN
    /\ call[t].at = "disconnect"
    /\ bound' = [bound EXCEPT ![i] = "none"]
    /\ lost' = IF Held(i) THEN lost \cup {i} ELSE lost
    /\ Detached(t, CASE ~plugged -> "noDevice" [] plugged /\ bound[i] = "none" -> "notFound"
                     [] OTHER -> "ok")
    /\ UNCHANGED <<kernel, ours, lock>>

\* The bit is set when the kernel agreed.
Claimed(t) ==
    LET c == call[t] IN
    /\ At(t, {"claim"}, "claimed")
    /\ claimed' = IF c.r = "ok" THEN claimed \cup {c.i} ELSE claimed
    /\ lock' = NoThread /\ Return(t)
    /\ UNCHANGED <<kernel, autoDetach, attached, bound, lost>>

\* libusb_release_interface(), op_release_interface(): the driver is attached
\* again if that is wanted, whatever comes of it.
ReleaseUnclaimed(t) ==
    /\ At(t, {"release"}, "locked") /\ call[t].i \notin claimed
    /\ lock' = NoThread /\ Return(t)
    /\ UNCHANGED <<kernel, ours, bound, lost>>
ReleaseInterface(t) ==
    LET i == call[t].i IN
    /\ At(t, {"release"}, "locked") /\ i \in claimed
    /\ Release(i)
    /\ IF plugged /\ Held(i) THEN Goto(t, IF autoDetach THEN "connect" ELSE "released")
       ELSE GotoWith(t, "released", "other")
    /\ UNCHANGED <<kernel, ours, lock, lost>>
Released(t) ==
    LET c == call[t] IN
    /\ At(t, {"release"}, "released")
    /\ claimed' = IF c.r = "ok" THEN claimed \ {c.i} ELSE claimed
    /\ lost' = IF c.r = "ok" THEN lost \ {c.i} ELSE lost
    /\ lock' = NoThread /\ Return(t)
    /\ UNCHANGED <<kernel, autoDetach, attached, bound>>

\* op_attach_kernel_driver(): of an interface that has a driver nothing comes.
AttachKernelDriver(t) ==
    LET i == call[t].i IN
    /\ call[t].at = "connect" \/ At(t, {"attach"}, "ioctl")
    /\ \E d \in IF plugged /\ bound[i] = "none" THEN {"none", "driver"} ELSE {bound[i]} :
         bound' = [bound EXCEPT ![i] = d]
    /\ IF call[t].op = "attach" THEN Return(t) ELSE Goto(t, "released")
    /\ UNCHANGED <<kernel, ours, lock, lost>>

\* libusb_set_interface_alt_setting(): it looks under the lock and calls the
\* kernel without it.  libusb_clear_halt() and the streams do not look.
SetInterfaceAltSetting(t) ==
    /\ At(t, {"alt"}, "locked")
    /\ lock' = NoThread
    /\ IF call[t].i \in claimed THEN Goto(t, "ioctl") ELSE Return(t)
    /\ UNCHANGED <<kernel, ours, bound, lost>>
InterfaceIoctl(t) ==
    /\ At(t, {"alt", "halt"}, "ioctl")
    /\ TakeImplicitly(call[t].i) /\ Return(t)
    /\ UNCHANGED <<kernel, ours, lock, lost>>

-----------------------------------------------------------------------------
(* op_reset_device() *)

\* It gives up what is claimed before it takes the lock.
ResetReleases(t) ==
    LET i == call[t].i IN
    /\ At(t, {"reset"}, "release")
    /\ IF i \in claimed THEN Release(i) ELSE UNCHANGED bound
    /\ call' = [call EXCEPT ![t] = IF i = LastInterface THEN Call("reset", 0, "lock", "ok")
                                   ELSE Call("reset", i + 1, "release", "ok")]
    /\ UNCHANGED <<kernel, ours, lock, lost>>

\* The reset unbinds usbfs everywhere, and drivers may bind themselves.
ResetDevice(t) ==
    /\ At(t, {"reset"}, "locked") /\ plugged
    /\ bound' \in [Interfaces -> {"none", "driver"}]
    /\ Goto(t, "reclaim")
    /\ UNCHANGED <<kernel, ours, lock, lost>>
ResetFails(t) ==
    /\ At(t, {"reset"}, "locked")
    /\ lost' = lost \cup {i \in claimed : ~Held(i)}
    /\ lock' = NoThread /\ Return(t)
    /\ UNCHANGED <<kernel, ours, bound>>

\* What was claimed is claimed again, or is no longer claimed.
ResetNext(t, r) ==
    LET i == call[t].i IN
    IF i = LastInterface THEN lock' = NoThread /\ Return(t)
    ELSE call' = [call EXCEPT ![t] = Call("reset", i + 1, "reclaim", r)] /\ UNCHANGED lock
ResetReclaims(t) ==
    /\ At(t, {"reset"}, "reclaim")
    /\ IF call[t].i \in claimed THEN Goto(t, "detachClaim") /\ UNCHANGED lock
       ELSE ResetNext(t, call[t].r)
    /\ UNCHANGED <<kernel, ours, bound, lost>>

\* Mutant of ResetReclaimed: an interface that is not claimed again keeps its bit.
ResetReclaimedKeepsBit(t) ==
    /\ At(t, {"reset"}, "claimed")
    /\ ResetNext(t, IF call[t].r = "ok" THEN "ok" ELSE "notFound")
    /\ UNCHANGED <<kernel, ours, bound, lost>>

ResetReclaimed(t) ==
    LET c == call[t] IN
    /\ At(t, {"reset"}, "claimed")
    /\ claimed' = IF c.r = "ok" THEN claimed ELSE claimed \ {c.i}
    /\ lost' = IF c.r = "ok" THEN lost ELSE lost \ {c.i}
    /\ ResetNext(t, IF c.r = "ok" THEN "ok" ELSE "notFound")
    /\ UNCHANGED <<kernel, autoDetach, attached, bound>>

\* op_set_configuration(): the kernel refuses while any interface has a driver;
\* drivers bind afterwards.
SetConfiguration(t) ==
    /\ At(t, {"setConfig"}, "ioctl")
    /\ IF plugged /\ \A i \in Interfaces : bound[i] = "none"
       THEN bound' \in [Interfaces -> {"none", "driver"}]
       ELSE UNCHANGED bound
    /\ Return(t)
    /\ UNCHANGED <<kernel, ours, lock, lost>>

-----------------------------------------------------------------------------
(* Around the handle *)

\* The kernel lets go of every interface; the event handler notices later.
Unplug ==
    /\ plugged
    /\ plugged' = FALSE /\ bound' = [i \in Interfaces |-> "none"]
    /\ UNCHANGED <<ours, call, lock, disconnectClaim, lost>>
Disconnected ==
    /\ ~plugged /\ attached
    /\ attached' = FALSE
    /\ UNCHANGED <<kernel, claimed, autoDetach, call, lock, bound, lost>>
\* A driver finishes loading, another process claims or releases.
OtherBinds(i) ==
    /\ plugged /\ bound[i] \in {"none", "other"}
    /\ \E d \in {"driver", "other", "none"} \ {bound[i]} : bound' = [bound EXCEPT ![i] = d]
    /\ UNCHANGED <<kernel, ours, call, lock, lost>>

Step(t) ==
    \/ Lock(t) \/ ClaimAgain(t) \/ ClaimInterface(t) \/ PlainClaim(t) \/ DetachClaim(t)
    \/ DetachClaimFallback(t) \/ GetDriver(t) \/ DisconnectDriver(t) \/ Claimed(t)
    \/ ReleaseUnclaimed(t) \/ ReleaseInterface(t) \/ Released(t) \/ AttachKernelDriver(t)
    \/ SetInterfaceAltSetting(t) \/ InterfaceIoctl(t) \/ ResetReleases(t) \/ ResetDevice(t)
    \/ ResetFails(t) \/ ResetReclaims(t) \/ ResetReclaimed(t) \/ SetConfiguration(t)

CallBegins(t, i) ==
    \/ ClaimInterfaceBegins(t, i) \/ ReleaseInterfaceBegins(t, i) \/ SetAltSettingBegins(t, i)
    \/ ClearHaltBegins(t, i) \/ DetachKernelDriverBegins(t, i) \/ AttachKernelDriverBegins(t, i)

HandleNext ==
    \/ \E t \in Threads :
         Step(t) \/ SetConfigurationBegins(t) \/ ResetDeviceBegins(t)
         \/ \E i \in Interfaces : CallBegins(t, i)
    \/ SetAutoDetachKernelDriver \/ Unplug \/ Disconnected
    \/ \E i \in Interfaces : OtherBinds(i)

HandleSpec == HandleInit /\ [][HandleNext]_handleVars

-----------------------------------------------------------------------------
(* Properties *)

Answers == {"ok", "busy", "noDevice", "other", "notFound"}
Ats == {"idle", "lock", "locked", "ioctl", "plainClaim", "detachClaim", "getDriver", "disconnect",
        "claimed", "connect", "released", "release", "reclaim"}
Calls == [op : Ops \cup {"none"}, i : Interfaces, at : Ats, r : Answers]

HandleTypeOK ==
    /\ lock \in Threads \cup {NoThread} /\ claimed \subseteq Interfaces /\ lost \subseteq Interfaces
    /\ bound \in [Interfaces -> Drivers] /\ call \in [Threads -> Calls]

\* usbi_mutex: a thread holds the lock of the handle from "locked" to its return.
LockIsHeldInside ==
    \A t \in Threads :
        lock = t <=> /\ call[t].op \in {"claim", "release", "reset", "alt"}
                     /\ call[t].at \notin {"lock", "release", "ioctl"}

\* claimed_interfaces (core.c, op_reset_device()): what libusb thinks is claimed is
\* held in the kernel, unless a reset is under way, a reset has failed or a
\* detach took what was claimed after it asked; and what was claimed is known.
ClaimedIsHeld ==
    \A i \in Interfaces :
        /\ plugged /\ i \in claimed => \/ Held(i) \/ i \in lost
                                       \/ \E t \in Threads : call[t].op = "reset"
                                       \/ \E t \in Threads : At(t, {"release"}, "connect") /\ call[t].i = i
                                       \/ \E t \in Threads : At(t, {"release"}, "released") /\ call[t].i = i
        /\ bound[i] = "usbfs" => \/ i \in claimed
                                 \/ \E t \in Threads : At(t, {"claim"}, "claimed") /\ call[t].i = i

\* Where each call can be.
Claiming == {"plainClaim", "detachClaim", "getDriver", "disconnect", "claimed"}
Places(op) ==
    CASE op = "none" -> {"idle"}
      [] op = "claim" -> {"lock", "locked"} \cup Claiming
      [] op = "release" -> {"lock", "locked", "connect", "released"}
      [] op = "alt" -> {"lock", "locked", "ioctl"}
      [] op = "reset" -> {"release", "lock", "locked", "reclaim"} \cup Claiming
      [] op = "detach" -> {"getDriver", "disconnect"}
      [] OTHER -> {"ioctl"}
CallsAreInPlace == \A t \in Threads : call[t].at \in Places(call[t].op)

\* An interface that a thread has claimed stays held while it has the lock, but for
\* what others do without the lock.
Kept(t, i) ==
    \/ ~plugged \/ Held(i) \/ i \in lost
    \/ \E u \in Threads \ {t} : call[u].op = "reset"

\* libusb_claim_interface() and libusb_release_interface() in the middle: one claims
\* what was not claimed, the other clears the bit only of what it has released.
ClaimIsUnderWay(t) ==
    call[t].op = "claim" /\ call[t].at \in Claiming =>
        /\ call[t].i \notin claimed
        /\ call[t].at = "claimed" =>
             IF call[t].r = "ok" THEN Kept(t, call[t].i) ELSE bound[call[t].i] # "usbfs"
ReleaseIsUnderWay(t) ==
    call[t].op = "release" =>
        /\ call[t].at # "released" => call[t].r = "ok"
        /\ call[t].at \in {"connect", "released"} =>
             IF call[t].r = "ok" THEN bound[call[t].i] # "usbfs" ELSE Kept(t, call[t].i)

\* op_reset_device() in the middle: up to the interface it is at, what is claimed is
\* claimed again; from there on nothing is.
Reclaimed(t, i) ==
    i < call[t].i \/ (i = call[t].i /\ call[t].at = "claimed" /\ call[t].r = "ok")
ResetIsUnderWay(t) ==
    call[t].op = "reset" =>
        /\ call[t].at \in {"lock", "locked"} => call[t].i = 0
        /\ call[t].at \in Claiming => call[t].i \in claimed
        /\ call[t].at \in {"reclaim"} \cup Claiming =>
             \A i \in Interfaces : IF Reclaimed(t, i) THEN i \in claimed => Kept(t, i)
                                  ELSE bound[i] # "usbfs"

\* A device that is gone has no drivers.
UnpluggedIsUnbound == ~plugged => \A i \in Interfaces : bound[i] = "none"

\* The handle's lock protects its calls, and what libusb records as claimed is what
\* the kernel has bound to usbfs, but where the code cannot know.
HandleInv ==
    /\ HandleTypeOK
    /\ LockIsHeldInside
    /\ ClaimedIsHeld
    /\ CallsAreInPlace
    /\ \A t \in Threads : ClaimIsUnderWay(t) /\ ReleaseIsUnderWay(t) /\ ResetIsUnderWay(t)
    /\ UnpluggedIsUnbound
=============================================================================
