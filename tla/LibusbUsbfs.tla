----------------------------- MODULE LibusbUsbfs -----------------------------
(***************************************************************************)
(* One libusb transfer and the URBs it is made of (linux_usbfs.c): the     *)
(* submission one URB at a time, cancellation and timeouts, reaping, and   *)
(* the unplugging of the device, between the threads that submit and       *)
(* cancel, the thread that handles events, and the kernel (external).      *)
(*                                                                         *)
(* A length counts units of data; for an isochronous transfer a unit is a  *)
(* packet.  Interrupt transfers take the path of bulk ones, and differ in  *)
(* what a cancellation after an error does.  The transfer reads: what the  *)
(* kernel writes to the buffer are the units 1, 2, 3, ... in the order in  *)
(* which the device sends them.                                            *)
(***************************************************************************)
EXTENDS Integers, Sequences, FiniteSets

CONSTANTS
    UrbLength,   \* MAX_BULK_BUFFER_LENGTH, and MAX_ISO_PACKETS_PER_URB
    MaxLength    \* bound on the length of a transfer

ASSUME UsbfsAssumption == UrbLength \in Nat \ {0} /\ MaxLength \in Nat \ {0}

Kinds == {"bulk", "control", "iso"}
Modes == {"whole", "continue", "split"}  \* what the capabilities choose

VARIABLES
    kind, length,  \* of the submission
    mode,          \* how bulk transfers are split, by hpriv->caps
    drains,        \* USBFS_CAP_REAP_AFTER_DISCONNECT
    held,          \* tpriv->urbs is not NULL
    submitted,     \* URBs submitted so far
    retired,       \* num_retired; the code does not count the one URB of a control transfer
    reapAction,    \* reap_action
    reapStatus,    \* reap_status
    transferred,   \* itransfer->transferred; iso_packet_offset
    buffer,        \* the unit at each place of the buffer; for an isochronous
                   \* transfer the packet whose result a descriptor holds
    inFlight,      \* USBI_TRANSFER_IN_FLIGHT
    asked,         \* USBI_TRANSFER_CANCELLING, and for whom
    timedOut,      \* USBI_TRANSFER_TIMED_OUT
    outcome,       \* what the caller was told last
    holder,        \* who holds itransfer->lock
    loop,          \* where its discard_urbs() is
    event,         \* where the thread that handles events is
    urb,           \* the URBs, as the kernel has them
    done,          \* the order in which it completed those it has not given back
    sent,          \* units the device has sent for this submission
    halted,        \* the endpoint is stalled
    disabled,      \* it refuses continuations: a URB before them has failed
    gone           \* the device is unplugged

params   == <<kind, length>>
caps     == <<mode, drains>>
privVars == <<held, submitted, retired, reapAction, reapStatus>>
dataVars == <<transferred, buffer>>
flagVars == <<inFlight, asked, timedOut, outcome>>
kernel   == <<urb, done, sent, halted, disabled, gone>>
vars == <<params, caps, privVars, dataVars, flagVars, holder, loop, event, kernel>>

(* How a transfer is split *)

Step(k, m, len) ==
    IF k = "control" \/ (k = "bulk" /\ m = "whole")
    THEN IF len = 0 THEN 1 ELSE len ELSE UrbLength
Count(k, m, len) ==
    IF len = 0 THEN 1 ELSE (len + Step(k, m, len) - 1) \div Step(k, m, len)
MaxUrbs == Count("iso", "split", MaxLength)

Num == Count(kind, mode, length)
Start(i) == (i - 1) * Step(kind, mode, length)
Size(i) == IF i = Num THEN length - Start(i) ELSE Step(kind, mode, length)
ShortNotOk(i) == kind = "bulk" /\ mode = "continue" /\ i < Num

NoUrb  == [at |-> "none", status |-> "none", actual |-> 0]
NoLoop == [at |-> 0, first |-> 1, last |-> 0, ret |-> "ok"]
\* back is where it goes on after a URB, status what it reports.
Polling == [at |-> "poll", urb |-> 0, back |-> "none", status |-> "none"]
Draining == [Polling EXCEPT !.at = "drain"]

Init ==
    /\ kind = "bulk" /\ length = 0
    /\ mode \in Modes /\ drains \in BOOLEAN
    /\ held = FALSE /\ submitted = 0 /\ retired = 0
    /\ reapAction = "normal" /\ reapStatus = "completed"
    /\ transferred = 0 /\ buffer = [p \in 1..MaxLength |-> 0]
    /\ inFlight = FALSE /\ asked = "no" /\ timedOut = FALSE /\ outcome = "none"
    /\ holder = "none" /\ loop = NoLoop /\ event = Polling
    /\ urb = [i \in 1..MaxUrbs |-> NoUrb] /\ done = <<>> /\ sent = 0
    /\ halted = FALSE /\ disabled = FALSE /\ gone = FALSE

-----------------------------------------------------------------------------
(* The kernel's side *)

InKernel == {i \in DOMAIN urb : urb[i].at \in {"pending", "doomed", "done"}}
Pending == {i \in DOMAIN urb : urb[i].at = "pending"}
Active(i) == i \in Pending /\ (\A j \in Pending : i <= j) /\ ~halted

\* The kernel completes URB i with "n" units in it.
Completed(i, st, n) == [urb EXCEPT ![i] = [at |-> "done", status |-> st, actual |-> n]]
Received(i, n) ==
    IF kind = "iso" THEN buffer
    ELSE [p \in DOMAIN buffer |->
            IF p \in Start(i)+1 .. Start(i)+n THEN sent + p - Start(i) ELSE buffer[p]]

\* A failure, or a short URB that may not be short, takes the continuations
\* after it along.
Doomed(f, i, st) ==
    IF kind = "bulk" /\ mode = "continue" /\ st # "ok"
    THEN [j \in DOMAIN f |-> IF j > i /\ f[j].at = "pending"
                             THEN [f[j] EXCEPT !.at = "doomed"] ELSE f[j]]
    ELSE f

\* The device answers the first URB.  A buffer overflows only in the last one:
\* the others hold a whole number of packets.
Answer(i, st, n) ==
    /\ Active(i) /\ ~gone
    /\ \/ st = "ok" /\ (n = Size(i) \/ (kind # "iso" /\ ~ShortNotOk(i)))
       \/ st = "short" /\ n < Size(i) /\ ShortNotOk(i)
       \/ st = "stall" /\ kind # "iso"
       \/ st = "bus"
       \/ st = "overflow" /\ i = Num /\ n = Size(i) /\ kind # "iso"
    /\ urb' = Doomed(Completed(i, st, n), i, st)
    /\ done' = Append(done, i)
    /\ buffer' = Received(i, n) /\ sent' = sent + n
    /\ halted' = (st = "stall")
    /\ disabled' = (disabled \/ (kind = "bulk" /\ mode = "continue" /\ st # "ok"))
    /\ UNCHANGED <<params, caps, privVars, transferred, flagVars, holder, loop, event, gone>>

\* A URB that goes with a failed one comes back, in any order.
Unlink(i) ==
    /\ urb[i].at = "doomed"
    /\ urb' = Completed(i, "killed", 0)
    /\ done' = Append(done, i)
    /\ UNCHANGED <<params, caps, privVars, dataVars, flagVars, holder, loop, event,
                   sent, halted, disabled, gone>>

\* The device is unplugged.  A kernel that can be drained completes what it
\* has; an older one gives nothing back.
Unplug ==
    /\ ~gone /\ gone' = TRUE
    /\ LET ended == {i \in InKernel : urb[i].at # "done"}
       IN  IF drains
           THEN /\ urb' = [i \in DOMAIN urb |-> IF i \in ended
                             THEN [at |-> "done", status |-> "gone", actual |-> 0]
                             ELSE urb[i]]
                /\ \E order \in [1..Cardinality(ended) -> ended] :
                     /\ \A a, b \in DOMAIN order : a < b => order[a] < order[b]
                     /\ \A i \in ended : \E a \in DOMAIN order : order[a] = i
                     /\ done' = done \o order
           ELSE /\ urb' = [i \in DOMAIN urb |-> IF i \in InKernel THEN NoUrb ELSE urb[i]]
                /\ done' = <<>>
    /\ UNCHANGED <<params, caps, privVars, dataVars, flagVars, holder, loop, event,
                   sent, halted, disabled>>

-----------------------------------------------------------------------------
(* Submission *)

\* libusb_submit_transfer() clears the transfer and takes its lock; the backend
\* allocates its URBs.
Submit(k, len) ==
    /\ outcome # "waiting" /\ ~inFlight /\ holder = "none"
    /\ k = "iso" => len > 0
    /\ k # "bulk" => mode = "whole"   \* only bulk transfers look at it
    /\ kind' = k /\ length' = len
    /\ held' = TRUE /\ submitted' = 0 /\ retired' = 0
    /\ reapAction' = "normal" /\ reapStatus' = "completed"
    /\ transferred' = 0 /\ buffer' = [p \in 1..MaxLength |-> 0]
    /\ asked' = "no" /\ timedOut' = FALSE /\ outcome' = "waiting" /\ UNCHANGED inFlight
    /\ holder' = "submit"
    /\ urb' = [i \in 1..MaxUrbs |-> NoUrb] /\ sent' = 0 /\ halted' = FALSE
    /\ UNCHANGED <<caps, loop, event, done, disabled, gone>>

\* A length, a packet or an allocation that the backend refuses.
SubmitRefused ==
    /\ holder = "submit" /\ submitted = 0 /\ loop = NoLoop
    /\ held' = FALSE /\ outcome' = "refused" /\ holder' = "none"
    /\ UNCHANGED <<params, caps, submitted, retired, reapAction, reapStatus, dataVars,
                   inFlight, asked, timedOut, loop, event, kernel>>

\* The ioctl takes one URB; the last one ends the submission.
SubmitUrb ==
    /\ holder = "submit" /\ loop = NoLoop /\ submitted < Num
    /\ ~gone /\ (submitted > 0 /\ mode = "continue" => ~disabled)
    /\ submitted' = submitted + 1
    /\ urb' = [urb EXCEPT ![submitted'] = [NoUrb EXCEPT !.at = "pending"]]
    /\ disabled' = (submitted > 0 /\ disabled)
    /\ IF submitted' = Num
       THEN inFlight' = TRUE /\ holder' = "none"
       ELSE UNCHANGED <<inFlight, holder>>
    /\ UNCHANGED <<params, caps, held, retired, reapAction, reapStatus, dataVars,
                   asked, timedOut, outcome, loop, event, done, sent, halted, gone>>

\* Mutant of SubmitUrbFails: the URBs that were not submitted are not counted.
SubmitUrbFailsUncounted(early) ==
    /\ holder = "submit" /\ loop = NoLoop /\ submitted \in 1..Num-1
    /\ early = (~gone /\ disabled /\ kind = "bulk" /\ mode = "continue")
    /\ reapAction' = IF early THEN "early" ELSE "failed"
    /\ IF early
       THEN inFlight' = TRUE /\ holder' = "none" /\ UNCHANGED loop
       ELSE /\ loop' = [at |-> submitted, first |-> 1, last |-> submitted, ret |-> "ok"]
            /\ UNCHANGED <<inFlight, holder>>
    /\ UNCHANGED <<params, caps, held, submitted, retired, reapStatus, dataVars, asked,
                   timedOut, outcome, event, kernel>>

\* The ioctl fails.  If a URB before has completed short, nothing more is
\* needed; otherwise those before are discarded, and the transfer fails when
\* they have come back.
SubmitUrbFails(early) ==
    /\ holder = "submit" /\ loop = NoLoop /\ submitted \in 1..Num-1
    /\ early = (~gone /\ disabled /\ kind = "bulk" /\ mode = "continue")
    /\ reapAction' = IF early THEN "early" ELSE "failed"
    /\ retired' = retired + Num - submitted
    /\ IF early
       THEN inFlight' = TRUE /\ holder' = "none" /\ UNCHANGED loop
       ELSE /\ loop' = [at |-> submitted, first |-> 1, last |-> submitted, ret |-> "ok"]
            /\ UNCHANGED <<inFlight, holder>>
    /\ UNCHANGED <<params, caps, held, submitted, reapStatus, dataVars, asked, timedOut,
                   outcome, event, kernel>>

-----------------------------------------------------------------------------
(* Discarding and cancelling *)

\* discard_urbs() asks the kernel for one URB after the other, the last first.
DiscardUrb(n) ==
    /\ loop.at >= loop.first
    /\ LET i == loop.at
           Found == urb[i].at \in {"pending", "doomed"}
       IN  IF Found
           THEN /\ n <= Size(i) /\ (n > 0 => urb[i].at = "pending" /\ Active(i) /\ kind # "iso")
                /\ urb' = Completed(i, "killed", n)
                /\ done' = Append(done, i)
                /\ buffer' = Received(i, n) /\ sent' = sent + n
                /\ loop' = [loop EXCEPT !.at = i - 1]
           ELSE /\ n = 0
                /\ loop' = [loop EXCEPT !.at = i - 1,
                              !.ret = IF gone THEN "no_device"
                                      ELSE IF i = loop.last THEN "not_found" ELSE @]
                /\ UNCHANGED <<urb, done, buffer, sent>>
    /\ UNCHANGED <<params, caps, privVars, transferred, flagVars, holder, event,
                   halted, disabled, gone>>

LoopEnded == loop # NoLoop /\ loop.at < loop.first

\* The submission has discarded its URBs and reports success.
SubmitDiscarded ==
    /\ holder = "submit" /\ LoopEnded
    /\ inFlight' = TRUE /\ holder' = "none" /\ loop' = NoLoop
    /\ UNCHANGED <<params, caps, privVars, dataVars, asked, timedOut, outcome, event, kernel>>

\* libusb_cancel_transfer(), called by the user or for a timeout.
Cancel(reason) ==
    /\ inFlight /\ asked = "no" /\ holder = "none"
    /\ IF held
       THEN /\ holder' = reason /\ UNCHANGED asked
            /\ loop' = [at |-> Num, first |-> 1, last |-> Num, ret |-> "ok"]
       ELSE asked' = reason /\ UNCHANGED <<holder, loop>>
    /\ UNCHANGED <<params, caps, privVars, dataVars, inFlight, timedOut, outcome,
                   event, kernel>>

\* Only a cancellation that the backend took changes how the transfer ends.
CancelEnds ==
    /\ holder \in {"user", "timeout"} /\ LoopEnded
    /\ \E interrupt \in BOOLEAN :
         reapAction' = IF loop.ret # "ok" \/ (kind = "bulk" /\ ~interrupt /\ reapAction = "error")
                       THEN reapAction ELSE "cancelled"
    /\ asked' = holder
    /\ timedOut' = (holder = "timeout" /\ loop.ret = "ok")
    /\ holder' = "none" /\ loop' = NoLoop
    /\ UNCHANGED <<params, caps, held, submitted, retired, reapStatus, dataVars,
                   inFlight, outcome, event, kernel>>

-----------------------------------------------------------------------------
(* Reaping *)

\* reap_for_handle() takes a completed URB from the kernel.
Reap ==
    /\ event.at \in {"poll", "drain"} /\ done # <<>>
    /\ event' = [event EXCEPT !.urb = Head(done), !.back = event.at, !.at = "lock"]
    /\ urb' = [urb EXCEPT ![Head(done)].at = "reaped"]
    /\ done' = Tail(done)
    /\ UNCHANGED <<params, caps, privVars, dataVars, flagVars, holder, loop, sent,
                   halted, disabled, gone>>

Back == [Polling EXCEPT !.at = event.back]
Finish(st) == /\ held' = FALSE
              /\ event' = [event EXCEPT !.at = "complete", !.urb = 0, !.status = st]
              /\ UNCHANGED <<holder, loop>>
Continue == event' = Back /\ UNCHANGED <<held, holder, loop>>
CancelRest(i) ==
    /\ loop' = [at |-> Num, first |-> i + 1, last |-> Num, ret |-> "ok"]
    /\ holder' = "event" /\ event' = [event EXCEPT !.at = "discard"]
    /\ UNCHANGED held

\* Mutant of Surplus: it is left where the kernel has put it.
SurplusLeft(i) == buffer

\* Data that comes after the transfer has ended is moved to the data before it.
Surplus(i) ==
    LET n == urb[i].actual
    IN  [p \in DOMAIN buffer |->
            IF p \in transferred+1 .. transferred+n
            THEN buffer[Start(i) + p - transferred] ELSE buffer[p]]

FatalStatus == [gone |-> "no_device", stall |-> "stall", bus |-> "error"]

\* handle_bulk_completion() of a transfer that nothing has ended yet.
HandleBulk(i) ==
    LET u == urb[i]
        last == retired + 1 = Num
        Blame(st) == IF reapStatus = "completed" \/ st = "no_device" THEN st ELSE reapStatus
    IN  /\ reapAction = "normal"
        /\ transferred' = transferred + u.actual /\ UNCHANGED buffer
        /\ \/ /\ u.status \in DOMAIN FatalStatus
              /\ reapAction' = IF u.status = "bus" THEN "error" ELSE reapAction
              /\ reapStatus' = Blame(FatalStatus[u.status])
              /\ IF last THEN Finish(reapStatus') ELSE CancelRest(i)
           \/ /\ u.status = "overflow"
              /\ reapStatus' = Blame("overflow") /\ UNCHANGED reapAction
              /\ Finish(reapStatus')
           \/ /\ u.status \in {"ok", "short", "killed"}
              /\ UNCHANGED reapStatus
              /\ reapAction' = IF ~last /\ u.actual < Size(i) THEN "early" ELSE reapAction
              /\ IF last THEN Finish(reapStatus)
                 ELSE IF u.actual < Size(i) THEN CancelRest(i) ELSE Continue

\* handle_bulk_completion() of one that was cancelled, has failed or was short.
HandleEndedBulk(i) ==
    /\ reapAction # "normal"
    /\ buffer' = Surplus(i) /\ transferred' = transferred + urb[i].actual
    /\ UNCHANGED reapAction
    /\ IF retired + 1 = Num
       THEN /\ reapStatus' = IF reapAction # "early" /\ reapStatus = "completed"
                             THEN "error" ELSE reapStatus
            /\ Finish(IF reapAction = "cancelled" THEN "cancel" ELSE reapStatus')
       ELSE Continue /\ UNCHANGED reapStatus

\* handle_iso_completion(): the results of the packets go to the next
\* descriptors, whichever URB they are of.
IsoStatus(st) == IF st \in {"ok", "killed"} THEN "completed"
                 ELSE IF st = "gone" THEN "no_device" ELSE "error"
\* Mutant of HandleIso: whatever has been discarded is reported as cancelled.
HandleIsoCancelled(i) ==
    /\ buffer' = [p \in DOMAIN buffer |-> IF p \in transferred+1 .. transferred+Size(i)
                    THEN Start(i) + p - transferred ELSE buffer[p]]
    /\ transferred' = transferred + Size(i)
    /\ UNCHANGED <<reapAction, reapStatus>>
    /\ IF retired + 1 = Num
       THEN Finish(IF reapAction = "normal" THEN IsoStatus(urb[i].status) ELSE "cancel")
       ELSE Continue

HandleIso(i) ==
    /\ buffer' = [p \in DOMAIN buffer |-> IF p \in transferred+1 .. transferred+Size(i)
                    THEN Start(i) + p - transferred ELSE buffer[p]]
    /\ transferred' = transferred + Size(i)
    /\ UNCHANGED <<reapAction, reapStatus>>
    /\ IF retired + 1 = Num
       THEN Finish(IF reapAction = "normal" THEN IsoStatus(urb[i].status)
                   ELSE IF reapAction = "cancelled" THEN "cancel" ELSE "error")
       ELSE Continue

\* handle_control_completion()
ControlStatus(st) ==
    IF st = "ok" THEN "completed" ELSE IF st = "killed" THEN "cancelled"
    ELSE IF st = "gone" THEN "no_device" ELSE IF st = "bus" THEN "error" ELSE st
HandleControl(i) ==
    /\ transferred' = transferred + urb[i].actual
    /\ UNCHANGED <<buffer, reapAction, reapStatus>>
    /\ Finish(IF reapAction = "cancelled" THEN "cancel" ELSE ControlStatus(urb[i].status))

\* The thread that handles events gets the lock and handles the URB.
Handle ==
    /\ event.at = "lock" /\ holder = "none"
    /\ LET i == event.urb
       IN  CASE kind = "bulk" -> HandleBulk(i) \/ HandleEndedBulk(i)
             [] kind = "iso" -> HandleIso(i)
             [] kind = "control" -> HandleControl(i)
    /\ retired' = retired + 1
    /\ UNCHANGED <<params, caps, submitted, flagVars, kernel>>

HandleDiscarded ==
    /\ holder = "event" /\ LoopEnded
    /\ holder' = "none" /\ loop' = NoLoop /\ event' = Back
    /\ UNCHANGED <<params, caps, privVars, dataVars, flagVars, kernel>>

\* usbi_handle_transfer_cancellation() and usbi_handle_transfer_completion():
\* the callback is called.  Only here is LIBUSB_TRANSFER_SHORT_NOT_OK looked at.
FinalStatus(st, strict) ==
    IF st = "cancel" THEN IF timedOut THEN "timed_out" ELSE "cancelled"
    ELSE IF st = "completed" /\ strict /\ transferred # length THEN "error" ELSE st
Complete ==
    /\ event.at = "complete" /\ holder = "none"
    /\ \E strict \in BOOLEAN : outcome' = FinalStatus(event.status, strict)
    /\ inFlight' = FALSE
    /\ event' = Back
    /\ UNCHANGED <<params, caps, privVars, dataVars, asked, timedOut, holder, loop, kernel>>

\* op_handle_events() finds POLLERR: it takes the descriptor out of the poll
\* set and reaps what is left.
PollError ==
    /\ event.at = "poll" /\ gone
    /\ event' = Draining
    /\ UNCHANGED <<params, caps, privVars, dataVars, flagVars, holder, loop, kernel>>

\* Mutant of Disconnect: what is in flight is left alone.
DisconnectForgets ==
    /\ event.at = "drain" /\ done = <<>> /\ holder = "none"
    /\ event' = [event EXCEPT !.at = "off"]
    /\ UNCHANGED <<params, caps, privVars, dataVars, flagVars, holder, loop, kernel>>

\* usbi_handle_disconnect() ends what is in flight after that.
Disconnect ==
    /\ event.at = "drain" /\ done = <<>> /\ holder = "none"
    /\ IF inFlight
       THEN /\ held' = FALSE
            /\ event' = [event EXCEPT !.at = "complete", !.back = "drain", !.status = "no_device"]
       ELSE event' = [event EXCEPT !.at = "off"] /\ UNCHANGED held
    /\ UNCHANGED <<params, caps, submitted, retired, reapAction, reapStatus, dataVars,
                   flagVars, holder, loop, kernel>>

-----------------------------------------------------------------------------
EventStep == Reap \/ Handle \/ HandleDiscarded \/ Complete \/ PollError \/ Disconnect
SubmitStep == SubmitUrb \/ SubmitDiscarded \/ \E early \in BOOLEAN : SubmitUrbFails(early)
KernelStep == \E i \in 1..MaxUrbs : Unlink(i)

Next ==
    \/ \E k \in Kinds, len \in 0..MaxLength : Submit(k, len)
    \/ SubmitRefused \/ SubmitStep
    \/ \E reason \in {"user", "timeout"} : Cancel(reason)
    \/ \E n \in 0..MaxLength : DiscardUrb(n)
    \/ CancelEnds
    \/ EventStep \/ KernelStep \/ Unplug
    \/ \E i \in 1..MaxUrbs, st \in {"ok", "short", "stall", "bus", "overflow"},
          n \in 0..MaxLength : n <= Size(i) /\ Answer(i, st, n)

Spec == Init /\ [][Next]_vars

\* The threads run, and the kernel gives back what it unlinks.  The device
\* need not answer.
FairSpec ==
    /\ Spec
    /\ WF_vars(EventStep) /\ WF_vars(SubmitStep) /\ WF_vars(KernelStep)
    /\ WF_vars(CancelEnds) /\ WF_vars(\E n \in 0..MaxLength : DiscardUrb(n))

-----------------------------------------------------------------------------
(* Properties *)

UrbStatuses == {"none", "ok", "short", "stall", "bus", "overflow", "killed", "gone"}
Urbs == [at : {"none", "pending", "doomed", "done", "reaped"}, status : UrbStatuses, actual : Nat]
Loops == [at : 0..MaxUrbs, first : 1..MaxUrbs+1, last : 0..MaxUrbs,
          ret : {"ok", "no_device", "not_found"}]
Reports == {"completed", "no_device", "stall", "error", "overflow"}
Events == [at : {"poll", "drain", "lock", "discard", "complete", "off"}, urb : 0..MaxUrbs,
           back : {"none", "poll", "drain"}, status : Reports \cup {"none", "cancel"}]
UsbfsTypeOK ==
    /\ kind \in Kinds /\ mode \in Modes /\ length \in 0..MaxLength /\ drains \in BOOLEAN
    /\ kind # "bulk" => mode = "whole"
    /\ held \in BOOLEAN /\ submitted \in 0..Num /\ retired \in Nat
    /\ reapAction \in {"normal", "early", "failed", "error", "cancelled"} /\ reapStatus \in Reports
    /\ inFlight \in BOOLEAN /\ asked \in {"no", "user", "timeout"} /\ timedOut \in BOOLEAN
    /\ outcome \in Reports \cup {"none", "waiting", "refused", "cancelled", "timed_out"}
    /\ holder \in {"none", "submit", "user", "timeout", "event"} /\ loop \in Loops
    /\ event \in Events /\ urb \in [1..MaxUrbs -> Urbs] /\ done \in Seq(1..MaxUrbs)
    /\ halted \in BOOLEAN /\ disabled \in BOOLEAN /\ gone \in BOOLEAN

\* itransfer->lock: one thread at a time submits, cancels, or discards what is left
\* of a transfer, and it does so while there is a transfer.
LockIsHeldFor ==
    /\ holder = "submit" =>
         /\ held /\ ~inFlight /\ asked = "no" /\ reapAction # "cancelled"
         /\ IF loop = NoLoop THEN retired = 0 /\ submitted < Num
            ELSE retired = Num - submitted /\ submitted \in 1..Num-1
    /\ holder \in {"user", "timeout"} => held /\ inFlight /\ asked = "no" /\ loop # NoLoop
    /\ holder = "event" <=> event.at = "discard"
    /\ holder = "event" => held /\ inFlight /\ loop # NoLoop /\ kind = "bulk"
    /\ holder = "none" => loop = NoLoop
    /\ loop # NoLoop => loop.last \in 1..Num /\ loop.at <= loop.last
    /\ loop.at = loop.last => loop.ret = "ok"

\* USBI_TRANSFER_IN_FLIGHT: from the submission to the callback.
FlightIsKnown ==
    /\ outcome = "waiting" <=> inFlight \/ holder = "submit"
    /\ held => inFlight \/ holder = "submit"
    /\ inFlight /\ ~held <=> event.at = "complete"
    /\ event.at = "complete" => holder = "none"

\* reap_for_handle(): the URB that is handled has been reaped, and POLLERR is looked
\* at only for a device that is gone.
EventsAreInPlace ==
    /\ event.at \in {"lock", "discard", "complete"} => event.back # "none"
    /\ event.at = "complete" => event.status # "none"
    /\ event.at = "lock" => held /\ event.urb \in 1..submitted /\ urb[event.urb].at = "reaped"
    /\ "drain" \in {event.at, event.back} \/ event.at = "off" => gone

\* What the kernel has completed can be reaped, once; a URB that goes with a failed
\* one leaves none pending; a device that is gone has none.
KernelAgrees ==
    /\ \A i \in DOMAIN urb : urb[i].at = "none" \/ i <= submitted
    /\ \A i \in DOMAIN urb : urb[i].at = "done" <=> \E a \in DOMAIN done : done[a] = i
    /\ \A a, b \in DOMAIN done : done[a] = done[b] => a = b
    /\ \A i \in DOMAIN urb : /\ urb[i].at \in {"done", "reaped"} <=> urb[i].status # "none"
                             /\ urb[i].status = "short" => kind = "bulk"
    /\ \A i \in DOMAIN urb : urb[i].at = "doomed" => Pending = {} /\ disabled /\ mode = "continue"
    /\ gone => \A i \in InKernel : urb[i].at = "done" /\ drains

\* linux_usbfs.c:2058: the URBs of a transfer are freed, and its callback is
\* called, only when the kernel has none of them any more: it would write to
\* freed memory.
UrbsOutliveKernel == ~held => InKernel = {} /\ done = <<>>

\* num_retired: what the transfer counts, and what the kernel or the handler has, are
\* all of its URBs.  An older kernel forgets those of a device that is gone.
UrbsAreCounted ==
    held => \/ gone /\ ~drains
            \/ retired + Cardinality(InKernel) + (IF event.at = "lock" THEN 1 ELSE 0)
                 = IF holder = "submit" /\ loop = NoLoop THEN submitted ELSE Num

\* handle_bulk_completion() frees the URBs at an overflow, as it comes in the last one.
OverflowIsLast ==
    \A i \in DOMAIN urb : urb[i].status = "overflow" =>
        /\ i = Num /\ \A j \in InKernel : urb[j].at = "done"
        /\ urb[i].at = "done" => done[Len(done)] = i
        /\ urb[i].at # "done" => InKernel = {}

\* USBI_TRANSFER_TIMED_OUT and the reports of a cancellation: only if it was asked for.
CancelIsReported ==
    /\ timedOut => asked = "timeout"
    /\ reapAction = "cancelled" \/ (event.at = "complete" /\ event.status = "cancel") =>
         asked # "no" /\ (timedOut <=> asked = "timeout")
    /\ kind = "control" /\ (\E i \in DOMAIN urb : urb[i].status = "killed") =>
         \/ reapAction = "cancelled"
         \/ holder \in {"user", "timeout"} /\ loop.ret = "ok" /\ loop.at = 0

\* The lock protects what it is held for, the counts of URBs agree with the kernel's,
\* and the URBs outlive their use there.
UsbfsInv ==
    /\ UsbfsTypeOK /\ LockIsHeldFor /\ FlightIsKnown /\ EventsAreInPlace /\ KernelAgrees
    /\ UrbsOutliveKernel /\ UrbsAreCounted /\ OverflowIsLast /\ CancelIsReported

Reported == outcome \notin {"none", "waiting", "refused"}

\* handle_bulk_completion(): whatever ends a transfer, the buffer then starts
\* with all the data that the device sent, in order and without holes, and
\* actual_length counts it.
DataIsWhole ==
    Reported /\ kind = "bulk" /\ ~gone =>
        transferred = sent /\ \A p \in 1..sent : buffer[p] = p

\* A transfer is reported as completed only if the device completed it: all of
\* its URBs are full, or one was short.  The packet descriptors of an
\* isochronous one then hold the results of their own packets.  The code has
\* two exceptions: a URB that fails before the one that continues it is
\* submitted has the transfer reported as if it were short (linux_usbfs.c:2074),
\* and a cancellation that loses the device on its way (linux_usbfs.c:2312)
\* leaves the URBs it has discarded to look like short ones.
FailedBeforeContinuation ==
    submitted < Num /\ \E i \in 1..submitted : urb[i].status \in DOMAIN FatalStatus
CancelLostDevice == asked # "no" /\ gone
IsShort == \E i \in 1..Num : urb[i].status \in {"ok", "short"} /\ urb[i].actual < Size(i)
IsCompleted ==
    CASE kind = "bulk" -> transferred = length \/ IsShort \/ FailedBeforeContinuation
      [] kind = "iso" -> \A p \in 1..length : buffer[p] = p
      [] OTHER -> urb[1].status = "ok"
CompletedIsTrue == outcome = "completed" => CancelLostDevice \/ IsCompleted

(* Why that is so.  The handler takes the URBs in the order in which the   *)
(* kernel completed them, and the data in them follow one another.         *)

Handled == {i \in DOMAIN urb : urb[i].at = "reaped" /\ ~(event.at = "lock" /\ event.urb = i)}
Earlier(j, i) ==
    \/ j \in Handled
    \/ event.at = "lock" /\ event.urb = j /\ urb[i].at = "done"
    \/ \E b \in DOMAIN done : done[b] = i /\ \E a \in 1..b-1 : done[a] = j
InOrder(i) == \A j \in 1..i-1 : Earlier(j, i)

Waiting == {i \in DOMAIN urb : /\ urb[i].actual > 0
                               /\ urb[i].at = "done" \/ (event.at = "lock" /\ event.urb = i)}
Full(i) == urb[i].status # "none" /\ urb[i].actual = Size(i)
First(i) == buffer[Start(i) + 1]
Failures == {"short", "stall", "bus"}
Normal == held /\ reapAction = "normal" /\ reapStatus = "completed"
Cancelling == holder \in {"user", "timeout"} /\ (gone \/ (loop.ret = "ok" /\ loop.at < loop.last))

DataTypeOK ==
    /\ transferred \in Nat /\ sent \in Nat /\ buffer \in [1..MaxLength -> Nat]
    /\ \A i \in DOMAIN urb : /\ urb[i].status \in {"none", "gone"} => urb[i].actual = 0
                             /\ urb[i].status = "gone" => gone
                             /\ i <= Num => urb[i].actual <= Size(i)
                             /\ urb[i].status = "short" => urb[i].actual < Size(i)

\* num_retired counts the URBs that were handled, and those never submitted; only
\* the handler of bulk URBs keeps what it reports in reap_status.
RetiredAreHandled ==
    /\ \A i \in 1..submitted : urb[i].at = "none" => gone
    /\ held => retired = Cardinality(Handled)
                          + (IF holder = "submit" /\ loop = NoLoop THEN 0 ELSE Num - submitted)
    /\ holder = "submit" /\ loop = NoLoop => reapAction = "normal" /\ reapStatus = "completed"
    /\ holder = "submit" /\ loop # NoLoop => reapAction = "failed"
    /\ held /\ reapAction = "normal" /\ holder # "submit" => submitted = Num
    /\ kind # "bulk" => reapStatus = "completed"

\* discard_urbs() does not find the last URB only if the device has ended all, or is gone.
CancelKnowsWhy ==
    /\ loop.ret = "no_device" => gone
    /\ holder \in {"user", "timeout"} => loop.last = Num
    /\ holder \in {"user", "timeout"} /\ loop.ret = "not_found" /\ reapAction = "normal" /\ ~gone =>
         urb[Num].status # "none"
    /\ holder = "event" => ~Normal
    /\ Normal /\ ~gone /\ urb[Num].status # "none" => Pending = {} \/ Cancelling

\* Before the handler knows of it, a URB is killed for a cancellation or for one before it.
FailureIsKnown ==
    /\ held /\ submitted > 0 /\ disabled /\ ~gone =>
         \E i \in 1..submitted : urb[i].status \in Failures \cup {"overflow"}
    /\ \A i \in DOMAIN urb : Normal /\ kind = "bulk" /\ urb[i].status = "killed" =>
         \/ CancelLostDevice \/ Cancelling
         \/ \E j \in DOMAIN urb : Earlier(j, i) /\ urb[j].status \in Failures

OrderIsKept ==
    /\ kind = "bulk" => \A i \in DOMAIN urb : urb[i].actual > 0 => InOrder(i)
    /\ Normal /\ kind = "iso" =>
         CancelLostDevice \/ Cancelling \/ \A i \in DOMAIN urb : urb[i].status # "none" => InOrder(i)

\* As long as nothing has ended the transfer, every URB handled was full.
NormalIsFull ==
    /\ held /\ kind = "bulk" /\ reapAction = "normal" =>
         \A i \in Handled : \/ Full(i) /\ urb[i].status \in {"ok", "killed"}
                            \/ urb[i].status \in {"stall", "gone"} /\ reapStatus # "completed"
    /\ Normal /\ retired < Num /\ (kind = "bulk" \/ (kind = "iso" /\ ~CancelLostDevice)) =>
         transferred = Start(retired + 1)
    /\ Normal /\ kind = "iso" /\ ~CancelLostDevice => \A p \in 1..transferred : buffer[p] = p

\* What waits to be handled continues what was handled, up to what was sent.
DataFollows ==
    kind = "bulk" /\ ~gone =>
        /\ transferred <= sent /\ \A p \in 1..transferred : buffer[p] = p
        /\ \A i \in Waiting :
             /\ transferred < First(i) /\ First(i) + urb[i].actual <= sent + 1
             /\ \A q \in 1..urb[i].actual : buffer[Start(i) + q] = First(i) + q - 1
             /\ First(i) <= Start(i) + 1
             /\ (\A j \in 1..i-1 : Full(j)) => First(i) = Start(i) + 1
             /\ (\A j \in Waiting : i <= j) => First(i) = transferred + 1
             /\ (\A j \in Waiting : j <= i) => First(i) + urb[i].actual = sent + 1
             /\ \A k \in Waiting : i < k =>
                  /\ First(i) + urb[i].actual <= First(k)
                  /\ (\A j \in Waiting : j <= i \/ k <= j) => First(k) = First(i) + urb[i].actual
        /\ Waiting = {} => transferred = sent

\* What is sent yet has its place behind, at the same place if nothing was short.
DataComesInOrder ==
    kind = "bulk" /\ ~gone =>
        /\ \A i \in 1..Num : i \in Pending \/ i > submitted => sent <= Start(i)
        /\ \A i \in 1..Num : (\A j \in 1..i-1 : Full(j)) /\ (\A j \in i..Num : urb[j].actual = 0) =>
             sent = Start(i)
        /\ \A i \in DOMAIN urb : urb[i].status = "stall" =>
             halted /\ \A j \in DOMAIN urb : i < j => urb[j].actual = 0

\* Before it is reported, a completion has its reason.
EndHasReason ==
    /\ held /\ kind = "bulk" /\ reapAction = "early" /\ reapStatus = "completed" =>
         \/ CancelLostDevice \/ IsShort \/ FailedBeforeContinuation
         \/ \E i \in 1..submitted : urb[i].at = "none"
    /\ event.at = "complete" /\ event.status = "completed" => CancelLostDevice \/ IsCompleted

\* What a transfer is reported with is so.
ReportIsTrue ==
    /\ DataIsWhole /\ CompletedIsTrue
    /\ DataTypeOK /\ RetiredAreHandled /\ CancelKnowsWhy /\ FailureIsKnown /\ OrderIsKept
    /\ NormalIsFull /\ DataFollows /\ DataComesInOrder /\ EndHasReason

\* A transfer that was cancelled, or timed out, is reported even if the device
\* never answers; nothing it has submitted is left behind.
CancelledIsReported == (asked # "no" /\ inFlight) ~> ~inFlight

\* libusb's promise about a transfer, implemented with URBs.
TheTransfer == {"transfer"}
Transfer == INSTANCE LibusbTransfer WITH
    Transfers <- TheTransfer,
    flying <- [x \in TheTransfer |-> inFlight],
    asked  <- [x \in TheTransfer |-> asked],
    status <- [x \in TheTransfer |-> IF Reported /\ ~inFlight THEN outcome ELSE "none"]
ImplementsTransfer == Transfer!Spec
=============================================================================
