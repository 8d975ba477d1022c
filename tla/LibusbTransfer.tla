--------------------------- MODULE LibusbTransfer ---------------------------
(***************************************************************************)
(* What libusb promises of transfers (io.c, libusb_submit_transfer()): a   *)
(* submission is refused or accepted; an accepted one is reported to its   *)
(* callback once, and as cancelled or timed out only if somebody, or its   *)
(* timeout, asked for that.  LibusbUsbfs and LibusbIo implement it.        *)
(***************************************************************************)
CONSTANT Transfers

VARIABLES
    flying,  \* accepted and not reported: USBI_TRANSFER_IN_FLIGHT
    asked,   \* who cancelled it: "no", "user" or "timeout"
    status   \* what was reported last; "none" until then

vars == <<flying, asked, status>>

Statuses == {"completed", "error", "stall", "overflow", "no_device",
             "cancelled", "timed_out"}

Init ==
    /\ flying = [x \in Transfers |-> FALSE]
    /\ asked = [x \in Transfers |-> "no"] /\ status = [x \in Transfers |-> "none"]

\* What the last submission left is cleared before the next one counts.
Prepare(x) ==
    /\ ~flying[x]
    /\ asked' = [asked EXCEPT ![x] = "no"] /\ status' = [status EXCEPT ![x] = "none"]
    /\ UNCHANGED flying

Submit(x) ==
    /\ ~flying[x] /\ asked[x] = "no" /\ status[x] = "none"
    /\ flying' = [flying EXCEPT ![x] = TRUE]
    /\ UNCHANGED <<asked, status>>

Cancel(x, reason) ==
    /\ flying[x] /\ asked[x] = "no"
    /\ asked' = [asked EXCEPT ![x] = reason]
    /\ UNCHANGED <<flying, status>>

Report(x, s) ==
    /\ flying[x]
    /\ s = "cancelled" => asked[x] = "user"
    /\ s = "timed_out" => asked[x] = "timeout"
    /\ flying' = [flying EXCEPT ![x] = FALSE] /\ status' = [status EXCEPT ![x] = s]
    /\ UNCHANGED asked

Next ==
    \E x \in Transfers :
        \/ Prepare(x) \/ Submit(x)
        \/ \E reason \in {"user", "timeout"} : Cancel(x, reason)
        \/ \E s \in Statuses : Report(x, s)

Spec == Init /\ [][Next]_vars
=============================================================================
