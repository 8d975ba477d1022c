------------------------------- MODULE LibusbIo -------------------------------
(***************************************************************************)
(* How the threads of one libusb context share the handling of its events  *)
(* (io.c, sync.c, events_posix.c, and open and close of core.c).  Every    *)
(* thread has a handle with one transfer and waits for it to complete.     *)
(* One of them at a time holds the events lock and polls; the others wait  *)
(* on a condition variable.  Users also cancel, and close their handles.   *)
(*                                                                         *)
(* What a transfer is made of is the subject of LibusbUsbfs; here the      *)
(* kernel holds it, completes it, or gives it back killed.  The build has  *)
(* neither timerfd nor eventfd: timeouts are those of poll() and of the    *)
(* condition variable, and the event is a pipe whose reads block.  The 60  *)
(* seconds after which libusb_handle_events() returns anyway never pass    *)
(* here: no wake-up may depend on them.                                    *)
(***************************************************************************)
EXTENDS Integers, Sequences, FiniteSets, FiniteSetsExt, SequencesExt

CONSTANTS
    Threads,         \* they are also the names of their handles and transfers
    Users,           \* those that use the asynchronous interface; the others
                     \* are in libusb_bulk_transfer() and its like
    Nobody,
    Timeouts,        \* the timeouts of transfers; 0 is none
    MaxTime,         \* bound on the clock
    MaxSubmits,      \* bound on the submissions
    CallbackCloses   \* whether a callback may close its handle

SharedLocks == {"flying_transfers_lock", "events_lock", "event_waiters_lock", "open_devs_lock"}

ASSUME IoAssumption ==
    /\ Users \subseteq Threads /\ IsFiniteSet(Threads)
    /\ Nobody \notin Threads /\ Threads \cap SharedLocks = {}
    /\ Timeouts \subseteq 0..MaxTime /\ MaxTime \in Nat /\ MaxSubmits \in Nat
    /\ CallbackCloses \in BOOLEAN

Never == MaxTime + 1

VARIABLES
    pc,         \* where each thread is
    until,      \* how long it polls or waits
    seen,       \* the handles that its poll() reported, and whether with POLLERR
    cur,        \* the transfer it handles, with the status to report
    flying,     \* flying_transfers, the list
    deadline,   \* itransfer->timeout
    inFlight,   \* USBI_TRANSFER_IN_FLIGHT
    asked,      \* USBI_TRANSFER_CANCELLING, and for whom
    handled,    \* USBI_TRANSFER_TIMEOUT_HANDLED
    timedOut,   \* USBI_TRANSFER_TIMED_OUT
    status,     \* what was reported
    completed,  \* the flag the callback sets
    submits,    \* submissions so far
    again,      \* the transfers that their callbacks have submitted
    lock,       \* the owner of each lock, those of the transfers included
    active,     \* event_handler_active
    closing,    \* device_close
    flags,      \* event_flags
    pipe,       \* bytes in the event pipe
    sources,    \* event_sources: the handles whose descriptors are polled
    polled,     \* event_data: those the next poll() is given
    urb,        \* what the kernel has of each transfer
    gone,       \* the device is unplugged
    now

threadVars   == <<until, seen, cur>>
markVars     == <<asked, handled, timedOut>>
transferVars == <<flying, deadline, inFlight, markVars, status, completed, submits, again>>
eventVars    == <<flags, pipe, sources, polled>>
handlerVars  == <<active, closing>>
deviceVars   == <<urb, gone>>
vars == <<pc, threadVars, transferVars, lock, handlerVars, eventVars, deviceVars, now>>

NoPoll == [ready |-> {}, error |-> FALSE]
NoTransfer == [x |-> Nobody, status |-> "none"]

Init ==
    /\ pc = [t \in Threads |-> IF t \in Users THEN "out" ELSE "idle"]
    /\ until = [t \in Threads |-> Never] /\ seen = [t \in Threads |-> NoPoll]
    /\ cur = [t \in Threads |-> NoTransfer]
    /\ flying = <<>> /\ deadline = [t \in Threads |-> Never]
    /\ inFlight = [t \in Threads |-> FALSE] /\ asked = [t \in Threads |-> "no"]
    /\ handled = [t \in Threads |-> FALSE] /\ timedOut = [t \in Threads |-> FALSE]
    /\ status = [t \in Threads |-> "none"] /\ completed = [t \in Threads |-> FALSE]
    /\ submits = 0 /\ again = {}
    /\ lock = [l \in SharedLocks \cup Threads |-> Nobody]
    /\ active = FALSE /\ closing = 0
    /\ flags = {"sources"} /\ pipe = 1   \* usbi_io_init() adds the event itself
    /\ sources = Threads \ Users /\ polled = {}
    /\ urb = [t \in Threads |-> "none"] /\ gone = FALSE /\ now = 0

Forget(t) == cur' = [cur EXCEPT ![t] = NoTransfer]
At(t, place) == pc[t] = place
Go(t, place) == pc' = [pc EXCEPT ![t] = place]
Free(l) == lock[l] = Nobody
Take(l, t) == Free(l) /\ lock' = [lock EXCEPT ![l] = t]
Give(l) == lock' = [lock EXCEPT ![l] = Nobody]

\* Mutant of Raise: usbi_signal_event() at every flag.
RaiseAlways(f) == flags' = flags \cup {f} /\ pipe' = pipe + 1

\* Raising a flag writes to the pipe only if no flag was up, and whoever lowers
\* the last one reads the byte.
Raise(f) == flags' = flags \cup {f} /\ pipe' = IF flags = {} THEN pipe + 1 ELSE pipe
Lower(fs) == flags' = flags \ fs /\ pipe' = IF flags \ fs = {} THEN pipe - 1 ELSE pipe

\* Adding or removing a descriptor asks for a new poll set.
AddSource(h) == sources' = sources \cup {h} /\ Raise("sources")
RemoveSource(h) ==
    IF h \in sources THEN sources' = sources \ {h} /\ Raise("sources")
                     ELSE UNCHANGED <<sources, flags, pipe>>

-----------------------------------------------------------------------------
(* Submission *)

\* Mutant of AddToFlyingList: the transfer goes to the end of the list.
AddToFlyingListTail(x, due) == Append(flying, x)

\* The list is ordered by deadline, transfers without one at its end.
AddToFlyingList(x, due) ==
    LET later == {i \in DOMAIN flying : deadline[flying[i]] > due}
    IN  IF due = Never \/ later = {} THEN Append(flying, x)
        ELSE InsertAt(flying, Min(later), x)

\* list_del() goes wrong for a transfer that is not listed.
RemoveFromFlyingList(x) ==
    \E i \in DOMAIN flying : flying[i] = x /\ flying' = RemoveAt(flying, i)

CalculateTimeout(timeout) == IF timeout = 0 THEN Never ELSE now + timeout

Cleared(x) ==
    /\ asked' = [asked EXCEPT ![x] = "no"] /\ handled' = [handled EXCEPT ![x] = FALSE]
    /\ timedOut' = [timedOut EXCEPT ![x] = FALSE] /\ status' = [status EXCEPT ![x] = "none"]
    /\ completed' = [completed EXCEPT ![x] = FALSE]

\* The first half of libusb_submit_transfer(): the transfer is listed and stays
\* locked.
SubmitBegins(t, x) ==
    /\ Free("flying_transfers_lock") /\ Take(x, t) /\ ~inFlight[x]
    /\ \E timeout \in Timeouts :
         LET due == CalculateTimeout(timeout)
         IN  /\ due <= Never
             /\ flying' = AddToFlyingList(x, due)
             /\ deadline' = [deadline EXCEPT ![x] = due]
    /\ Cleared(x)
    /\ cur' = [cur EXCEPT ![t] = [x |-> x, status |-> "none"]]
    /\ Go(t, "backend")
    /\ UNCHANGED <<until, seen, inFlight, handlerVars, eventVars, deviceVars, now>>

Call(t) ==
    /\ At(t, "idle") /\ submits < MaxSubmits /\ submits' = submits + 1
    /\ SubmitBegins(t, t) /\ again' = again \ {t}

InCallback(t) == lock["event_waiters_lock"] = t

\* The backend takes the transfer, or the ioctl fails.
BackendTakes(t) ==
    /\ At(t, "backend") /\ ~gone
    /\ urb' = [urb EXCEPT ![cur[t].x] = "kernel"]
    /\ inFlight' = [inFlight EXCEPT ![cur[t].x] = TRUE]
    /\ Give(cur[t].x)
    /\ Go(t, IF InCallback(t) THEN "called" ELSE "loop") /\ Forget(t)
    /\ UNCHANGED <<until, seen, flying, deadline, markVars, status, completed, submits, again,
                   handlerVars, eventVars, gone, now>>
BackendFails(t) ==
    /\ At(t, "backend")
    /\ Give(cur[t].x) /\ Go(t, "unlist")
    /\ UNCHANGED <<threadVars, transferVars, handlerVars, eventVars, deviceVars, now>>

\* A transfer that was refused is unlisted; a callback then has nothing to wait
\* for any more.
Unlist(t) ==
    /\ At(t, "unlist") /\ Free("flying_transfers_lock")
    /\ RemoveFromFlyingList(cur[t].x)
    /\ completed' = [completed EXCEPT ![cur[t].x] = InCallback(t)]
    /\ Go(t, IF InCallback(t) THEN "called" ELSE IF t \in Users THEN "close" ELSE "idle")
    /\ deadline' = [deadline EXCEPT ![cur[t].x] = Never] /\ Forget(t)
    /\ UNCHANGED <<until, seen, inFlight, markVars, status, submits, again, lock,
                   handlerVars, eventVars, deviceVars, now>>

-----------------------------------------------------------------------------
(* Cancellation and timeouts *)

\* What libusb_cancel_transfer() does, for the user or a timeout.
Cancellable(x) == Free(x) /\ inFlight[x] /\ asked[x] = "no"
Killed(x) == IF urb[x] = "kernel" THEN [urb EXCEPT ![x] = "killed"] ELSE urb

UserCancels(t) ==
    /\ t \in Users /\ At(t, "loop") /\ Cancellable(t)
    /\ asked' = [asked EXCEPT ![t] = "user"] /\ urb' = Killed(t)
    /\ UNCHANGED <<pc, threadVars, flying, deadline, inFlight, handled, timedOut, status,
                   completed, submits, again, lock, handlerVars, eventVars, gone, now>>

HandleTimeouts(t) ==
    /\ At(t, "timeouts") /\ Take("flying_transfers_lock", t)
    /\ Go(t, "sweep") /\ until' = [until EXCEPT ![t] = Never]
    /\ UNCHANGED <<seen, cur, transferVars, handlerVars, eventVars, deviceVars, now>>

\* The first transfer of the list whose timeout has not been handled; nobody has
\* one if that has none, for the list is ordered.
NextUnhandled ==
    LET open == {i \in DOMAIN flying : ~handled[flying[i]]}
    IN  IF open = {} \/ deadline[flying[Min(open)]] = Never THEN Nobody ELSE flying[Min(open)]
Expired == NextUnhandled # Nobody /\ deadline[NextUnhandled] <= now

\* handle_timeout(): a transfer whose time is over is cancelled; only if that
\* succeeds, it has timed out.
SweepCancels(t) ==
    /\ At(t, "sweep") /\ Expired
    /\ LET x == NextUnhandled
       IN  /\ Free(x)
           /\ handled' = [handled EXCEPT ![x] = TRUE]
           /\ IF Cancellable(x)
              THEN /\ asked' = [asked EXCEPT ![x] = "timeout"] /\ urb' = Killed(x)
                   /\ IF urb[x] = "kernel"
                      THEN cur' = [cur EXCEPT ![t] = [x |-> x, status |-> "none"]] /\ Go(t, "mark")
                      ELSE UNCHANGED <<cur, pc>>
              ELSE UNCHANGED <<asked, urb, cur, pc>>
    /\ UNCHANGED <<until, seen, flying, deadline, inFlight, timedOut, status, completed,
                   submits, again, lock, handlerVars, eventVars, gone, now>>
Mark(t) ==
    /\ At(t, "mark")
    /\ timedOut' = [timedOut EXCEPT ![cur[t].x] = TRUE]
    /\ Go(t, "sweep") /\ Forget(t)
    /\ UNCHANGED <<until, seen, flying, deadline, inFlight, asked, handled, status, completed,
                   submits, again, lock, handlerVars, eventVars, deviceVars, now>>
SweepEnds(t) ==
    /\ At(t, "sweep") /\ ~Expired
    /\ Give("flying_transfers_lock")
    /\ Go(t, IF lock["events_lock"] = t THEN "unlock" ELSE "loop")
    /\ UNCHANGED <<threadVars, transferVars, handlerVars, eventVars, deviceVars, now>>

-----------------------------------------------------------------------------
(* libusb_handle_events_completed(), called until the transfer is completed *)

\* The caller frees the transfer.
Return(t) ==
    /\ At(t, "loop") /\ completed[t]
    /\ deadline' = [deadline EXCEPT ![t] = Never] /\ Cleared(t)
    /\ Go(t, IF t \in Users THEN "close" ELSE "idle")
    /\ UNCHANGED <<threadVars, flying, inFlight, submits, again, lock, handlerVars, eventVars, deviceVars, now>>

\* libusb_try_lock_events() first looks whether somebody closes a device.
Entry == IF closing > 0 THEN "wait" ELSE "trylock"
GetNextTimeout(t) ==
    /\ At(t, "loop") /\ ~completed[t] /\ Free("flying_transfers_lock")
    /\ until' = [until EXCEPT ![t] = IF Expired \/ NextUnhandled = Nobody THEN Never
                                     ELSE deadline[NextUnhandled]]
    /\ Go(t, IF Expired THEN "timeouts" ELSE Entry)
    /\ UNCHANGED <<seen, cur, transferVars, lock, handlerVars, eventVars, deviceVars, now>>

\* The poll set is made anew if a flag says that the descriptors have changed.
AllocEventData ==
    IF "sources" \in flags THEN polled' = sources /\ Lower({"sources"})
                           ELSE UNCHANGED <<polled, flags, pipe>>

\* With the lock held, and its transfer still not completed, the thread makes
\* sure that it polls the present descriptors.
TryLock(t) ==
    /\ At(t, "trylock")
    /\ IF ~Free("events_lock")
       THEN Go(t, "wait") /\ UNCHANGED <<until, lock, active, eventVars>>
       ELSE /\ Take("events_lock", t) /\ active' = TRUE /\ UNCHANGED sources
            /\ IF completed[t]
               THEN Go(t, "unlock") /\ until' = [until EXCEPT ![t] = Never]
                    /\ UNCHANGED <<polled, flags, pipe>>
               ELSE Go(t, "poll") /\ AllocEventData /\ UNCHANGED until
    /\ UNCHANGED <<seen, cur, transferVars, closing, deviceVars, now>>

Completions == {"ok", "killed", "gone"}
Ready == {h \in polled \cap sources : urb[h] \in Completions \/ gone}

\* If the pipe is readable, the flag of an interruption is lowered, but not the
\* one of a close.
HandleEventTrigger == IF pipe > 0 THEN Lower({"interrupt"}) ELSE UNCHANGED <<flags, pipe>>

Poll(t) ==
    /\ At(t, "poll")
    /\ IF pipe > 0 \/ Ready # {}
       THEN /\ seen' = [seen EXCEPT ![t] = [ready |-> Ready, error |-> gone /\ Ready # {}]]
            /\ Go(t, IF Ready = {} THEN "unlock" ELSE "devs")
            /\ HandleEventTrigger
       ELSE /\ until[t] <= now
            /\ Go(t, "timeouts") /\ UNCHANGED <<seen, flags, pipe>>
    /\ until' = [until EXCEPT ![t] = Never]
    /\ UNCHANGED <<cur, transferVars, lock, handlerVars, sources, polled, deviceVars, now>>

\* op_handle_events() keeps the list of open handles locked.
LockDevices(t) ==
    /\ At(t, "devs") /\ Take("open_devs_lock", t) /\ Go(t, "reap")
    /\ UNCHANGED <<threadVars, transferVars, handlerVars, eventVars, deviceVars, now>>

\* A descriptor with POLLERR is taken out of the poll set.
PollError(t, h) ==
    /\ At(t, "reap") /\ h \in seen[t].ready /\ seen[t].error /\ h \in sources
    /\ RemoveSource(h)
    /\ UNCHANGED <<pc, threadVars, transferVars, lock, handlerVars, polled, deviceVars, now>>

Handling(t, h) ==
    At(t, "reap") /\ h \in seen[t].ready /\ (seen[t].error => h \notin sources)
Result(x) == IF urb[x] = "ok" THEN "completed"
             ELSE IF urb[x] = "gone" THEN "no_device" ELSE "killed"
Reap(t, h) ==
    /\ Handling(t, h) /\ urb[h] \in Completions
    /\ cur' = [cur EXCEPT ![t] = [x |-> h, status |-> Result(h)]]
    /\ Go(t, IF urb[h] = "killed" THEN "cancelled" ELSE "complete")
    /\ urb' = [urb EXCEPT ![h] = "none"]
    /\ UNCHANGED <<until, seen, transferVars, lock, handlerVars, eventVars, gone, now>>

\* Nothing more is reaped.  After POLLERR usbi_handle_disconnect() ends what is
\* still in flight.
Reaped(t, h) ==
    /\ Handling(t, h) /\ urb[h] \notin Completions
    /\ IF seen[t].error /\ inFlight[h]
       THEN /\ Free("flying_transfers_lock") /\ Free(h)
            /\ cur' = [cur EXCEPT ![t] = [x |-> h, status |-> "no_device"]]
            /\ Go(t, "complete") /\ UNCHANGED seen
       ELSE seen' = [seen EXCEPT ![t].ready = @ \ {h}] /\ UNCHANGED <<pc, cur>>
    /\ UNCHANGED <<until, transferVars, lock, handlerVars, eventVars, deviceVars, now>>
ReapEnds(t) ==
    /\ At(t, "reap") /\ seen[t].ready = {}
    /\ Give("open_devs_lock") /\ Go(t, "unlock") /\ seen' = [seen EXCEPT ![t] = NoPoll]
    /\ UNCHANGED <<until, cur, transferVars, handlerVars, eventVars, deviceVars, now>>

-----------------------------------------------------------------------------
(* Completion *)

\* Mutant of HandleCancellation: the flag is read without the lock.
HandleCancellationUnlocked(t) ==
    /\ At(t, "cancelled")
    /\ cur' = [cur EXCEPT ![t].status =
                 IF timedOut[cur[t].x] THEN "timed_out" ELSE "cancelled"]
    /\ Go(t, "complete")
    /\ UNCHANGED <<until, seen, transferVars, lock, handlerVars, eventVars, deviceVars, now>>

\* usbi_handle_transfer_cancellation() reads the flag with the list locked: who
\* has cancelled the transfer for its timeout has then set it.
HandleCancellation(t) ==
    /\ At(t, "cancelled") /\ Free("flying_transfers_lock")
    /\ cur' = [cur EXCEPT ![t].status =
                 IF timedOut[cur[t].x] THEN "timed_out" ELSE "cancelled"]
    /\ Go(t, "complete")
    /\ UNCHANGED <<until, seen, transferVars, lock, handlerVars, eventVars, deviceVars, now>>

\* usbi_handle_transfer_completion(), one lock after the other.
HandleCompletion(t) ==
    /\ At(t, "complete") /\ Free("flying_transfers_lock")
    /\ RemoveFromFlyingList(cur[t].x)
    /\ Go(t, "land")
    /\ UNCHANGED <<threadVars, deadline, inFlight, markVars, status, completed, submits, again,
                   lock, handlerVars, eventVars, deviceVars, now>>
\* The transfer may be submitted again by its callback, which runs with the
\* waiters locked; it sets the flag, or a user's callback closes the handle.
Land(t) ==
    /\ At(t, "land") /\ Free(cur[t].x) /\ Free("event_waiters_lock")
    /\ LET x == cur[t].x
           Hold == lock' = [lock EXCEPT !["event_waiters_lock"] = t] /\ UNCHANGED cur
           Again == /\ x \in Users /\ cur[t].status = "completed" /\ submits < MaxSubmits
                    /\ submits' = submits + 1
       IN  /\ inFlight' = [inFlight EXCEPT ![x] = FALSE]
           /\ status' = [status EXCEPT ![x] = cur[t].status]
           /\ \/ completed' = [completed EXCEPT ![x] = TRUE]
                 /\ Go(t, "reap") /\ Forget(t) /\ UNCHANGED <<lock, submits>>
              \/ Again /\ Go(t, "again") /\ Hold /\ UNCHANGED completed
              \/ /\ x \in Users /\ CallbackCloses
                 /\ completed' = [completed EXCEPT ![x] = TRUE] /\ Go(t, "shut") /\ Hold
                 /\ UNCHANGED submits
    /\ UNCHANGED <<until, seen, flying, deadline, markVars, again,
                   handlerVars, eventVars, deviceVars, now>>
Resubmit(t) ==
    /\ At(t, "again") /\ SubmitBegins(t, cur[t].x)
    /\ again' = again \cup {cur[t].x} /\ UNCHANGED submits
CallbackReturns(t) ==
    /\ At(t, "called") /\ Give("event_waiters_lock") /\ Go(t, "reap") /\ Forget(t)
    /\ UNCHANGED <<until, seen, transferVars, handlerVars, eventVars, deviceVars, now>>

-----------------------------------------------------------------------------
(* Waiting for the thread that handles events *)

\* They look once more whether their transfer is completed, and whether anybody
\* handles events (libusb_event_handler_active()), before they wait.
HandlerActive == closing > 0 \/ active
Wait(t) ==
    /\ At(t, "wait") /\ Free("event_waiters_lock")
    /\ Go(t, IF completed[t] THEN "loop" ELSE IF HandlerActive THEN "cond" ELSE "trylock")
    /\ UNCHANGED <<threadVars, transferVars, lock, handlerVars, eventVars, deviceVars, now>>
WaitTimesOut(t) ==
    /\ At(t, "cond") /\ until[t] <= now /\ Go(t, "late")
    /\ UNCHANGED <<threadVars, transferVars, lock, handlerVars, eventVars, deviceVars, now>>
WaitEnds(t) ==
    /\ pc[t] \in {"woken", "late"} /\ Free("event_waiters_lock")
    /\ Go(t, IF pc[t] = "late" THEN "timeouts" ELSE "loop")
    /\ UNCHANGED <<threadVars, transferVars, lock, handlerVars, eventVars, deviceVars, now>>

\* libusb_unlock_events() gives the lock back and then wakes all that wait.
Unlock(t) ==
    /\ pc[t] \in {"unlock", "closed"}
    /\ Give("events_lock") /\ active' = FALSE
    /\ Go(t, IF pc[t] = "unlock" THEN "broadcast" ELSE "farewell")
    /\ UNCHANGED <<threadVars, transferVars, closing, eventVars, deviceVars, now>>
Broadcast(t) ==
    /\ pc[t] \in {"broadcast", "farewell"} /\ Free("event_waiters_lock")
    /\ pc' = [u \in Threads |-> IF u = t THEN IF pc[t] = "broadcast" THEN "loop" ELSE "out"
                                ELSE IF pc[u] = "cond" THEN "woken" ELSE pc[u]]
    /\ UNCHANGED <<threadVars, transferVars, lock, handlerVars, eventVars, deviceVars, now>>

-----------------------------------------------------------------------------
(* Handles *)

\* libusb_open(), and libusb_wrap_sys_device() just so: the backend adds the
\* descriptor to the poll set, and then the handle is listed.
Open(t) ==
    /\ At(t, "out") /\ submits < MaxSubmits /\ ~gone
    /\ AddSource(t)
    /\ Go(t, "opening")
    /\ UNCHANGED <<threadVars, transferVars, lock, handlerVars, polled, deviceVars, now>>
OpenEnds(t) ==
    /\ At(t, "opening") /\ Free("open_devs_lock") /\ Go(t, "idle")
    /\ UNCHANGED <<threadVars, transferVars, lock, handlerVars, eventVars, deviceVars, now>>

\* Mutant of CloseBegins: the thread that polls is not interrupted.
CloseBeginsQuietly(t) ==
    /\ At(t, "close") /\ closing' = closing + 1
    /\ Go(t, "closing")
    /\ UNCHANGED <<threadVars, transferVars, lock, active, eventVars, deviceVars, now>>

\* libusb_close() keeps other threads from the events lock, wakes the one that
\* has it, and takes it ...
CloseBegins(t) ==
    /\ At(t, "close") /\ closing' = closing + 1
    /\ Raise("close") /\ Go(t, "closing")
    /\ UNCHANGED <<threadVars, transferVars, lock, active, sources, polled, deviceVars, now>>
CloseLocks(t) ==
    /\ At(t, "closing") /\ Take("events_lock", t) /\ active' = TRUE /\ Go(t, "doclose")
    /\ UNCHANGED <<threadVars, transferVars, closing, eventVars, deviceVars, now>>
\* ... unless it is called by the thread that has it.
DoClose(t) ==
    /\ pc[t] \in {"doclose", "shut"}
    /\ Free("flying_transfers_lock") /\ Free("open_devs_lock")
    /\ RemoveSource(IF pc[t] = "doclose" THEN t ELSE cur[t].x)
    /\ Go(t, IF pc[t] = "doclose" THEN "unclose" ELSE "called")
    /\ UNCHANGED <<threadVars, transferVars, lock, handlerVars, polled, deviceVars, now>>
CloseEnds(t) ==
    /\ At(t, "unclose") /\ closing' = closing - 1
    /\ Lower(IF closing = 1 THEN {"close"} ELSE {})
    /\ Go(t, "closed")
    /\ UNCHANGED <<threadVars, transferVars, lock, active, sources, polled, deviceVars, now>>

\* libusb_interrupt_event_handler()
Interrupt ==
    /\ "interrupt" \notin flags /\ (\E t \in Threads : At(t, "poll")) /\ Raise("interrupt")
    /\ UNCHANGED <<pc, threadVars, transferVars, lock, handlerVars, sources, polled, deviceVars, now>>

-----------------------------------------------------------------------------
(* The kernel, and time *)

Answer(x) ==
    /\ urb[x] = "kernel" /\ urb' = [urb EXCEPT ![x] = "ok"]
    /\ UNCHANGED <<pc, threadVars, transferVars, lock, handlerVars, eventVars, gone, now>>
\* An old kernel gives nothing back when the device is unplugged.
Unplug ==
    /\ (\E x \in Threads : urb[x] = "kernel") /\ ~gone /\ gone' = TRUE
    /\ \E left \in {"gone", "none"} :
         urb' = [x \in Threads |-> IF urb[x] = "none" THEN "none"
                                   ELSE IF urb[x] = "kernel" \/ left = "none" THEN left ELSE urb[x]]
    /\ UNCHANGED <<pc, threadVars, transferVars, lock, handlerVars, eventVars, now>>
Tick ==
    /\ now < MaxTime /\ now' = now + 1
    /\ UNCHANGED <<pc, threadVars, transferVars, lock, handlerVars, eventVars, deviceVars>>

-----------------------------------------------------------------------------
\* What a thread does once it is called; opening and calling are its user's choice.
Step(t) ==
    \/ BackendTakes(t) \/ BackendFails(t) \/ Unlist(t)
    \/ HandleTimeouts(t) \/ SweepCancels(t) \/ Mark(t) \/ SweepEnds(t)
    \/ Return(t) \/ GetNextTimeout(t) \/ TryLock(t)
    \/ Poll(t) \/ LockDevices(t)
    \/ \E h \in Threads : PollError(t, h) \/ Reap(t, h) \/ Reaped(t, h)
    \/ ReapEnds(t) \/ HandleCancellation(t) \/ HandleCompletion(t) \/ Land(t)
    \/ Resubmit(t) \/ CallbackReturns(t)
    \/ Wait(t) \/ WaitTimesOut(t) \/ WaitEnds(t) \/ Unlock(t) \/ Broadcast(t)
    \/ OpenEnds(t) \/ CloseBegins(t) \/ CloseLocks(t) \/ DoClose(t) \/ CloseEnds(t)

Next ==
    \/ \E t \in Threads : Step(t) \/ Open(t) \/ Call(t) \/ UserCancels(t) \/ Answer(t)
    \/ Interrupt \/ Unplug \/ Tick

Spec == Init /\ [][Next]_vars

\* Threads run and time passes; the device need not answer, and nobody need
\* cancel.
FairSpec == Spec /\ WF_now(Tick) /\ \A t \in Threads : WF_vars(Step(t))

-----------------------------------------------------------------------------
(* Properties *)

\* libusb's promise about transfers.
Transfer == INSTANCE LibusbTransfer WITH Transfers <- Threads, flying <- inFlight

Completing(x) == \E t \in Threads : pc[t] = "land" /\ cur[t].x = x
Submitting(x) == \E t \in Threads : pc[t] \in {"backend", "unlist"} /\ cur[t].x = x

Places == {"out", "opening", "idle", "backend", "unlist", "loop", "timeouts", "sweep", "mark",
           "wait", "trylock", "cond", "woken", "late", "poll", "devs", "reap", "cancelled",
           "complete", "land", "again", "called", "shut", "unlock", "broadcast",
           "close", "closing", "doclose", "unclose", "closed", "farewell"}

IoTypeOK ==
    /\ pc \in [Threads -> Places] /\ until \in [Threads -> 0..Never]
    /\ seen \in [Threads -> [ready : SUBSET Threads, error : BOOLEAN]]
    /\ cur \in [Threads -> [x : Threads \cup {Nobody},
                            status : Transfer!Statuses \cup {"none", "killed"}]]
    /\ flying \in Seq(Threads) /\ deadline \in [Threads -> 0..Never]
    /\ inFlight \in [Threads -> BOOLEAN] /\ asked \in [Threads -> {"no", "user", "timeout"}]
    /\ handled \in [Threads -> BOOLEAN] /\ timedOut \in [Threads -> BOOLEAN]
    /\ status \in [Threads -> Transfer!Statuses \cup {"none"}]
    /\ completed \in [Threads -> BOOLEAN]
    /\ submits \in 0..MaxSubmits /\ again \subseteq Threads
    /\ lock \in [SharedLocks \cup Threads -> Threads \cup {Nobody}]
    /\ active \in BOOLEAN /\ closing \in Nat
    /\ flags \subseteq {"sources", "interrupt", "close"} /\ pipe \in {0, 1}
    /\ sources \subseteq Threads /\ polled \subseteq Threads
    /\ urb \in [Threads -> {"none", "kernel"} \cup Completions] /\ gone \in BOOLEAN
    /\ now \in 0..MaxTime

\* A lock is held exactly where the code holds it.  A thread keeps the events
\* lock while it polls, handles what it found and closes; the list of open
\* handles while it reaps, callbacks included; the waiters while a callback runs.
Completes == {"cancelled", "complete", "land"}
Callback == {"again", "called", "shut"}
Polls == {"poll", "devs", "reap", "unlock", "doclose", "unclose", "closed"} \cup Completes \cup Callback
Sweeps == {"timeouts", "sweep", "mark"}
LocksAreHeld ==
    \A t \in Threads :
        /\ pc[t] \in Polls => lock["events_lock"] = t
        /\ lock["events_lock"] = t => pc[t] \in Polls \cup Sweeps \/ InCallback(t)
        /\ InCallback(t) => pc[t] \in Callback \cup {"backend", "unlist"} /\ lock["events_lock"] = t
        /\ pc[t] \in Callback => InCallback(t)
        /\ lock["open_devs_lock"] = t <=> pc[t] \in {"reap"} \cup Completes \/ InCallback(t)
        /\ lock["flying_transfers_lock"] = t <=> pc[t] \in {"sweep", "mark"}
        /\ \A x \in Threads : lock[x] = t <=> At(t, "backend") /\ cur[t].x = x

\* A transfer is in the hands of one thread: its own, that submits it, or the
\* one that completes it, of which there is one.  It is idle once its own thread
\* has left the wait for it, and once it was completed.
Hands == {"backend", "unlist", "again"} \cup Completes
Busy(x) == inFlight[x] \/ \E t \in Threads : pc[t] \in Hands /\ cur[t].x = x
Away == {"out", "opening", "idle", "close", "closing", "doclose", "unclose", "closed", "farewell"}
TransfersAreHandled ==
    /\ \A t \in Threads :
         /\ pc[t] \in Hands \cup {"mark", "shut"} => cur[t].x \in Threads
         /\ pc[t] \in {"backend", "unlist"} => cur[t].x = t \/ InCallback(t)
         /\ pc[t] \in {"backend", "unlist", "again"} => ~inFlight[cur[t].x]
         /\ pc[t] \in Completes => inFlight[cur[t].x] /\ urb[cur[t].x] = "none"
    /\ \A t, u \in Threads :
         pc[t] \in Hands /\ pc[u] \in Hands /\ cur[t].x = cur[u].x => t = u
    /\ \A x \in Threads : completed[x] \/ pc[x] \in Away => ~Busy(x)
    /\ \A x \in Threads : urb[x] # "none" => inFlight[x]
    /\ \A x \in Threads : gone => urb[x] # "kernel"
    /\ \A t \in Threads : seen[t].error => gone

\* Why a transfer was cancelled: whoever cancels it for its timeout says so
\* before the list is unlocked, and its completion looks with the list locked.
\* The one that is submitted has nothing left of its last submission.
ForUser(x) == asked[x] = "user"
ForTimeout(x) ==
    asked[x] = "timeout" /\ (timedOut[x] \/ \E t \in Threads : At(t, "mark") /\ cur[t].x = x)
CancellationsAreAsked ==
    /\ \A x \in Threads : timedOut[x] => asked[x] = "timeout"
    /\ \A x \in Threads : urb[x] = "killed" => ForUser(x) \/ ForTimeout(x)
    /\ \A t \in Threads :
         /\ At(t, "backend") => asked[cur[t].x] = "no" /\ status[cur[t].x] = "none"
         /\ At(t, "mark") => /\ asked[cur[t].x] = "timeout" /\ inFlight[cur[t].x]
                             /\ ~Completing(cur[t].x)
         /\ At(t, "cancelled") => ForUser(cur[t].x) \/ ForTimeout(cur[t].x)
         /\ pc[t] \in {"complete", "land"} =>
              /\ cur[t].status \in Transfer!Statuses
              /\ cur[t].status = "cancelled" => ForUser(cur[t].x)
              /\ cur[t].status = "timed_out" => asked[cur[t].x] = "timeout"

\* The list of flying transfers is ordered, with no transfer twice, ...
ListIsOrdered ==
    \A i, j \in DOMAIN flying :
        i < j => flying[i] # flying[j] /\ deadline[flying[i]] <= deadline[flying[j]]

\* ... and holds what is in flight, so that what is removed is listed.
ListIsFlying ==
    \A x \in Threads :
        x \in ToSet(flying) <=> Submitting(x) \/ (inFlight[x] /\ ~Completing(x))

\* Whoever lowers the last flag finds the byte in the pipe: the read would block
\* with event_data_lock held.
PipeHasByte == pipe = IF flags = {} THEN 0 ELSE 1

\* Nobody sleeps on the condition variable unless a broadcast is to come.
WaitersAreWoken ==
    (\E t \in Threads : At(t, "cond")) =>
        active \/ closing > 0 \/ \E t \in Threads : pc[t] \in {"broadcast", "farewell"}

\* The poll set is stale only while a flag says so.
PollSetIsKnown == polled = sources \/ "sources" \in flags

HandlerIsActive == active <=> ~Free("events_lock")

\* device_close counts the threads in libusb_close(), and the flag says that
\* there are some.
Closers == {t \in Threads : pc[t] \in {"closing", "doclose", "unclose"}}
ClosersAreCounted ==
    /\ closing = Cardinality(Closers)
    /\ closing > 0 <=> "close" \in flags

\* The bookkeeping that the threads of a context share.
IoInv ==
    /\ IoTypeOK /\ LocksAreHeld /\ TransfersAreHandled /\ CancellationsAreAsked
    /\ ListIsOrdered /\ ListIsFlying /\ PipeHasByte /\ WaitersAreWoken
    /\ PollSetIsKnown /\ HandlerIsActive /\ ClosersAreCounted

\* handle_timeout(), op_cancel_transfer(), usbi_handle_disconnect(): a transfer
\* with a timeout, one that was cancelled, and any one once the device is gone,
\* is reported, whoever handles the events by then.  The code has an exception:
\* a thread may have looked for the next timeout (io.c:2359) before a callback
\* has submitted its transfer again, and polls past the timeout of that one.
TransfersEnd ==
    \A x \in Threads :
        inFlight[x] /\ ((deadline[x] # Never /\ x \notin again) \/ asked[x] # "no" \/ gone)
            ~> ~inFlight[x]

\* sync.c, and core.c:1575: a thread whose transfer was reported does not sleep
\* through it; libusb_close() gets the events lock although others want it too.
CallsReturn ==
    \A t \in Threads : completed[t] \/ At(t, "close") ~> pc[t] \in {"idle", "out"}

\* libusb_submit_transfer(), libusb_cancel_transfer(): what was accepted is
\* reported once, and as cancelled or timed out only if that was asked for.
ImplementsTransfer == Transfer!Spec
=============================================================================
