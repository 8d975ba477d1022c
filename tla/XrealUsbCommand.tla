-------------------------- MODULE XrealUsbCommand --------------------------
(***************************************************************************)
(* The command side of class XrealUsbSession (ar_glass_jni.cpp): callers   *)
(* of mcu() and imu() that exchange a request and a reply with the glasses *)
(* under command_mutex_, the optional MCU receiver thread that takes over  *)
(* the MCU IN endpoint and hands replies to the waiting caller under       *)
(* mcu_reply_mutex_, start_mcu_stream(), and close().                      *)
(*                                                                         *)
(* A step is what one thread does between two points where another thread  *)
(* can be observed: a critical section of mcu_reply_mutex_ is one step,    *)
(* the reads of the atomics running_ and mcu_streaming_ are steps of their *)
(* own, and a USB transfer is one step that takes effect when it completes.*)
(* Packets carry what the matching code looks at: command, request id and  *)
(* whether framing and CRC are right.                                      *)
(***************************************************************************)
EXTENDS Naturals, Sequences

CONSTANTS
    Callers,     \* threads that call mcu() or imu()
    Commands,    \* command codes
    EntryPoints, \* the kinds of call the callers make
    NoReply,     \* the empty vector a failed exchange returns
    Nobody,      \* no thread holds command_mutex_
    Starter,     \* the thread that calls start_mcu_stream()
    MaxId,       \* bound on the number of requests
    MaxWire      \* bound on the replies an IN endpoint holds

\* "mcu" is mcu() without a response timeout, "timed" is mcu() with one
\* (ar_glass_xreal_mcu_with_timeout), "imu" is imu().
Kinds == {"mcu", "timed", "imu"}
Endpoints == {"mcuIn", "imuIn"}
EndpointOf(kind) == IF kind = "imu" THEN "imuIn" ELSE "mcuIn"

Packet == [cmd: Commands, id: Nat, valid: BOOLEAN]

ASSUME CommandAssumption ==
    /\ EntryPoints \subseteq Kinds
    /\ NoReply \notin Packet
    /\ Nobody \notin Callers
    /\ Starter \notin Callers
    /\ Starter # Nobody
    /\ MaxId \in Nat
    /\ MaxWire \in Nat

VARIABLES
    running,        \* running_
    streaming,      \* mcu_streaming_
    asyncEnabled,   \* mcu_async_enabled_
    commandLock,    \* holder of command_mutex_
    pending,        \* mcu_pending_
    pendingCmd,     \* mcu_pending_command_
    pendingId,      \* mcu_pending_id_
    reply,          \* mcu_reply_
    nextId,         \* next_mcu_request_id_
    pc,             \* where each caller is
    kind,           \* which entry point it called
    cmd,            \* the command of its request
    id,             \* the request id of its request
    wrote,          \* its OUT transfer was complete
    result,         \* what its last call returned
    reader,         \* where the MCU receiver thread is
    held,           \* the packet the receiver has read and not yet published
    sinkSet,        \* mcu_sink_ is not null
    starter,        \* where start_mcu_stream() is
    closer,         \* where close() is
    handleOpen,     \* the libusb handle has not been closed
    owed,           \* requests the glasses have received and not answered
    wire,           \* replies waiting at each IN endpoint
    answered        \* ids of intact replies the receiver has offered (history)

flagVars   == <<running, streaming, asyncEnabled>>
replyVars  == <<pending, pendingCmd, pendingId, reply>>
callVars   == <<pc, kind, cmd, id, wrote, result>>
readerVars == <<reader, held, answered>>
deviceVars == <<owed, wire>>
otherVars  == <<nextId, sinkSet, starter, closer, handleOpen>>
vars == <<flagVars, commandLock, replyVars, callVars, readerVars, deviceVars,
          otherVars>>

CallerPcs  == {"idle", "route", "install", "write", "wait",
               "syncTop", "syncRead"}
ReaderPcs  == {"none", "top", "transfer", "read", "inSink", "publish",
               "ending", "done"}
StarterPcs == {"idle", "join", "spawn"}
CloserPcs  == {"open", "flag", "join", "release", "closed"}

Request == [cmd: Commands, id: Nat, endpoint: Endpoints]

Init ==
    /\ running = TRUE /\ streaming = FALSE /\ asyncEnabled = FALSE
    /\ commandLock = Nobody
    /\ pending = FALSE /\ pendingCmd \in Commands /\ pendingId = 0
    /\ reply = NoReply
    /\ nextId = 1
    /\ pc = [c \in Callers |-> "idle"]
    /\ kind = [c \in Callers |-> "mcu"]
    /\ cmd = [c \in Callers |-> pendingCmd]
    /\ id = [c \in Callers |-> 0]
    /\ wrote = [c \in Callers |-> FALSE]
    /\ result = [c \in Callers |-> NoReply]
    /\ reader = "none" /\ held = NoReply
    /\ sinkSet = FALSE
    /\ starter = "idle" /\ closer = "open" /\ handleOpen = TRUE
    \* Request 0 stands for an unsolicited MCU event: the glasses may send a
    \* packet nobody asked for.
    /\ owed \in {{[cmd |-> k, id |-> 0, endpoint |-> "mcuIn"]} : k \in Commands}
    /\ wire = [e \in Endpoints |-> <<>>]
    /\ answered = {}

-----------------------------------------------------------------------------
(* matches_mcu_response: size, magic and CRC, then command and request id. *)
Matches(p, k, i) == p.valid /\ p.cmd = k /\ p.id = i

(* What transact() accepts on the synchronous path: a call with a response *)
(* timeout demands the full match, the others compare only the command     *)
(* (request_id is -1) and do not look at the CRC.                          *)
SyncAccepts(c, p) ==
    IF kind[c] = "timed" THEN Matches(p, cmd[c], id[c]) ELSE p.cmd = cmd[c]

(* mcu_pending_ is up and the packet is its reply. *)
Awaited(p) == pending /\ Matches(p, pendingCmd, pendingId)

(* publish_mcu_response: the only writer of mcu_reply_ besides the waiter. *)
Publish(p) ==
    IF Awaited(p)
    THEN reply' = p /\ pending' = FALSE /\ UNCHANGED <<pendingCmd, pendingId>>
    ELSE UNCHANGED replyVars

(* Leaving mcu() or imu(): the lock guard releases command_mutex_. *)
Return(c, r) ==
    /\ pc' = [pc EXCEPT ![c] = "idle"]
    /\ result' = [result EXCEPT ![c] = r]
    /\ commandLock' = Nobody
    /\ UNCHANGED <<kind, cmd, id, wrote>>

Goto(c, where) ==
    /\ pc' = [pc EXCEPT ![c] = where]
    /\ UNCHANGED <<kind, cmd, id, wrote, result, commandLock>>

-----------------------------------------------------------------------------
(* Callers *)

\* Mutant of Call: command_mutex_ is not taken before the request is numbered.
CallUnlocked(c, kd, k) ==
    /\ pc[c] = "idle" /\ nextId <= MaxId
    /\ nextId' = nextId + 1
    /\ kind' = [kind EXCEPT ![c] = kd] /\ cmd' = [cmd EXCEPT ![c] = k]
    /\ id' = [id EXCEPT ![c] = nextId] /\ wrote' = [wrote EXCEPT ![c] = FALSE]
    /\ result' = [result EXCEPT ![c] = NoReply]
    /\ pc' = [pc EXCEPT ![c] = IF running THEN "route" ELSE "idle"]
    /\ commandLock' = IF running THEN c ELSE Nobody
    /\ UNCHANGED <<flagVars, replyVars, readerVars, deviceVars, sinkSet,
                   starter, closer, handleOpen>>

\* mcu() and imu(): take command_mutex_, number the request, enter transact().
Call(c, kd, k) ==
    /\ pc[c] = "idle" /\ commandLock = Nobody
    /\ nextId <= MaxId
    /\ nextId' = nextId + 1
    /\ kind' = [kind EXCEPT ![c] = kd]
    /\ cmd' = [cmd EXCEPT ![c] = k]
    /\ id' = [id EXCEPT ![c] = nextId]
    /\ wrote' = [wrote EXCEPT ![c] = FALSE]
    /\ result' = [result EXCEPT ![c] = NoReply]
    /\ pc' = [pc EXCEPT ![c] = IF running THEN "route" ELSE "idle"]
    /\ commandLock' = IF running THEN c ELSE Nobody
    /\ UNCHANGED <<flagVars, replyVars, readerVars, deviceVars, sinkSet,
                   starter, closer, handleOpen>>

\* transact(): once the receiver owns the endpoint an MCU command may only
\* wait for it, and gives up at once when the receiver has died.
Route(c) ==
    /\ pc[c] = "route"
    /\ IF kind[c] # "imu" /\ asyncEnabled
       THEN IF streaming THEN Goto(c, "install") ELSE Return(c, NoReply)
       ELSE Goto(c, "write")
    /\ UNCHANGED <<flagVars, replyVars, readerVars, deviceVars, otherVars>>

\* The expected reply is installed before the request is written.
Install(c) ==
    /\ pc[c] = "install"
    /\ reply' = NoReply
    /\ pending' = TRUE
    /\ pendingCmd' = cmd[c]
    /\ pendingId' = id[c]
    /\ Goto(c, "write")
    /\ UNCHANGED <<flagVars, readerVars, deviceVars, otherVars>>

\* The asynchronous path was chosen at Route; asyncEnabled cannot change
\* while the caller holds command_mutex_.
OnAsyncPath(c) == kind[c] # "imu" /\ asyncEnabled

\* The OUT transfer completes, whole or not.
WriteDone(c) ==
    /\ pc[c] = "write"
    /\ owed' = owed \cup {[cmd |-> cmd[c], id |-> id[c],
                           endpoint |-> EndpointOf(kind[c])]}
    /\ wrote' = [wrote EXCEPT ![c] = TRUE]
    /\ pc' = [pc EXCEPT ![c] = IF OnAsyncPath(c) THEN "wait" ELSE "syncTop"]
    /\ UNCHANGED <<flagVars, commandLock, replyVars, kind, cmd, id, result,
                   readerVars, wire, otherVars>>

\* Mutant of WriteFails: the caller leaves without taking its request back.
WriteFailsAtOnce(c) ==
    /\ pc[c] = "write"
    /\ Return(c, NoReply)
    /\ UNCHANGED <<flagVars, replyVars, readerVars, deviceVars, otherVars>>

WriteFails(c) ==
    /\ pc[c] = "write"
    /\ IF OnAsyncPath(c) THEN Goto(c, "wait") ELSE Return(c, NoReply)
    /\ UNCHANGED <<flagVars, replyVars, readerVars, deviceVars, otherVars>>

\* Mutant of TakeReply: a reply that is there is given up when the session
\* closes.
TakeReplyUnlessClosing(c) ==
    /\ pending' = FALSE /\ reply' = NoReply
    /\ Return(c, IF wrote[c] /\ running THEN reply ELSE NoReply)
    /\ UNCHANGED <<flagVars, pendingCmd, pendingId, readerVars, deviceVars,
                   otherVars>>

\* The last critical section of the asynchronous path.  A caller whose write
\* was complete leaves the condition variable when the reply is there, the
\* session closes or the receiver dies (Wake), or at its timeout (TimeOut);
\* one whose write failed discards whatever was published.
TakeReply(c) ==
    /\ pending' = FALSE
    /\ reply' = NoReply
    /\ Return(c, IF wrote[c] THEN reply ELSE NoReply)
    /\ UNCHANGED <<flagVars, pendingCmd, pendingId, readerVars, deviceVars,
                   otherVars>>

Wake(c) ==
    /\ pc[c] = "wait"
    /\ ~wrote[c] \/ ~pending \/ ~running \/ ~streaming
    /\ TakeReply(c)

\* Mutant of TimeOut: the wait has no deadline of its own.
TimeOutWhenClosing(c) ==
    pc[c] = "wait" /\ wrote[c] /\ pending /\ ~running /\ TakeReply(c)

TimeOut(c) ==
    /\ pc[c] = "wait"
    /\ wrote[c] /\ pending
    /\ TakeReply(c)

\* The synchronous loop: while running_ and before the deadline, read one
\* packet; a packet that is not accepted is dropped.
SyncTop(c) ==
    /\ pc[c] = "syncTop"
    /\ \/ running /\ Goto(c, "syncRead")
       \/ Return(c, NoReply)              \* closed, or the deadline passed
    /\ UNCHANGED <<flagVars, replyVars, readerVars, deviceVars, otherVars>>

SyncReadPacket(c) ==
    LET e == EndpointOf(kind[c])
    IN  /\ pc[c] = "syncRead"
        /\ wire[e] # <<>>
        /\ wire' = [wire EXCEPT ![e] = Tail(@)]
        /\ IF SyncAccepts(c, Head(wire[e]))
           THEN Return(c, Head(wire[e]))
           ELSE Goto(c, "syncTop")
        /\ UNCHANGED <<flagVars, replyVars, readerVars, owed, otherVars>>

SyncReadNothing(c) ==
    /\ pc[c] = "syncRead"
    /\ Goto(c, "syncTop")
    /\ UNCHANGED <<flagVars, replyVars, readerVars, deviceVars, otherVars>>

-----------------------------------------------------------------------------
(* The MCU receiver thread: read_mcu_stream() *)

readerOnlyUnchanged ==
    UNCHANGED <<flagVars, commandLock, replyVars, callVars, otherVars>>

ReaderTop ==
    /\ reader = "top"
    /\ reader' = IF running THEN "transfer" ELSE "ending"
    /\ UNCHANGED <<held, answered, deviceVars>>
    /\ readerOnlyUnchanged

\* A packet arrives; running_ is read again before it is used.
ReaderPacket ==
    /\ reader = "transfer"
    /\ wire["mcuIn"] # <<>>
    /\ wire' = [wire EXCEPT !["mcuIn"] = Tail(@)]
    /\ IF running
       THEN reader' = "read" /\ held' = Head(wire["mcuIn"])
       ELSE reader' = "ending" /\ UNCHANGED held
    /\ UNCHANGED <<answered, owed>>
    /\ readerOnlyUnchanged

\* Timeout, interrupted call or empty packet: go round again.
ReaderNothing ==
    /\ reader = "transfer"
    /\ reader' = IF running THEN "top" ELSE "ending"
    /\ UNCHANGED <<held, answered, deviceVars>>
    /\ readerOnlyUnchanged

\* A transport error: the sink hears of it (nothing is held), then the
\* receiver ends.
ReaderError ==
    /\ reader = "transfer"
    /\ reader' = IF running THEN "read" ELSE "ending"
    /\ UNCHANGED <<held, answered, deviceVars>>
    /\ readerOnlyUnchanged

AfterSink == IF held = NoReply THEN "ending" ELSE "publish"

\* The sink runs under mcu_sink_mutex_.
ReaderEnterSink ==
    /\ reader = "read"
    /\ reader' = IF sinkSet THEN "inSink" ELSE AfterSink
    /\ UNCHANGED <<held, answered, deviceVars>>
    /\ readerOnlyUnchanged

ReaderLeaveSink ==
    /\ reader = "inSink"
    /\ reader' = AfterSink
    /\ UNCHANGED <<held, answered, deviceVars>>
    /\ readerOnlyUnchanged

\* The sink may publish the packet itself, ahead of the receiver.
SinkPublish ==
    /\ reader = "inSink" /\ held # NoReply
    /\ Publish(held)
    /\ answered' = IF held.valid THEN answered \cup {held.id} ELSE answered
    /\ UNCHANGED <<flagVars, commandLock, callVars, reader, held, deviceVars,
                   otherVars>>

ReaderPublish ==
    /\ reader = "publish"
    /\ Publish(held)
    /\ answered' = IF held.valid THEN answered \cup {held.id} ELSE answered
    /\ reader' = "top"
    /\ held' = NoReply
    /\ UNCHANGED <<flagVars, commandLock, callVars, deviceVars, otherVars>>

ReaderEnd ==
    /\ reader = "ending"
    /\ reader' = "done"
    /\ streaming' = FALSE
    /\ UNCHANGED <<running, asyncEnabled, commandLock, replyVars, callVars,
                   held, answered, deviceVars, otherVars>>

-----------------------------------------------------------------------------
(* start_mcu_stream(), set_mcu_sink() and close() *)

StartLock ==
    /\ starter = "idle" /\ commandLock = Nobody
    /\ running /\ ~streaming
    /\ commandLock' = Starter
    /\ starter' = "join"
    /\ UNCHANGED <<flagVars, replyVars, callVars, readerVars, deviceVars,
                   nextId, sinkSet, closer, handleOpen>>

StartJoin ==
    /\ starter = "join"
    /\ reader \in {"none", "done"}
    /\ reader' = "none"
    /\ streaming' = TRUE
    /\ starter' = "spawn"
    /\ UNCHANGED <<running, asyncEnabled, commandLock, replyVars, callVars,
                   held, answered, deviceVars, nextId, sinkSet, closer,
                   handleOpen>>

StartSpawn ==
    /\ starter = "spawn"
    /\ \/ reader' = "top" /\ asyncEnabled' = TRUE /\ UNCHANGED streaming
       \/ streaming' = FALSE /\ UNCHANGED <<reader, asyncEnabled>> \* no thread
    /\ starter' = "idle"
    /\ commandLock' = Nobody
    /\ UNCHANGED <<running, replyVars, callVars, held, answered, deviceVars,
                   nextId, sinkSet, closer, handleOpen>>

\* Changing the sink takes mcu_sink_mutex_, so it waits for a callback.
SetSink ==
    /\ closer = "open"
    /\ reader # "inSink"
    /\ sinkSet' = ~sinkSet
    /\ UNCHANGED <<flagVars, commandLock, replyVars, callVars, readerVars,
                   deviceVars, nextId, starter, closer, handleOpen>>

CloseSinks ==
    /\ closer = "open"
    /\ reader # "inSink"
    /\ sinkSet' = FALSE
    /\ closer' = "flag"
    /\ UNCHANGED <<flagVars, commandLock, replyVars, callVars, readerVars,
                   deviceVars, nextId, starter, handleOpen>>

CloseFlag ==
    /\ closer = "flag"
    /\ running' = FALSE
    /\ closer' = "join"
    /\ UNCHANGED <<streaming, asyncEnabled, commandLock, replyVars, callVars,
                   readerVars, deviceVars, nextId, sinkSet, starter,
                   handleOpen>>

\* Joins the receiver if there is one to join at this moment.
CloseJoin ==
    /\ closer = "join"
    /\ reader \in {"none", "done"}
    /\ reader' = "none"
    /\ closer' = "release"
    /\ UNCHANGED <<flagVars, commandLock, replyVars, callVars, held, answered,
                   deviceVars, nextId, sinkSet, starter, handleOpen>>

\* Mutant of CloseRelease: command_mutex_ is not taken.
CloseReleaseUnlocked ==
    /\ closer = "release" /\ handleOpen' = FALSE /\ closer' = "closed"
    /\ UNCHANGED <<flagVars, commandLock, replyVars, callVars, readerVars,
                   deviceVars, nextId, sinkSet, starter>>

\* command_mutex_ is taken around the release of the interfaces and handle.
CloseRelease ==
    /\ closer = "release"
    /\ commandLock = Nobody
    /\ handleOpen' = FALSE
    /\ closer' = "closed"
    /\ UNCHANGED <<flagVars, commandLock, replyVars, callVars, readerVars,
                   deviceVars, nextId, sinkSet, starter>>

-----------------------------------------------------------------------------
(* The glasses (external): answer requests in any order, late or never,    *)
(* sometimes with a packet that arrives damaged.                           *)
DeviceAnswer ==
    \E r \in owed, ok \in BOOLEAN :
        /\ Len(wire[r.endpoint]) < MaxWire
        /\ owed' = owed \ {r}
        /\ wire' = [wire EXCEPT ![r.endpoint] =
                       Append(@, [cmd |-> r.cmd, id |-> r.id, valid |-> ok])]
        /\ UNCHANGED <<flagVars, commandLock, replyVars, callVars, readerVars,
                       otherVars>>

CallerStep(c) ==
    \/ Route(c) \/ Install(c) \/ WriteDone(c) \/ WriteFails(c)
    \/ Wake(c) \/ TimeOut(c)
    \/ SyncTop(c) \/ SyncReadPacket(c) \/ SyncReadNothing(c)

ReaderLoop ==
    \/ ReaderTop \/ ReaderPacket \/ ReaderNothing \/ ReaderError
    \/ ReaderEnterSink \/ ReaderLeaveSink \/ ReaderPublish \/ ReaderEnd

StarterStep == StartJoin \/ StartSpawn
CloserStep  == CloseFlag \/ CloseJoin \/ CloseRelease

Next ==
    \/ \E c \in Callers :
          \/ \E kd \in EntryPoints, k \in Commands : Call(c, kd, k)
          \/ CallerStep(c)
    \/ ReaderLoop \/ SinkPublish
    \/ StartLock \/ StarterStep
    \/ SetSink \/ CloseSinks \/ CloserStep
    \/ DeviceAnswer

Spec == Init /\ [][Next]_vars

(* Threads keep running and every wait is bounded: transfers and condition *)
(* waits have timeouts.  Nobody has to call, start, close or answer.  A    *)
(* reply deadline passes: SyncTop cannot choose to read for ever.          *)
SyncDeadline(c) ==
    pc[c] = "syncTop" /\ Return(c, NoReply)
        /\ UNCHANGED <<flagVars, replyVars, readerVars, deviceVars, otherVars>>

Fairness ==
    /\ \A c \in Callers : WF_vars(CallerStep(c)) /\ SF_vars(SyncDeadline(c))
    /\ WF_vars(ReaderLoop)
    /\ WF_vars(StarterStep)
    /\ WF_vars(CloserStep)

FairSpec == Spec /\ Fairness

-----------------------------------------------------------------------------
(* Properties *)

\* Every variable stays in its type.
TypeOK ==
    /\ running \in BOOLEAN /\ streaming \in BOOLEAN /\ asyncEnabled \in BOOLEAN
    /\ commandLock \in Callers \cup {Nobody, Starter}
    /\ pending \in BOOLEAN /\ pendingCmd \in Commands /\ pendingId \in Nat
    /\ reply \in Packet \cup {NoReply}
    /\ nextId \in Nat
    /\ pc \in [Callers -> CallerPcs]
    /\ kind \in [Callers -> Kinds]
    /\ cmd \in [Callers -> Commands]
    /\ id \in [Callers -> Nat]
    /\ wrote \in [Callers -> BOOLEAN]
    /\ result \in [Callers -> Packet \cup {NoReply}]
    /\ reader \in ReaderPcs
    /\ held \in Packet \cup {NoReply}
    /\ sinkSet \in BOOLEAN
    /\ starter \in StarterPcs /\ closer \in CloserPcs
    /\ handleOpen \in BOOLEAN
    /\ owed \in SUBSET Request
    /\ wire \in [Endpoints -> Seq(Packet)]
    /\ answered \in SUBSET Nat

\* A call with a response timeout returns only an intact reply to its own
\* request, whichever path served it and however late earlier replies come.
TimedReplyIsOwn ==
    \A c \in Callers :
        kind[c] = "timed" /\ result[c] # NoReply
            => Matches(result[c], cmd[c], id[c])

\* Once the receiver has been started, no command reads the MCU IN endpoint
\* itself, so the two can never take each other's packets.
ReceiverOwnsEndpoint ==
    reader \notin {"none", "done"} =>
        \A c \in Callers :
            pc[c] \in {"syncTop", "syncRead"} => kind[c] = "imu"

\* After close() has released the handle no thread is inside a transfer: not
\* a caller that passed its running_ check early, nor a receiver whose start
\* raced the close.
NoTransferAfterRelease ==
    ~handleOpen =>
        /\ reader # "transfer"
        /\ \A c \in Callers : pc[c] \notin {"write", "syncRead"}

\* A request that is pending belongs to the caller that holds the lock, and a
\* published reply is the one that caller waits for.
PendingIsOwned ==
    /\ pending => \E c \in Callers :
          /\ commandLock = c
          /\ pendingCmd = cmd[c] /\ pendingId = id[c]
    /\ reply # NoReply => \E c \in Callers :
          commandLock = c /\ Matches(reply, cmd[c], id[c])

\* An intact reply the receiver has offered before the caller stops waiting
\* is not lost, however early it came: the call returns it.
OfferedReplyIsReturned ==
    [][\A c \in Callers :
          pc[c] = "wait" /\ pc'[c] = "idle" /\ wrote[c] /\ id[c] \in answered
              => result'[c] # NoReply]_vars

-----------------------------------------------------------------------------
(* The inductive invariant behind the safety properties *)

\* command_mutex_ is held by exactly the thread that is inside it.
LockInv ==
    /\ \A c \in Callers : pc[c] # "idle" <=> commandLock = c
    /\ starter # "idle" <=> commandLock = Starter

\* The receiver and the synchronous MCU path exclude each other.
PathInv ==
    /\ reader # "none" => asyncEnabled
    /\ \A c \in Callers :
          /\ pc[c] \in {"install", "wait"} => OnAsyncPath(c)
          /\ pc[c] \in {"syncTop", "syncRead"} => ~OnAsyncPath(c)

\* The caller c is between installing its request and taking the reply.
Waits(c) == pc[c] \in {"write", "wait"} /\ OnAsyncPath(c)

PendingInv ==
    \A c \in Callers : commandLock = c =>
        /\ pending => Waits(c) /\ pendingCmd = cmd[c] /\ pendingId = id[c]
        /\ reply # NoReply => Waits(c) /\ Matches(reply, cmd[c], id[c])

NothingPendingInv ==
    commandLock \notin Callers => ~pending /\ reply = NoReply

HeldInv ==
    /\ reader = "publish" => held # NoReply
    /\ reader = "inSink" => sinkSet

CloseInv ==
    /\ ~handleOpen <=> closer = "closed"
    /\ closer \in {"join", "release", "closed"} => ~running
    /\ closer \in {"release", "closed"}
          => reader \in {"none", "top", "ending", "done"}
    /\ closer = "closed" => commandLock = Nobody

\* What is on its way to the receiver: requests in the glasses, packets at the
\* endpoint and in the receiver's hands, by command and id.
Sent ==
    {<<r.cmd, r.id>> : r \in owed}
        \cup {<<p.cmd, p.id>> : p \in {wire["mcuIn"][n] : n \in DOMAIN wire["mcuIn"]}}
        \cup {<<p.cmd, p.id>> : p \in {held} \ {NoReply}}

\* Nothing is on its way that was not asked for, and what is offered to a caller
\* that waits finds its request pending or is the second copy of its reply.
AnsweredInv ==
    /\ nextId > 0
    /\ \A s \in Sent : s[2] < nextId
    /\ \A i \in answered : i < nextId
    /\ \A c \in Callers : pc[c] # "idle" =>
          /\ id[c] < nextId
          /\ pc[c] \in {"route", "install", "write"} => ~wrote[c]
          /\ \A s \in Sent : s[2] = id[c] => wrote[c] /\ s[1] = cmd[c]
          /\ id[c] \in answered => wrote[c]
          /\ Waits(c) => (pending <=> reply = NoReply)
          /\ Waits(c) /\ id[c] \in answered => reply # NoReply

\* At most one request is outstanding and belongs to the caller with the lock; a
\* reply that is published or returned is its own, and one thread at a time reads.
ExchangeInv ==
    /\ TypeOK
    /\ LockInv
    /\ PathInv
    /\ PendingInv
    /\ NothingPendingInv
    /\ HeldInv
    /\ CloseInv
    /\ TimedReplyIsOwn
CommandInv == ExchangeInv /\ AnsweredInv

-----------------------------------------------------------------------------
\* The command side implements CommandChannel: the exchange under way is the
\* one of the caller that holds command_mutex_.
Channel == INSTANCE CommandChannel WITH
    open   <- handleOpen,
    owner  <- IF commandLock = Starter THEN Nobody ELSE commandLock,
    lastId <- nextId - 1

\* Callers see one exchange at a time, a fresh id for each, an answer of their
\* own or nothing, and no exchange after the release of the handle.
ImplementsChannel == Channel!Spec

\* Every call returns, whatever the glasses, the receiver and close() do.
CallReturns == \A c \in Callers : pc[c] # "idle" ~> pc[c] = "idle"

\* close() terminates once begun.
CloseTerminates == closer = "flag" ~> closer = "closed"

\* Nobody who uses the glasses is left waiting in them.
NobodyIsStuck == CallReturns /\ CloseTerminates

\* "close joins the reader before releasing USB" (xreal_usb_c_api.h:34).
CloseJoinsReader == ~handleOpen => reader = "none"
=============================================================================
