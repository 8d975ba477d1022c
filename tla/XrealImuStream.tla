--------------------------- MODULE XrealImuStream ---------------------------
(***************************************************************************)
(* The IMU stream of class XrealUsbSession (ar_glass_jni.cpp): a reader    *)
(* thread that keeps a fixed set of bulk URBs in flight, hands every full  *)
(* report to a sink or to a bounded queue, and is stopped by close().      *)
(*                                                                         *)
(* The kernel (external) completes URBs in the order they were submitted;  *)
(* a discarded URB, and every URB of an unplugged device, completes with   *)
(* an error.  Reports are numbered as they complete.                       *)
(***************************************************************************)
EXTENDS Integers, Sequences

CONSTANTS
    Urbs,        \* imu_urbs_.size()
    QueueSize,   \* capacity of imu_queue_
    MaxReports,  \* bound on the reports the device delivers
    MaxStarts,   \* bound on the calls of start_imu_stream()
    MaxSinks     \* bound on the calls of set_imu_sink()

ASSUME ImuAssumption ==
    /\ Urbs \in Nat /\ QueueSize \in Nat \ {0}
    /\ MaxReports \in Nat /\ MaxStarts \in Nat /\ MaxSinks \in Nat

VARIABLES
    running,     \* running_
    streaming,   \* imu_streaming_
    sinkSet,     \* imu_sink_ is not null
    sinkCalls,   \* calls of set_imu_sink()
    starter,     \* where start_imu_stream() is
    starts,      \* calls of start_imu_stream() that got past the flags
    closer,      \* where close() is
    reader,      \* where the reader thread is; "none" when not joinable
    submitted,   \* URBs the reader has offered at first
    active,      \* the reader's count of URBs in flight
    urb,         \* the URB just reaped: its report, 0 without one
    queue,       \* imu_queue_
    taken,       \* the last report read_imu_record() returned
    sunk,        \* the last report given to the sink
    inFlight,    \* kernel: how many URBs are submitted and not completed
    completed,   \* kernel: completed URBs, each with its report or 0
    reports,     \* reports delivered so far
    unplugged,   \* the device is gone
    pollFailed,  \* poll() failed (history)
    lateStart,   \* a reader was created after close() had joined (history)
    terminated   \* std::terminate() was called

flagVars   == <<running, streaming>>
sinkVars   == <<sinkSet, sinkCalls>>
startVars  == <<starter, starts, lateStart, terminated>>
readerVars == <<reader, submitted, active, urb, pollFailed>>
dataVars   == <<queue, taken, sunk>>
kernelVars == <<inFlight, completed, reports, unplugged>>
vars == <<flagVars, sinkVars, startVars, closer, readerVars, dataVars,
          kernelVars>>

ReaderPcs == {"none", "submit", "poll", "reap", "resubmit", "produce",
              "inSink", "enqueue", "ending", "done"}
StarterPcs == {"idle", "exchange", "spawn"}
CloserPcs == {"open", "flag", "stop", "discard", "join", "release", "closed"}

Init ==
    /\ running = TRUE /\ streaming = FALSE
    /\ sinkSet = FALSE /\ sinkCalls = 0
    /\ starter = "idle" /\ starts = 0 /\ lateStart = FALSE
    /\ terminated = FALSE
    /\ closer = "open"
    /\ reader = "none" /\ submitted = 0 /\ active = 0 /\ urb = 0
    /\ pollFailed = FALSE
    /\ queue = <<>> /\ taken = 0 /\ sunk = 0
    /\ inFlight = 0 /\ completed = <<>> /\ reports = 0 /\ unplugged = FALSE

-----------------------------------------------------------------------------
(* start_imu_stream(): two atomics, then the thread is created.  Assigning *)
(* to a std::thread that has not been joined terminates the process.       *)

StartCheck ==
    /\ starter = "idle" /\ starts < MaxStarts
    /\ running
    /\ starter' = "exchange"
    /\ UNCHANGED <<flagVars, sinkVars, starts, lateStart, terminated, closer,
                   readerVars, dataVars, kernelVars>>

StartExchange ==
    /\ starter = "exchange"
    /\ streaming' = TRUE
    /\ IF streaming THEN starter' = "idle" /\ UNCHANGED starts
                    ELSE starter' = "spawn" /\ starts' = starts + 1
    /\ UNCHANGED <<running, sinkVars, lateStart, terminated, closer,
                   readerVars, dataVars, kernelVars>>

StartSpawn ==
    /\ starter = "spawn"
    /\ starter' = "idle"
    /\ IF reader = "none"
       THEN /\ reader' = "submit" /\ submitted' = 0 /\ active' = 0
            /\ lateStart' = (lateStart \/ closer \in {"release", "closed"})
            /\ UNCHANGED terminated
       ELSE terminated' = TRUE /\ UNCHANGED <<reader, submitted, active, lateStart>>
    /\ UNCHANGED <<flagVars, sinkVars, starts, closer, urb, pollFailed,
                   dataVars, kernelVars>>

-----------------------------------------------------------------------------
(* read_imu_stream() *)

\* USBDEVFS_SUBMITURB: the kernel takes the URB, or refuses it.
Submit ==
    \/ ~unplugged /\ inFlight' = inFlight + 1 /\ active' = active + 1
    \/ UNCHANGED <<inFlight, active>>

\* USBDEVFS_DISCARDURB on every slot, and what an unplugged device does: all
\* URBs in flight complete without a report.
CompleteAll ==
    /\ inFlight' = 0
    /\ completed' = completed \o [i \in 1..inFlight |-> 0]

\* The loop's condition: active > 0.
LoopOrEnd(n) == IF n > 0 THEN "poll" ELSE "ending"

FirstSubmit ==
    /\ reader = "submit"
    /\ IF submitted < Urbs
       THEN Submit /\ submitted' = submitted + 1 /\ UNCHANGED reader
       ELSE reader' = LoopOrEnd(active) /\ UNCHANGED <<inFlight, active, submitted>>
    /\ UNCHANGED <<flagVars, sinkVars, startVars, closer, urb, pollFailed,
                   dataVars, completed, reports, unplugged>>

\* poll() reports a completed URB or a vanished device, or is interrupted.
PollWakes ==
    /\ reader = "poll"
    /\ reader' = "reap"
    /\ UNCHANGED <<flagVars, sinkVars, startVars, closer, submitted, active,
                   urb, pollFailed, dataVars, kernelVars>>

\* Mutant of PollTimesOut: only close() discards, once.
PollTimesOutIdly ==
    /\ reader = "poll" /\ completed = <<>> /\ ~unplugged
    /\ UNCHANGED vars

PollTimesOut ==
    /\ reader = "poll"
    /\ completed = <<>> /\ ~unplugged
    /\ IF ~running \/ ~streaming
       THEN CompleteAll
       ELSE UNCHANGED <<inFlight, completed>>
    /\ UNCHANGED <<flagVars, sinkVars, startVars, closer, readerVars,
                   dataVars, reports, unplugged>>

PollFails ==
    /\ reader = "poll"
    /\ reader' = "ending"
    /\ pollFailed' = TRUE
    /\ UNCHANGED <<flagVars, sinkVars, startVars, closer, submitted, active,
                   urb, dataVars, kernelVars>>

\* Nothing to reap: back to poll(), or out when the device is gone.
ReapNothing ==
    /\ reader = "reap" /\ completed = <<>>
    /\ active' = IF unplugged THEN 0 ELSE active
    /\ reader' = LoopOrEnd(active')
    /\ UNCHANGED <<flagVars, sinkVars, startVars, closer, submitted, urb,
                   pollFailed, dataVars, kernelVars>>

\* A completed URB; the flags that decide about its resubmission are read
\* here, the submission itself comes later.
ReapUrb ==
    /\ reader = "reap" /\ completed # <<>>
    /\ completed' = Tail(completed)
    /\ urb' = Head(completed)
    /\ active' = active - 1
    /\ reader' = IF running /\ streaming THEN "resubmit" ELSE "produce"
    /\ UNCHANGED <<flagVars, sinkVars, startVars, closer, submitted,
                   pollFailed, dataVars, inFlight, reports, unplugged>>

\* Mutant of Resubmit: a resubmitted URB is not counted.
ResubmitUncounted ==
    /\ reader = "resubmit" /\ reader' = "produce"
    /\ (~unplugged /\ inFlight' = inFlight + 1) \/ UNCHANGED inFlight
    /\ UNCHANGED <<flagVars, sinkVars, startVars, closer, submitted, active, urb,
                   pollFailed, dataVars, completed, reports, unplugged>>

Resubmit ==
    /\ reader = "resubmit"
    /\ Submit
    /\ reader' = "produce"
    /\ UNCHANGED <<flagVars, sinkVars, startVars, closer, submitted, urb,
                   pollFailed, dataVars, completed, reports, unplugged>>

\* invoke_imu_sink(): the sink runs under sink_mutex_.
Produce ==
    /\ reader = "produce"
    /\ IF urb = 0 THEN reader' = "reap" /\ UNCHANGED sunk
       ELSE IF sinkSet THEN reader' = "inSink" /\ sunk' = urb
       ELSE reader' = "enqueue" /\ UNCHANGED sunk
    /\ UNCHANGED <<flagVars, sinkVars, startVars, closer, submitted, active,
                   urb, pollFailed, queue, taken, kernelVars>>

LeaveSink ==
    /\ reader = "inSink"
    /\ reader' = "reap"
    /\ UNCHANGED <<flagVars, sinkVars, startVars, closer, submitted, active,
                   urb, pollFailed, dataVars, kernelVars>>

\* A full queue loses its oldest report.
Newest(q) == IF Len(q) = QueueSize THEN Tail(q) ELSE q

Enqueue ==
    /\ reader = "enqueue"
    /\ queue' = Append(Newest(queue), urb)
    /\ reader' = "reap"
    /\ UNCHANGED <<flagVars, sinkVars, startVars, closer, submitted, active,
                   urb, pollFailed, taken, sunk, kernelVars>>

\* Mutant of ReaderEnd: the consumers are not told.
ReaderEndSilently ==
    /\ reader = "ending" /\ reader' = "done"
    /\ UNCHANGED <<flagVars, sinkVars, startVars, closer, submitted, active,
                   urb, pollFailed, dataVars, kernelVars>>

ReaderEnd ==
    /\ reader = "ending"
    /\ reader' = "done"
    /\ streaming' = FALSE
    /\ UNCHANGED <<running, sinkVars, startVars, closer, submitted, active,
                   urb, pollFailed, dataVars, kernelVars>>

-----------------------------------------------------------------------------
(* Consumers and close() *)

\* read_imu_record() with something queued; otherwise it returns nothing.
ReadRecord ==
    /\ queue # <<>>
    /\ taken' = Head(queue)
    /\ queue' = Tail(queue)
    /\ UNCHANGED <<flagVars, sinkVars, startVars, closer, readerVars, sunk,
                   kernelVars>>

\* Changing the sink waits for a callback under way.
SetSink ==
    /\ closer = "open" /\ sinkCalls < MaxSinks
    /\ reader # "inSink"
    /\ sinkSet' = ~sinkSet
    /\ sinkCalls' = sinkCalls + 1
    /\ UNCHANGED <<flagVars, startVars, closer, readerVars, dataVars,
                   kernelVars>>

CloseSinks ==
    /\ closer = "open"
    /\ reader # "inSink"
    /\ sinkSet' = FALSE
    /\ closer' = "flag"
    /\ UNCHANGED <<flagVars, sinkCalls, startVars, readerVars, dataVars,
                   kernelVars>>

CloseFlag ==
    /\ closer = "flag"
    /\ running' = FALSE
    /\ closer' = "stop"
    /\ UNCHANGED <<streaming, sinkVars, startVars, readerVars, dataVars,
                   kernelVars>>

CloseStop ==
    /\ closer = "stop"
    /\ streaming' = FALSE
    /\ closer' = "discard"
    /\ UNCHANGED <<running, sinkVars, startVars, readerVars, dataVars,
                   kernelVars>>

CloseDiscard ==
    /\ closer = "discard"
    /\ CompleteAll
    /\ closer' = "join"
    /\ UNCHANGED <<flagVars, sinkVars, startVars, readerVars, dataVars,
                   reports, unplugged>>

CloseJoin ==
    /\ closer = "join"
    /\ reader \in {"none", "done"}
    /\ reader' = "none"
    /\ closer' = "release"
    /\ UNCHANGED <<flagVars, sinkVars, startVars, submitted, active, urb,
                   pollFailed, dataVars, kernelVars>>

CloseRelease ==
    /\ closer = "release"
    /\ closer' = "closed"
    /\ UNCHANGED <<flagVars, sinkVars, startVars, readerVars, dataVars,
                   kernelVars>>

-----------------------------------------------------------------------------
(* The kernel and the glasses (external) *)

\* The oldest URB in flight completes: a full report, or one that is short or
\* failed and counts as none.
CompleteUrb ==
    /\ inFlight > 0 /\ reports < MaxReports
    /\ inFlight' = inFlight - 1
    /\ reports' = reports + 1
    /\ \E full \in BOOLEAN :
          completed' = Append(completed, IF full THEN reports + 1 ELSE 0)
    /\ UNCHANGED <<flagVars, sinkVars, startVars, closer, readerVars,
                   dataVars, unplugged>>

Unplug ==
    /\ ~unplugged
    /\ unplugged' = TRUE
    /\ CompleteAll
    /\ UNCHANGED <<flagVars, sinkVars, startVars, closer, readerVars,
                   dataVars, reports>>

-----------------------------------------------------------------------------
StarterStep == StartExchange \/ StartSpawn

ReaderStep ==
    \/ FirstSubmit \/ PollTimesOut \/ PollFails \/ ReapNothing \/ ReapUrb
    \/ Resubmit \/ Produce \/ LeaveSink \/ Enqueue \/ ReaderEnd

CloserStep ==
    CloseFlag \/ CloseStop \/ CloseDiscard \/ CloseJoin \/ CloseRelease

Next ==
    /\ ~terminated
    /\ \/ StartCheck \/ StarterStep
       \/ ReaderStep \/ PollWakes
       \/ ReadRecord \/ SetSink
       \/ CloseSinks \/ CloserStep
       \/ CompleteUrb \/ Unplug

Spec == Init /\ [][Next]_vars

(* Threads keep running.  poll() wakes when there is something to reap, and *)
(* signals do not keep it from its timeout for ever.  Nobody has to start,  *)
(* close, consume, deliver or unplug.                                       *)
Fairness ==
    /\ WF_vars(~terminated /\ StarterStep)
    /\ WF_vars(~terminated /\ CloserStep)
    /\ WF_vars(~terminated /\ (FirstSubmit \/ ReapNothing \/ ReapUrb
                  \/ Resubmit \/ Produce \/ LeaveSink \/ Enqueue \/ ReaderEnd))
    /\ WF_vars(~terminated /\ (completed # <<>> \/ unplugged) /\ PollWakes)
    /\ SF_vars(~terminated /\ PollTimesOut)

FairSpec == Spec /\ Fairness

-----------------------------------------------------------------------------
(* Properties *)

\* Every variable stays in its type.
TypeOK ==
    /\ running \in BOOLEAN /\ streaming \in BOOLEAN
    /\ sinkSet \in BOOLEAN /\ sinkCalls \in Nat
    /\ starter \in StarterPcs /\ starts \in Nat
    /\ closer \in CloserPcs
    /\ reader \in ReaderPcs /\ submitted \in 0..Urbs
    /\ active \in Int /\ urb \in Nat
    /\ queue \in Seq(Nat) /\ taken \in Nat /\ sunk \in Nat
    /\ inFlight \in Nat /\ completed \in Seq(Nat) /\ reports \in Nat
    /\ unplugged \in BOOLEAN
    /\ pollFailed \in BOOLEAN /\ lateStart \in BOOLEAN /\ terminated \in BOOLEAN

\* The reader's count is the number of URBs it has not reaped, and never more
\* than there are: the loop neither spins without URBs nor leaves any behind.
ActiveCountsUrbs ==
    ~pollFailed =>
        /\ active = inFlight + Len(completed)
        /\ active <= Urbs

\* The queue holds the newest reports, oldest first, none of them returned
\* before.
QueueIsFresh ==
    /\ Len(queue) <= QueueSize
    /\ \A i \in DOMAIN queue : taken < queue[i] /\ queue[i] <= reports
    /\ \A i, j \in DOMAIN queue : i < j => queue[i] < queue[j]

\* close() leaves no reader behind unless its start raced the close, and no
\* URB in flight unless poll() failed besides.
ClosedIsQuiet ==
    closer = "closed" /\ ~lateStart =>
        /\ reader = "none"
        /\ pollFailed \/ (inFlight = 0 /\ completed = <<>>)

-----------------------------------------------------------------------------
(* The inductive invariant behind the safety properties *)

\* The count at the places where the loop relies on it: while it submits its
\* URBs, with one reaped and not yet submitted again, and at its end.
CountInv ==
    /\ unplugged => inFlight = 0
    /\ reader = "submit" => active <= submitted
    /\ ~pollFailed =>
          /\ reader = "resubmit" => active < Urbs
          /\ reader \in {"none", "ending", "done"} => active = 0

\* Reports are on one line from the kernel to the consumer: what has completed
\* is newer than the report in hand, that newer than the queue, and the queue
\* newer than what was returned.
OrderInv ==
    /\ taken <= reports
    /\ \A i \in DOMAIN completed : completed[i] # 0 =>
          /\ taken < completed[i] /\ completed[i] <= reports
          /\ \A k \in DOMAIN queue : queue[k] < completed[i]
          /\ \A j \in DOMAIN completed :
                j > i /\ completed[j] # 0 => completed[i] < completed[j]
    /\ reader \in {"resubmit", "produce", "enqueue"} /\ urb # 0 =>
          /\ taken < urb /\ urb <= reports
          /\ \A k \in DOMAIN queue : queue[k] < urb
          /\ \A i \in DOMAIN completed : completed[i] # 0 => urb < completed[i]
    /\ reader = "enqueue" => urb # 0

\* A report is being handed to the sink only while one is set (clearing it
\* waits), and after close()'s join only a late start has a reader.
CloseInv ==
    /\ reader = "inSink" => sinkSet
    /\ running <=> closer \in {"open", "flag"}
    /\ closer \in {"release", "closed"} /\ ~lateStart => reader = "none"

\* A start that finds the stream stopped has no thread of an earlier one to assign
\* over, unless that one ended by itself or close() is on its way: nothing else can
\* make a start the end of the process.
RestartInv ==
    running =>
        /\ starter = "spawn" => streaming
        /\ ~streaming \/ starter = "spawn" => reader \in {"none", "done"}
        /\ terminated => reader = "done"

\* Why the stream keeps its count, its order and its promise to close(), and what a
\* second start may do.
ImuInv ==
    /\ TypeOK
    /\ ActiveCountsUrbs
    /\ QueueIsFresh
    /\ CountInv
    /\ OrderInv
    /\ CloseInv
    /\ RestartInv

-----------------------------------------------------------------------------
(* Liveness *)

\* close() terminates, although a URB may be submitted after its discard.
CloseTerminates == closer = "flag" ~> closer = "closed" \/ terminated

\* After an unplug the stream ends, so a consumer is not left waiting.
UnplugEndsStream == unplugged ~> ~streaming \/ terminated
=============================================================================
