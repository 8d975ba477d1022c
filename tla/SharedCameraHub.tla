-------------------------- MODULE SharedCameraHub --------------------------
(***************************************************************************)
(* SharedFrameHub and SharedSurfaceWriter (ArGlassCameraSurface.kt): one   *)
(* camera reader pumped by one thread to every writer opened on the hub.   *)
(* The reader is opened with the first writer and closed with the last,    *)
(* by whoever takes it out of the hub under the hub's lock: the writer     *)
(* that unregisters, or the pump when the source ends.  Reading a frame,   *)
(* closing a reader and offering a frame happen outside that lock.         *)
(*                                                                         *)
(* Readers are numbered in the order they are opened; reader g is pumped   *)
(* by the thread whose activeReader is g.  0 is the null reader.           *)
(***************************************************************************)
EXTENDS Naturals, Sequences

CONSTANTS
    Writers,        \* the writers the application opens, each once
    MaxReaders,     \* bound on the readers ever opened
    MaxFrames,      \* bound on the frames all readers deliver
    MaxCloses,      \* bound on the calls of close() on one writer
    QueueSize,      \* SHARED_SURFACE_QUEUE_SIZE
    MaxEmptyReads   \* options.maxEmptyReads, 0 for no limit

ASSUME HubAssumption ==
    /\ MaxReaders \in Nat /\ MaxFrames \in Nat /\ MaxCloses \in Nat
    /\ QueueSize \in Nat \ {0}
    /\ MaxEmptyReads \in Nat

Readers == 1..MaxReaders
\* A frame remembers its reader and its place in the stream of all frames.
Frame == [from: Nat, seq: Nat, codecConfig: BOOLEAN]
NoFrame == [from |-> 0, seq |-> 0, codecConfig |-> FALSE]

VARIABLES
    reader,         \* the hub's reader, 0 when null
    thread,         \* the hub's thread, by its reader; 0 when null
    sinks,          \* the registered writers
    lastCodecConfig,\* the latest codec configuration, or NoFrame
    emptyReads,     \* empty reads in a row
    opened,         \* how many readers have been opened
    deviceOpen,     \* the readers not closed yet
    dying,          \* readers taken out by unregister(), about to be closed
    loop,           \* where each pump is in readLoop()
    frame,          \* the frame each pump is delivering
    targets,        \* the writers it still has to offer it to, or to mark
    delivered,      \* how many frames have been read
    created,        \* writers that open() has returned
    closed,         \* writer.closed
    sourceClosed,   \* writer.sourceClosed
    queue,          \* writer.queue
    unregisters,    \* calls of close() still before unregister()
    closeCalls,     \* calls of close() so far
    staleFrames     \* frames a pump handed out after losing the hub (history)

hubVars    == <<reader, thread, sinks, lastCodecConfig, emptyReads>>
deviceVars == <<opened, deviceOpen, dying>>
loopVars   == <<loop, frame, targets, delivered, staleFrames>>
writerVars == <<created, closed, sourceClosed, queue, unregisters, closeCalls>>
vars == <<hubVars, deviceVars, loopVars, writerVars>>

LoopPcs == {"none", "top", "reading", "got", "offering", "finish", "closing",
            "marking", "done"}

Init ==
    /\ reader = 0 /\ thread = 0 /\ sinks = {} /\ lastCodecConfig = NoFrame
    /\ emptyReads = 0
    /\ opened = 0 /\ deviceOpen = {} /\ dying = {}
    /\ loop = [g \in Readers |-> "none"]
    /\ frame = [g \in Readers |-> NoFrame]
    /\ targets = [g \in Readers |-> {}]
    /\ delivered = 0
    /\ staleFrames = [g \in Readers |-> 0]
    /\ created = {} /\ closed = {} /\ sourceClosed = {}
    /\ queue = [w \in Writers |-> <<>>]
    /\ unregisters = [w \in Writers |-> 0]
    /\ closeCalls = [w \in Writers |-> 0]

-----------------------------------------------------------------------------
(* SharedSurfaceWriter *)

\* offer(): a configuration frame empties the queue, a full queue loses its
\* oldest frames, a writer that is closed or cut off takes nothing.
Room(q) == IF Len(q) >= QueueSize
           THEN SubSeq(q, Len(q) - QueueSize + 2, Len(q)) ELSE q

\* Mutant of Offered: the newest frame goes to the wrong end.
OfferedInFront(w, f) ==
    IF w \in closed \cup sourceClosed THEN queue[w]
    ELSE IF f.codecConfig THEN <<f>> ELSE <<f>> \o Room(queue[w])

Offered(w, f) ==
    IF w \in closed \cup sourceClosed THEN queue[w]
    ELSE IF f.codecConfig THEN <<f>> ELSE Append(Room(queue[w]), f)

\* writeFrame(): the writer's consumer takes the oldest frame to render it.
\* (With nothing queued it returns without changing anything.)
WriteFrame(w) ==
    /\ w \in created \ closed
    /\ queue[w] # <<>>
    /\ queue' = [queue EXCEPT ![w] = Tail(@)]
    /\ UNCHANGED <<hubVars, deviceVars, loopVars, created, closed,
                   sourceClosed, unregisters, closeCalls>>

\* close(): first the writer's own lock, then unregister().  Nothing keeps
\* two threads from closing the same writer.
CloseWriter(w) ==
    /\ w \in created /\ closeCalls[w] < MaxCloses
    /\ closed' = closed \cup {w}
    /\ queue' = [queue EXCEPT ![w] = <<>>]
    /\ unregisters' = [unregisters EXCEPT ![w] = @ + 1]
    /\ closeCalls' = [closeCalls EXCEPT ![w] = @ + 1]
    /\ UNCHANGED <<hubVars, deviceVars, loopVars, created, sourceClosed>>

-----------------------------------------------------------------------------
(* SharedFrameHub *)

\* Mutant of Open: a reader is opened for every writer.
OpenAnew(w) ==
    LET g == opened + 1
    IN  /\ w \notin created /\ g \in Readers
        /\ reader' = g /\ opened' = g /\ deviceOpen' = deviceOpen \cup {g}
        /\ created' = created \cup {w}
        /\ queue' = IF lastCodecConfig = NoFrame THEN queue
                    ELSE [queue EXCEPT ![w] = Offered(w, lastCodecConfig)]
        /\ sinks' = sinks \cup {w}
        /\ IF thread = 0
           THEN thread' = g /\ loop' = [loop EXCEPT ![g] = "top"]
           ELSE UNCHANGED <<thread, loop>>
        /\ UNCHANGED <<lastCodecConfig, emptyReads, dying, frame, targets,
                       delivered, staleFrames, closed, sourceClosed,
                       unregisters, closeCalls>>

\* open(): take the active reader or open one, give the writer the latest
\* configuration, register it, and start a pump if there is none.
Open(w) ==
    LET g == IF reader # 0 THEN reader ELSE opened + 1
    IN  /\ w \notin created
        /\ g \in Readers
        /\ reader' = g
        /\ opened' = IF reader # 0 THEN opened ELSE g
        /\ deviceOpen' = deviceOpen \cup {g}
        /\ created' = created \cup {w}
        /\ queue' = IF lastCodecConfig = NoFrame THEN queue
                    ELSE [queue EXCEPT ![w] = Offered(w, lastCodecConfig)]
        /\ sinks' = sinks \cup {w}
        /\ IF thread = 0
           THEN thread' = g /\ loop' = [loop EXCEPT ![g] = "top"]
           ELSE UNCHANGED <<thread, loop>>
        /\ UNCHANGED <<lastCodecConfig, emptyReads, dying, frame, targets,
                       delivered, staleFrames, closed, sourceClosed,
                       unregisters, closeCalls>>

\* The hub lets go of its reader.
Forget ==
    /\ reader' = 0 /\ thread' = 0 /\ lastCodecConfig' = NoFrame

\* unregister(): the last writer out takes the reader with it.
Unregister(w) ==
    /\ unregisters[w] > 0
    /\ unregisters' = [unregisters EXCEPT ![w] = @ - 1]
    /\ sinks' = sinks \ {w}
    /\ IF sinks' = {}
       THEN Forget /\ dying' = dying \cup ({reader} \ {0})
       ELSE UNCHANGED <<reader, thread, lastCodecConfig, dying>>
    /\ UNCHANGED <<emptyReads, opened, deviceOpen, loopVars, created, closed,
                   sourceClosed, queue, closeCalls>>

\* ... and closes it after leaving the lock.
CloseDying(g) ==
    /\ g \in dying
    /\ dying' = dying \ {g}
    /\ deviceOpen' = deviceOpen \ {g}
    /\ UNCHANGED <<hubVars, opened, loopVars, writerVars>>

-----------------------------------------------------------------------------
(* readLoop() *)

LoopTop(g) ==
    /\ loop[g] = "top"
    /\ loop' = [loop EXCEPT ![g] =
                  IF reader # g \/ sinks = {} THEN "finish" ELSE "reading"]
    /\ UNCHANGED <<hubVars, deviceVars, frame, targets, delivered,
                   staleFrames, writerVars>>

\* readFrame() delivers; the lock is taken again only after it has returned.
ReadFrame(g) ==
    /\ loop[g] = "reading" /\ g \in deviceOpen
    /\ delivered < MaxFrames
    /\ delivered' = delivered + 1
    /\ \E config \in BOOLEAN :
          frame' = [frame EXCEPT ![g] = [from |-> g, seq |-> delivered + 1,
                                         codecConfig |-> config]]
    /\ loop' = [loop EXCEPT ![g] = "got"]
    /\ UNCHANGED <<hubVars, deviceVars, targets, staleFrames, writerVars>>

\* It returns nothing: the counter is the hub's, not the pump's.
ReadEmpty(g) ==
    /\ loop[g] = "reading"
    /\ emptyReads' = emptyReads + IF MaxEmptyReads > 0 THEN 1 ELSE 0
    /\ loop' = [loop EXCEPT ![g] =
                  IF MaxEmptyReads > 0 /\ emptyReads' >= MaxEmptyReads
                  THEN "finish" ELSE "top"]
    /\ UNCHANGED <<reader, thread, sinks, lastCodecConfig, deviceVars, frame,
                   targets, delivered, staleFrames, writerVars>>

\* It throws: the reader was closed under it, or the source failed.
ReadThrows(g) ==
    /\ loop[g] = "reading"
    /\ loop' = [loop EXCEPT ![g] = "finish"]
    /\ UNCHANGED <<hubVars, deviceVars, frame, targets, delivered,
                   staleFrames, writerVars>>

\* Under the lock again, without asking whose hub it is: remember a
\* configuration and choose the writers to offer the frame to.
Accept(g) ==
    /\ loop[g] = "got"
    /\ emptyReads' = 0
    /\ lastCodecConfig' = IF frame[g].codecConfig THEN frame[g]
                          ELSE lastCodecConfig
    /\ targets' = [targets EXCEPT ![g] = sinks]
    /\ staleFrames' = [staleFrames EXCEPT ![g] =
                          IF reader # g THEN @ + 1 ELSE @]
    /\ loop' = [loop EXCEPT ![g] = "offering"]
    /\ UNCHANGED <<reader, thread, sinks, deviceVars, frame, delivered,
                   writerVars>>

Offer(g, w) ==
    /\ loop[g] = "offering" /\ w \in targets[g]
    /\ queue' = [queue EXCEPT ![w] = Offered(w, frame[g])]
    /\ targets' = [targets EXCEPT ![g] = @ \ {w}]
    /\ UNCHANGED <<hubVars, deviceVars, loop, frame, delivered, staleFrames,
                   created, closed, sourceClosed, unregisters, closeCalls>>

OfferedAll(g) ==
    /\ loop[g] = "offering" /\ targets[g] = {}
    /\ loop' = [loop EXCEPT ![g] = "top"]
    /\ UNCHANGED <<hubVars, deviceVars, frame, targets, delivered,
                   staleFrames, writerVars>>

\* finish(): only the pump of the current reader may clear the hub.
Finish(g) ==
    /\ loop[g] = "finish"
    /\ IF reader = g
       THEN /\ Forget
            /\ targets' = [targets EXCEPT ![g] = sinks]
            /\ sinks' = {}
            /\ loop' = [loop EXCEPT ![g] = "closing"]
       ELSE /\ loop' = [loop EXCEPT ![g] = "done"]
            /\ UNCHANGED <<reader, thread, sinks, lastCodecConfig, targets>>
    /\ UNCHANGED <<emptyReads, deviceVars, frame, delivered, staleFrames,
                   writerVars>>

\* Mutant of FinishClose: the reader is left open.
FinishWithoutClose(g) ==
    /\ loop[g] = "closing" /\ loop' = [loop EXCEPT ![g] = "marking"]
    /\ UNCHANGED <<hubVars, deviceVars, frame, targets, delivered,
                   staleFrames, writerVars>>

FinishClose(g) ==
    /\ loop[g] = "closing"
    /\ deviceOpen' = deviceOpen \ {g}
    /\ loop' = [loop EXCEPT ![g] = "marking"]
    /\ UNCHANGED <<hubVars, opened, dying, frame, targets, delivered,
                   staleFrames, writerVars>>

\* markSourceClosed() on each writer that was registered.
FinishMark(g, w) ==
    /\ loop[g] = "marking" /\ w \in targets[g]
    /\ sourceClosed' = sourceClosed \cup {w}
    /\ targets' = [targets EXCEPT ![g] = @ \ {w}]
    /\ UNCHANGED <<hubVars, deviceVars, loop, frame, delivered, staleFrames,
                   created, closed, queue, unregisters, closeCalls>>

FinishEnd(g) ==
    /\ loop[g] = "marking" /\ targets[g] = {}
    /\ loop' = [loop EXCEPT ![g] = "done"]
    /\ UNCHANGED <<hubVars, deviceVars, frame, targets, delivered,
                   staleFrames, writerVars>>

LoopStep(g) ==
    \/ LoopTop(g) \/ ReadFrame(g) \/ ReadEmpty(g) \/ ReadThrows(g)
    \/ Accept(g) \/ OfferedAll(g)
    \/ Finish(g) \/ FinishClose(g) \/ FinishEnd(g)
    \/ \E w \in Writers : Offer(g, w) \/ FinishMark(g, w)

Next ==
    \/ \E w \in Writers :
          Open(w) \/ WriteFrame(w) \/ CloseWriter(w) \/ Unregister(w)
    \/ \E g \in Readers : CloseDying(g) \/ LoopStep(g)

Spec == Init /\ [][Next]_vars

(* Threads run on: a read has a timeout, close() and the pumps finish what *)
(* they began.  Nobody has to open, close or consume.                      *)
Fairness ==
    /\ \A w \in Writers : WF_vars(Unregister(w))
    /\ \A g \in Readers : WF_vars(CloseDying(g)) /\ WF_vars(LoopStep(g))

FairSpec == Spec /\ Fairness

-----------------------------------------------------------------------------
(* Properties *)

\* Every variable stays in its type.
TypeOK ==
    /\ reader \in 0..MaxReaders /\ thread \in 0..MaxReaders
    /\ sinks \in SUBSET Writers
    /\ lastCodecConfig \in Frame
    /\ emptyReads \in Nat
    /\ opened \in 0..MaxReaders
    /\ deviceOpen \in SUBSET Readers /\ dying \in SUBSET Readers
    /\ loop \in [Readers -> LoopPcs]
    /\ frame \in [Readers -> Frame]
    /\ targets \in [Readers -> SUBSET Writers]
    /\ delivered \in Nat
    /\ staleFrames \in [Readers -> Nat]
    /\ created \in SUBSET Writers /\ closed \in SUBSET Writers
    /\ sourceClosed \in SUBSET Writers
    /\ queue \in [Writers -> Seq(Frame)]
    /\ unregisters \in [Writers -> Nat] /\ closeCalls \in [Writers -> Nat]

\* A registered writer always has a pump that will serve it or tell it that
\* the source is gone: the hub has a reader exactly while it has writers, and
\* that reader's own pump is still in its loop.
RegisteredWriterIsPumped ==
    /\ reader # 0 <=> sinks # {}
    /\ thread = reader
    /\ reader # 0 =>
          loop[reader] \in {"top", "reading", "got", "offering", "finish"}

\* Exactly one party is responsible for closing an open reader: the hub's
\* pump, the last writer out, or a pump that has begun to finish.
OpenReaderHasOneOwner ==
    \A g \in Readers :
        /\ g \in deviceOpen
              <=> reader = g \/ g \in dying \/ loop[g] = "closing"
        /\ ~(reader = g /\ g \in dying)
        /\ ~(reader = g /\ loop[g] = "closing")
        /\ ~(g \in dying /\ loop[g] = "closing")

\* A pump that lost the hub hands at most one frame to its successor's
\* writers: the one it was reading when it was replaced.
AtMostOneStaleFrame == \A g \in Readers : staleFrames[g] <= 1

\* A writer's queue is a bounded piece of the stream: frames of one reader are
\* in the order they were read, a configuration frame is only ever at the
\* front (what was queued before it is gone), and a closed writer holds
\* nothing, however late a pump still offers it a frame.
FramesInOrder ==
    \A w \in Writers :
        /\ Len(queue[w]) <= QueueSize
        /\ w \in closed => queue[w] = <<>>
        /\ \A i, j \in DOMAIN queue[w] : i < j =>
              /\ ~queue[w][j].codecConfig
              /\ queue[w][i].from = queue[w][j].from
                    => queue[w][i].seq < queue[w][j].seq

-----------------------------------------------------------------------------
(* The inductive invariant behind the properties of the hub *)

\* Readers that have not been opened are nobody's.
FreshInv ==
    /\ reader <= opened
    /\ \A g \in Readers : g > opened =>
          g \notin deviceOpen \cup dying /\ loop[g] = "none" /\ staleFrames[g] = 0

\* A pump that delivered a stale frame is on its way to its end.
StaleInv ==
    \A g \in Readers :
        /\ reader = g => staleFrames[g] = 0
        /\ staleFrames[g] = 1 => loop[g] \notin {"reading", "got"}

\* What a pump has in hand is newer than all that is queued of its reader, where it
\* still has to be offered; and nobody but a writer that open() has returned is
\* offered anything.
Queued(w) == {queue[w][i] : i \in DOMAIN queue[w]}
NotNewer(f, g) == f.from = g => f.seq <= frame[g].seq
Older(f, g) == f.from = g => f.seq < frame[g].seq
QueueInv ==
    /\ sinks \subseteq created
    /\ \A w \in Writers \ created : queue[w] = <<>>
    /\ \A g \in Readers :
         /\ targets[g] \subseteq created
         /\ frame[g].seq <= delivered
         /\ loop[g] \in {"got", "offering"} => frame[g].from = g
         /\ NotNewer(lastCodecConfig, g)
         /\ loop[g] = "got" => Older(lastCodecConfig, g)
         /\ \A w \in Writers : \A f \in Queued(w) :
              /\ NotNewer(f, g)
              /\ loop[g] = "got" \/ (loop[g] = "offering" /\ w \in targets[g]) => Older(f, g)

\* Why the safety properties above hold: none of the parts is inductive alone.
PumpInv ==
    /\ TypeOK
    /\ FreshInv
    /\ RegisteredWriterIsPumped
    /\ OpenReaderHasOneOwner
    /\ StaleInv
    /\ AtMostOneStaleFrame
HubInv == PumpInv /\ QueueInv

-----------------------------------------------------------------------------
(* Liveness *)

\* Once the hub has let go of a reader, the reader is closed.
AbandonedReaderIsClosed ==
    \A g \in Readers : (g \in deviceOpen /\ reader # g) ~> g \notin deviceOpen

\* A writer that is no longer registered is told: its writeFrame() ends.
UnregisteredWriterEnds ==
    \A w \in Writers :
        (w \in created /\ w \notin sinks) ~> (w \in closed \cup sourceClosed)

\* Neither a reader nor a writer is left over when the hub has let go of it.
NothingIsLeftOver == AbandonedReaderIsClosed /\ UnregisteredWriterEnds
=============================================================================
