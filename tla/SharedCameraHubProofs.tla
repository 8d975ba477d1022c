----------------------- MODULE SharedCameraHubProofs -----------------------
(* Proofs about the shared camera hub, for any writers, readers and bounds. *)
EXTENDS SharedCameraHub, SequenceTheorems, TLAPS

(* What offer() makes of a queue is a queue again. *)
LEMMA OfferedType ==
  ASSUME TypeOK, NEW w \in Writers, NEW f \in Frame
  PROVE  Offered(w, f) \in Seq(Frame)
<1>1. queue[w] \in Seq(Frame) /\ Len(queue[w]) \in Nat /\ QueueSize \in Nat \ {0}
  BY HubAssumption DEF TypeOK
<1>2. Room(queue[w]) \in Seq(Frame)
  <2>1. CASE Len(queue[w]) >= QueueSize
    <3>1. /\ Len(queue[w]) - QueueSize + 2 \in 1..Len(queue[w]) + 1
      BY <1>1, <2>1
    <3>2. \A i \in (Len(queue[w]) - QueueSize + 2)..Len(queue[w]) :
             queue[w][i] \in Frame
      BY <1>1, <3>1, ElementOfSeq
    <3>3. SubSeq(queue[w], Len(queue[w]) - QueueSize + 2, Len(queue[w])) \in Seq(Frame)
      BY <1>1, <3>1, <3>2, SubSeqProperties
    <3>. QED
      BY <2>1, <3>3 DEF Room
  <2>2. CASE ~(Len(queue[w]) >= QueueSize)
    BY <1>1, <2>2 DEF Room
  <2>. QED
    BY <2>1, <2>2
<1>. QED
  BY <1>1, <1>2 DEF Offered

(* The initial state satisfies the invariant: nothing is open. *)
LEMMA InitPump == Init => PumpInv
  BY HubAssumption
     DEF Init, PumpInv, TypeOK, FreshInv, RegisteredWriterIsPumped,
         OpenReaderHasOneOwner, StaleInv, AtMostOneStaleFrame, LoopPcs,
         Readers, Frame, NoFrame

(* Steps that only move writers and their queues keep the hub's invariant. *)
LEMMA WriterSteps ==
  ASSUME PumpInv, NEW w \in Writers, WriteFrame(w) \/ CloseWriter(w)
  PROVE  PumpInv'
<1> USE DEF PumpInv, TypeOK, hubVars, deviceVars, loopVars
<1>1. CASE WriteFrame(w)
  <2>1. Tail(queue[w]) \in Seq(Frame)
    BY <1>1 DEF WriteFrame
  <2>2. TypeOK'
    BY <1>1, <2>1 DEF WriteFrame
  <2>. QED
    BY <1>1, <2>2
       DEF WriteFrame, FreshInv, RegisteredWriterIsPumped,
           OpenReaderHasOneOwner, StaleInv, AtMostOneStaleFrame
<1>2. CASE CloseWriter(w)
  <2>1. TypeOK'
    BY <1>2 DEF CloseWriter
  <2>. QED
    BY <1>2, <2>1
       DEF CloseWriter, FreshInv, RegisteredWriterIsPumped,
           OpenReaderHasOneOwner, StaleInv, AtMostOneStaleFrame
<1>. QED
  BY <1>1, <1>2

(* open(): with a reader in place only the writer is added; without one the
   next number is taken, which by FreshInv nobody holds. *)
LEMMA OpenStep ==
  ASSUME PumpInv, NEW w \in Writers, Open(w)
  PROVE  PumpInv'
<1> DEFINE g == IF reader # 0 THEN reader ELSE opened + 1
<1>1. /\ TypeOK /\ FreshInv /\ RegisteredWriterIsPumped
      /\ OpenReaderHasOneOwner /\ StaleInv /\ AtMostOneStaleFrame
  BY DEF PumpInv
<1>2. /\ w \notin created /\ g \in Readers /\ reader' = g
      /\ opened' = IF reader # 0 THEN opened ELSE g
      /\ deviceOpen' = deviceOpen \cup {g}
      /\ created' = created \cup {w} /\ sinks' = sinks \cup {w}
      /\ queue' = IF lastCodecConfig = NoFrame THEN queue
                  ELSE [queue EXCEPT ![w] = Offered(w, lastCodecConfig)]
      /\ IF thread = 0
         THEN thread' = g /\ loop' = [loop EXCEPT ![g] = "top"]
         ELSE UNCHANGED <<thread, loop>>
      /\ UNCHANGED <<lastCodecConfig, emptyReads, dying, frame, targets,
                     delivered, staleFrames, closed, sourceClosed,
                     unregisters, closeCalls>>
  BY DEF Open
<1>3. /\ reader \in 0..MaxReaders /\ opened \in 0..MaxReaders /\ MaxReaders \in Nat
      /\ reader <= opened /\ thread = reader
  BY <1>1, HubAssumption DEF TypeOK, FreshInv, RegisteredWriterIsPumped
<1>4. queue' \in [Writers -> Seq(Frame)]
  <2>1. Offered(w, lastCodecConfig) \in Seq(Frame)
    BY <1>1, OfferedType DEF TypeOK
  <2>. QED
    BY <1>1, <1>2, <2>1 DEF TypeOK
<1>5. CASE reader # 0
  <2>1. g = reader /\ UNCHANGED <<reader, opened, thread, loop>>
    BY <1>2, <1>3, <1>5
  <2>2. g \in deviceOpen /\ deviceOpen' = deviceOpen
    BY <1>1, <1>2, <2>1 DEF OpenReaderHasOneOwner
  <2>3. TypeOK'
    BY <1>1, <1>2, <1>4, <2>1, <2>2 DEF TypeOK
  <2>4. FreshInv' /\ OpenReaderHasOneOwner' /\ StaleInv' /\ AtMostOneStaleFrame'
    BY <1>1, <1>2, <2>1, <2>2
       DEF FreshInv, OpenReaderHasOneOwner, StaleInv, AtMostOneStaleFrame
  <2>5. RegisteredWriterIsPumped'
    BY <1>1, <1>2, <1>5, <2>1 DEF RegisteredWriterIsPumped
  <2>. QED
    BY <2>3, <2>4, <2>5 DEF PumpInv
<1>6. CASE reader = 0
  <2>1. /\ g = opened + 1 /\ g \in Readers /\ g > opened
        /\ reader' = g /\ opened' = g /\ thread' = g
        /\ loop' = [loop EXCEPT ![g] = "top"]
    BY <1>2, <1>3, <1>6
  <2>2. g \notin deviceOpen \cup dying /\ loop[g] = "none" /\ staleFrames[g] = 0
    BY <1>1, <2>1 DEF FreshInv
  <2>3. g \in 0..MaxReaders
    BY <1>3, <2>1 DEF Readers
  <2>4. loop' \in [Readers -> LoopPcs]
    BY <1>1, <2>1 DEF TypeOK, LoopPcs
  <2>5. TypeOK'
    BY <1>1, <1>2, <1>4, <2>1, <2>3, <2>4 DEF TypeOK
  <2>6. FreshInv'
    BY <1>1, <1>2, <1>3, <2>1, <2>3 DEF FreshInv, TypeOK, Readers
  <2>7. RegisteredWriterIsPumped'
    BY <1>1, <1>2, <2>1, <2>3, <2>4 DEF RegisteredWriterIsPumped, TypeOK, Readers
  <2>8. OpenReaderHasOneOwner'
    <3>1. ASSUME NEW h \in Readers
          PROVE  /\ h \in deviceOpen' <=> h = g \/ h \in deviceOpen
                 /\ loop'[h] = IF h = g THEN "top" ELSE loop[h]
                 /\ dying' = dying
      BY <1>1, <1>2, <2>1 DEF TypeOK
    <3>2. \A h \in Readers : reader # h
      BY <1>6 DEF Readers
    <3>. QED
      BY <1>1, <2>1, <2>2, <3>1, <3>2 DEF OpenReaderHasOneOwner
  <2>9. StaleInv' /\ AtMostOneStaleFrame'
    BY <1>1, <1>2, <1>6, <2>1, <2>2, <2>4
       DEF StaleInv, AtMostOneStaleFrame, TypeOK
  <2>. QED
    BY <2>5, <2>6, <2>7, <2>8, <2>9 DEF PumpInv
<1>. QED
  BY <1>5, <1>6

(* unregister(): the last writer hands the reader to the closing thread. *)
LEMMA UnregisterStep ==
  ASSUME PumpInv, NEW w \in Writers, Unregister(w)
  PROVE  PumpInv'
<1>1. /\ TypeOK /\ FreshInv /\ RegisteredWriterIsPumped
      /\ OpenReaderHasOneOwner /\ StaleInv /\ AtMostOneStaleFrame
  BY DEF PumpInv
<1>2. unregisters' \in [Writers -> Nat]
  BY <1>1 DEF Unregister, TypeOK
<1>3. CASE sinks' = {}
  <2>1. Forget /\ dying' = dying \cup ({reader} \ {0})
    BY <1>3 DEF Unregister
  <2>2. /\ {reader} \ {0} \in SUBSET Readers /\ 0 \in 0..MaxReaders
        /\ NoFrame \in Frame /\ 0 \notin Readers
    BY <1>1, HubAssumption DEF TypeOK, Readers, NoFrame, Frame
  <2>3. TypeOK'
    BY <1>1, <1>2, <2>1, <2>2 DEF Unregister, Forget, TypeOK, loopVars
  <2>4. FreshInv'
    BY <1>1, <2>1, <2>2, HubAssumption
       DEF Unregister, Forget, FreshInv, loopVars, TypeOK, Readers
  <2>5. RegisteredWriterIsPumped'
    BY <1>3, <2>1 DEF Forget, RegisteredWriterIsPumped
  <2>6. OpenReaderHasOneOwner'
    BY <1>1, <2>1, <2>2 DEF Unregister, Forget, OpenReaderHasOneOwner, loopVars
  <2>7. StaleInv' /\ AtMostOneStaleFrame'
    BY <1>1, <2>1, <2>2
       DEF Unregister, Forget, StaleInv, AtMostOneStaleFrame, loopVars
  <2>. QED
    BY <2>3, <2>4, <2>5, <2>6, <2>7 DEF PumpInv
<1>4. CASE sinks' # {}
  <2>1. UNCHANGED <<reader, thread, lastCodecConfig, dying>>
    BY <1>4 DEF Unregister
  <2>2. TypeOK'
    BY <1>1, <1>2, <2>1 DEF Unregister, TypeOK, loopVars
  <2>3. RegisteredWriterIsPumped'
    BY <1>1, <1>4, <2>1 DEF Unregister, RegisteredWriterIsPumped, loopVars
  <2>4. FreshInv' /\ OpenReaderHasOneOwner' /\ StaleInv' /\ AtMostOneStaleFrame'
    BY <1>1, <2>1 DEF Unregister, FreshInv, OpenReaderHasOneOwner, StaleInv,
                      AtMostOneStaleFrame, loopVars
  <2>. QED
    BY <2>2, <2>3, <2>4 DEF PumpInv
<1>. QED
  BY <1>3, <1>4

(* The closing thread closes what it was handed. *)
LEMMA CloseDyingStep ==
  ASSUME PumpInv, NEW g \in Readers, CloseDying(g)
  PROVE  PumpInv'
<1> USE DEF PumpInv, CloseDying, hubVars, loopVars, writerVars
<1>1. TypeOK'
  BY DEF TypeOK
<1>2. FreshInv' /\ RegisteredWriterIsPumped' /\ StaleInv' /\ AtMostOneStaleFrame'
  BY DEF FreshInv, RegisteredWriterIsPumped, StaleInv, AtMostOneStaleFrame
<1>3. OpenReaderHasOneOwner'
  BY DEF OpenReaderHasOneOwner
<1>. QED
  BY <1>1, <1>2, <1>3

(* A pump that moves on without touching the hub, the devices or its count of
   stale frames, from a place that claims nothing to another such place. *)
LEMMA PumpMoves ==
  ASSUME PumpInv, NEW g \in Readers, NEW to \in LoopPcs,
         loop' = [loop EXCEPT ![g] = to],
         loop[g] \notin {"none", "closing"}, to # "closing",
         reader = g => to \in {"top", "reading", "got", "offering", "finish"},
         staleFrames[g] = 1 => to \notin {"reading", "got"},
         UNCHANGED <<reader, thread, sinks, deviceVars, staleFrames>>
  PROVE  /\ FreshInv' /\ RegisteredWriterIsPumped' /\ OpenReaderHasOneOwner'
         /\ StaleInv' /\ AtMostOneStaleFrame'
<1>1. ASSUME NEW h \in Readers
      PROVE  loop'[h] = IF h = g THEN to ELSE loop[h]
  BY DEF PumpInv, TypeOK
<1>2. RegisteredWriterIsPumped'
  <2>1. CASE reader = g
    BY <1>1, <2>1 DEF PumpInv, RegisteredWriterIsPumped
  <2>2. CASE reader # g
    <3>1. reader # 0 => reader \in Readers
      BY HubAssumption DEF PumpInv, TypeOK, Readers
    <3>. QED
      BY <1>1, <2>2, <3>1 DEF PumpInv, RegisteredWriterIsPumped
  <2>. QED
    BY <2>1, <2>2
<1>3. FreshInv'
  BY <1>1 DEF PumpInv, FreshInv, deviceVars
<1>4. OpenReaderHasOneOwner'
  BY <1>1 DEF PumpInv, OpenReaderHasOneOwner, deviceVars
<1>5. StaleInv' /\ AtMostOneStaleFrame'
  BY <1>1 DEF PumpInv, StaleInv, AtMostOneStaleFrame
<1>. QED
  BY <1>2, <1>3, <1>4, <1>5

(* Reading: every way a read can end, and the decision whether to read. *)
LEMMA ReadSteps ==
  ASSUME PumpInv, NEW g \in Readers,
         LoopTop(g) \/ ReadFrame(g) \/ ReadEmpty(g) \/ ReadThrows(g) \/ OfferedAll(g)
  PROVE  PumpInv'
<1>1. /\ TypeOK
      /\ staleFrames[g] = 1 => loop[g] \notin {"reading", "got"}
      /\ reader = g => staleFrames[g] = 0
  BY DEF PumpInv, StaleInv
<1>2. CASE LoopTop(g)
  <2>1. PICK to \in {"finish", "reading"} :
           /\ loop' = [loop EXCEPT ![g] = to]
           /\ to = "reading" => reader = g
    BY <1>2 DEF LoopTop
  <2>2. TypeOK'
    BY <1>1, <1>2, <2>1
       DEF LoopTop, TypeOK, hubVars, deviceVars, writerVars, LoopPcs
  <2>3. /\ loop[g] = "top" /\ to \in LoopPcs
        /\ staleFrames[g] = 1 => to = "finish"
        /\ UNCHANGED <<reader, thread, sinks, deviceVars, staleFrames>>
    BY <1>1, <1>2, <2>1 DEF LoopTop, hubVars, LoopPcs
  <2>. QED
    BY <2>1, <2>2, <2>3, PumpMoves DEF PumpInv
<1>3. CASE ReadFrame(g)
  <2>1. \A config \in BOOLEAN :
           [from |-> g, seq |-> delivered + 1, codecConfig |-> config] \in Frame
    BY <1>1 DEF TypeOK, Frame, Readers
  <2>2. frame' \in [Readers -> Frame]
    BY <1>1, <1>3, <2>1 DEF ReadFrame, TypeOK
  <2>3. TypeOK'
    BY <1>1, <1>3, <2>2
       DEF ReadFrame, TypeOK, hubVars, deviceVars, writerVars, LoopPcs
  <2>. QED
    BY <1>1, <1>3, <2>3, PumpMoves DEF ReadFrame, hubVars, PumpInv, LoopPcs
<1>4. CASE ReadEmpty(g)
  <2>1. PICK to \in {"finish", "top"} : loop' = [loop EXCEPT ![g] = to]
    BY <1>4 DEF ReadEmpty
  <2>2. emptyReads' \in Nat
    BY <1>1, <1>4 DEF ReadEmpty, TypeOK
  <2>3. TypeOK'
    BY <1>1, <1>4, <2>1, <2>2 DEF ReadEmpty, TypeOK, deviceVars, writerVars, LoopPcs
  <2>. QED
    BY <1>1, <1>4, <2>1, <2>3, PumpMoves DEF ReadEmpty, PumpInv, LoopPcs
<1>5. CASE ReadThrows(g)
  <2>1. TypeOK'
    BY <1>1, <1>5 DEF ReadThrows, TypeOK, hubVars, deviceVars, writerVars, LoopPcs
  <2>. QED
    BY <1>1, <1>5, <2>1, PumpMoves DEF ReadThrows, hubVars, PumpInv, LoopPcs
<1>6. CASE OfferedAll(g)
  <2>1. TypeOK'
    BY <1>1, <1>6 DEF OfferedAll, TypeOK, hubVars, deviceVars, writerVars, LoopPcs
  <2>. QED
    BY <1>1, <1>6, <2>1, PumpMoves DEF OfferedAll, hubVars, PumpInv, LoopPcs
<1>. QED
  BY <1>2, <1>3, <1>4, <1>5, <1>6

(* Taking the lock with a frame in hand: the count can only rise from zero,
   and a pump that raises it is no longer the hub's. *)
LEMMA AcceptStep ==
  ASSUME PumpInv, NEW g \in Readers, Accept(g)
  PROVE  PumpInv'
<1>1. /\ TypeOK /\ FreshInv /\ RegisteredWriterIsPumped
      /\ OpenReaderHasOneOwner /\ StaleInv /\ AtMostOneStaleFrame
  BY DEF PumpInv
<1>2. loop[g] = "got" /\ loop' = [loop EXCEPT ![g] = "offering"]
  BY DEF Accept
<1>3. staleFrames[g] = 0
  BY <1>1, <1>2 DEF StaleInv, AtMostOneStaleFrame, TypeOK
<1>4. ASSUME NEW h \in Readers
      PROVE  /\ loop'[h] = IF h = g THEN "offering" ELSE loop[h]
             /\ staleFrames'[h] = IF h = g THEN (IF reader # g THEN 1 ELSE 0)
                                  ELSE staleFrames[h]
  BY <1>1, <1>2, <1>3 DEF Accept, TypeOK
<1>5. staleFrames' \in [Readers -> Nat] /\ lastCodecConfig' \in Frame
  BY <1>1 DEF Accept, TypeOK
<1>6. TypeOK'
  BY <1>1, <1>5 DEF Accept, TypeOK, deviceVars, writerVars, LoopPcs
<1>7. FreshInv'
  BY <1>1, <1>2, <1>4 DEF Accept, FreshInv, deviceVars
<1>8. RegisteredWriterIsPumped'
  <2>1. reader # 0 => reader \in Readers
    BY <1>1, HubAssumption DEF TypeOK, Readers
  <2>. QED
    BY <1>1, <1>4, <2>1 DEF Accept, RegisteredWriterIsPumped
<1>9. OpenReaderHasOneOwner'
  BY <1>1, <1>2, <1>4 DEF Accept, OpenReaderHasOneOwner, deviceVars
<1>10. StaleInv' /\ AtMostOneStaleFrame'
  BY <1>1, <1>2, <1>4 DEF Accept, StaleInv, AtMostOneStaleFrame
<1>. QED
  BY <1>6, <1>7, <1>8, <1>9, <1>10 DEF PumpInv

(* Telling one writer after another leaves the hub alone. *)
LEMMA TellSteps ==
  ASSUME PumpInv, NEW g \in Readers, NEW w \in Writers,
         Offer(g, w) \/ FinishMark(g, w)
  PROVE  PumpInv'
<1>1. TypeOK
  BY DEF PumpInv
<1>2. CASE Offer(g, w)
  <2>1. Offered(w, frame[g]) \in Seq(Frame)
    BY <1>1, OfferedType DEF TypeOK
  <2>2. TypeOK'
    BY <1>1, <1>2, <2>1 DEF Offer, TypeOK, hubVars, deviceVars
  <2>. QED
    BY <1>2, <2>2 DEF Offer, PumpInv, hubVars, deviceVars, FreshInv, StaleInv,
       RegisteredWriterIsPumped, OpenReaderHasOneOwner, AtMostOneStaleFrame
<1>3. CASE FinishMark(g, w)
  <2>1. TypeOK'
    BY <1>1, <1>3 DEF FinishMark, TypeOK, hubVars, deviceVars
  <2>. QED
    BY <1>3, <2>1 DEF FinishMark, PumpInv, hubVars, deviceVars, FreshInv,
       StaleInv, RegisteredWriterIsPumped, OpenReaderHasOneOwner,
       AtMostOneStaleFrame
<1>. QED
  BY <1>2, <1>3

(* finish(): the pump that is still the hub's takes the reader out of it and
   owns it until it has closed it. *)
LEMMA FinishSteps ==
  ASSUME PumpInv, NEW g \in Readers,
         Finish(g) \/ FinishClose(g) \/ FinishEnd(g)
  PROVE  PumpInv'
<1>1. /\ TypeOK /\ FreshInv /\ RegisteredWriterIsPumped
      /\ OpenReaderHasOneOwner /\ StaleInv /\ AtMostOneStaleFrame
  BY DEF PumpInv
<1>2. /\ 0 \in 0..MaxReaders /\ NoFrame \in Frame /\ 0 \notin Readers
  BY HubAssumption DEF Readers, NoFrame, Frame
<1>3. CASE Finish(g) /\ reader = g
  <2>1. /\ loop[g] = "finish" /\ Forget /\ sinks' = {}
        /\ targets' = [targets EXCEPT ![g] = sinks]
        /\ loop' = [loop EXCEPT ![g] = "closing"]
    BY <1>3 DEF Finish
  <2>2. ASSUME NEW h \in Readers
        PROVE  loop'[h] = IF h = g THEN "closing" ELSE loop[h]
    BY <1>1, <2>1 DEF TypeOK
  <2>3. TypeOK'
    BY <1>1, <1>2, <1>3, <2>1
       DEF Finish, Forget, TypeOK, deviceVars, writerVars, LoopPcs
  <2>4. FreshInv'
    BY <1>1, <1>3, <2>1, <2>2, HubAssumption
       DEF Finish, Forget, FreshInv, deviceVars, TypeOK, Readers
  <2>5. RegisteredWriterIsPumped'
    BY <2>1 DEF Forget, RegisteredWriterIsPumped
  <2>6. OpenReaderHasOneOwner'
    BY <1>1, <1>2, <1>3, <2>1, <2>2
       DEF Finish, Forget, OpenReaderHasOneOwner, deviceVars
  <2>7. StaleInv' /\ AtMostOneStaleFrame'
    BY <1>1, <1>2, <1>3, <2>1, <2>2
       DEF Finish, Forget, StaleInv, AtMostOneStaleFrame
  <2>. QED
    BY <2>3, <2>4, <2>5, <2>6, <2>7 DEF PumpInv
<1>4. CASE Finish(g) /\ reader # g
  <2>1. TypeOK'
    BY <1>1, <1>4 DEF Finish, TypeOK, deviceVars, writerVars, LoopPcs
  <2>. QED
    BY <1>4, <2>1, PumpMoves DEF Finish, PumpInv, LoopPcs
<1>5. CASE FinishClose(g)
  <2>1. /\ loop[g] = "closing" /\ deviceOpen' = deviceOpen \ {g}
        /\ loop' = [loop EXCEPT ![g] = "marking"]
        /\ UNCHANGED <<reader, thread, sinks, dying, opened, staleFrames>>
    BY <1>5 DEF FinishClose, hubVars
  <2>2. ASSUME NEW h \in Readers
        PROVE  loop'[h] = IF h = g THEN "marking" ELSE loop[h]
    BY <1>1, <2>1 DEF TypeOK
  <2>3. reader # g /\ g \notin dying
    BY <1>1, <2>1 DEF OpenReaderHasOneOwner
  <2>4. TypeOK'
    BY <1>1, <1>5 DEF FinishClose, TypeOK, hubVars, writerVars, LoopPcs
  <2>5. FreshInv'
    BY <1>1, <2>1, <2>2 DEF FreshInv
  <2>6. RegisteredWriterIsPumped'
    <3>1. reader # 0 => reader \in Readers
      BY <1>1, HubAssumption DEF TypeOK, Readers
    <3>. QED
      BY <1>1, <2>1, <2>2, <2>3, <3>1 DEF RegisteredWriterIsPumped
  <2>7. OpenReaderHasOneOwner'
    BY <1>1, <2>1, <2>2, <2>3 DEF OpenReaderHasOneOwner
  <2>8. StaleInv' /\ AtMostOneStaleFrame'
    BY <1>1, <2>1, <2>2 DEF StaleInv, AtMostOneStaleFrame
  <2>. QED
    BY <2>4, <2>5, <2>6, <2>7, <2>8 DEF PumpInv
<1>6. CASE FinishEnd(g)
  <2>1. loop[g] = "marking" /\ reader # g
    BY <1>1, <1>2, <1>6 DEF FinishEnd, RegisteredWriterIsPumped
  <2>2. TypeOK'
    BY <1>1, <1>6 DEF FinishEnd, TypeOK, hubVars, deviceVars, writerVars, LoopPcs
  <2>. QED
    BY <1>6, <2>1, <2>2, PumpMoves DEF FinishEnd, hubVars, PumpInv, LoopPcs
<1>. QED
  BY <1>3, <1>4, <1>5, <1>6

(* Every step keeps the invariant. *)
LEMMA PumpStep == PumpInv /\ [Next]_vars => PumpInv'
<1> SUFFICES ASSUME PumpInv, [Next]_vars PROVE PumpInv'
  OBVIOUS
<1>1. CASE UNCHANGED vars
  BY <1>1 DEF vars, hubVars, deviceVars, loopVars, writerVars, PumpInv, TypeOK,
     FreshInv, RegisteredWriterIsPumped, OpenReaderHasOneOwner, StaleInv,
     AtMostOneStaleFrame
<1>2. CASE \E w \in Writers :
              Open(w) \/ WriteFrame(w) \/ CloseWriter(w) \/ Unregister(w)
  BY <1>2, OpenStep, WriterSteps, UnregisterStep
<1>3. CASE \E g \in Readers : CloseDying(g) \/ LoopStep(g)
  BY <1>3, CloseDyingStep, ReadSteps, AcceptStep, TellSteps, FinishSteps
     DEF LoopStep
<1>. QED
  BY <1>1, <1>2, <1>3 DEF Next

-----------------------------------------------------------------------------
(* The frames in the writers' queues *)

\* What FramesInOrder says of one queue.
InOrder(q) ==
  \A i, j \in DOMAIN q : i < j =>
     /\ ~q[j].codecConfig
     /\ q[i].from = q[j].from => q[i].seq < q[j].seq

(* Making room drops frames from the front of a queue, and leaves room. *)
LEMMA RoomProperties ==
  ASSUME NEW q \in Seq(Frame)
  PROVE  \E d \in Nat :
            /\ Room(q) \in Seq(Frame)
            /\ Len(Room(q)) + d = Len(q)
            /\ Len(Room(q)) + 1 <= QueueSize
            /\ \A i \in 1..Len(Room(q)) : Room(q)[i] = q[i + d]
<1>1. Len(q) \in Nat /\ QueueSize \in Nat \ {0}
  BY HubAssumption
<1>2. CASE Len(q) >= QueueSize
  <2> DEFINE m == Len(q) - QueueSize + 2
             r == SubSeq(q, m, Len(q))
  <2>1. m \in 1..Len(q) + 1 /\ m \in Int
    BY <1>1, <1>2
  <2>2. \A i \in m..Len(q) : q[i] \in Frame
    BY <1>1, <2>1, ElementOfSeq
  <2>3. r \in Seq(Frame)
    BY <1>1, <2>1, <2>2, SubSeqProperties
  <2>4. Len(r) = IF m <= Len(q) THEN Len(q) - m + 1 ELSE 0
    BY <1>1, <2>1, <2>2, SubSeqProperties
  <2>5. \A i \in 1..(Len(q) - m + 1) : r[i] = q[m + i - 1]
    BY <1>1, <2>1, <2>2, SubSeqProperties
  <2>6. Room(q) = r
    BY <1>2 DEF Room
  <2>7. Len(r) = QueueSize - 1 /\ m - 1 \in Nat
    BY <1>1, <1>2, <2>1, <2>4
  <2>8. \A i \in 1..Len(r) : r[i] = q[i + (m - 1)]
    BY <1>1, <1>2, <2>5, <2>7
  <2>9. Len(r) + (m - 1) = Len(q) /\ Len(r) + 1 <= QueueSize
    BY <1>1, <2>7
  <2>. QED
    BY <2>3, <2>6, <2>7, <2>8, <2>9
<1>3. CASE ~(Len(q) >= QueueSize)
  <2>1. Room(q) = q
    BY <1>3 DEF Room
  <2>2. /\ q \in Seq(Frame) /\ Len(q) + 0 = Len(q) /\ Len(q) + 1 <= QueueSize
        /\ \A i \in 1..Len(q) : q[i] = q[i + 0]
    BY <1>1, <1>3
  <2>. QED
    BY <2>1, <2>2
<1>. QED
  BY <1>2, <1>3

(* offer(): nothing gets into a queue but the frame offered, the bound holds, a
   closed writer's queue is left alone, and a frame newer than all that is
   queued of its reader leaves the queue in order. *)
LEMMA OfferedFrames ==
  ASSUME TypeOK, NEW w \in Writers, NEW f \in Frame
  PROVE  /\ w \in closed => Offered(w, f) = queue[w]
         /\ Len(queue[w]) <= QueueSize => Len(Offered(w, f)) <= QueueSize
         /\ \A i \in DOMAIN Offered(w, f) :
               Offered(w, f)[i] = f \/ Offered(w, f)[i] \in Queued(w)
         /\ InOrder(queue[w])
               /\ (\A p \in Queued(w) : p.from = f.from => p.seq < f.seq)
            => InOrder(Offered(w, f))
<1> DEFINE q == queue[w]
           o == Offered(w, f)
           r == Room(q)
<1>1. q \in Seq(Frame) /\ Len(q) \in Nat /\ DOMAIN q = 1..Len(q)
  BY DEF TypeOK
<1>2. QueueSize \in Nat \ {0}
  BY HubAssumption
<1>3. CASE w \in closed \cup sourceClosed
  <2>1. o = q
    BY <1>3 DEF Offered
  <2>. QED
    BY <2>1 DEF Queued
<1>4. CASE w \notin closed \cup sourceClosed /\ f.codecConfig
  <2>1. o = <<f>> /\ Len(o) = 1 /\ DOMAIN o = {1} /\ o[1] = f
    BY <1>4 DEF Offered
  <2>2. InOrder(o)
    BY <2>1 DEF InOrder
  <2>3. Len(o) <= QueueSize
    BY <1>2, <2>1
  <2>. QED
    BY <1>4, <2>1, <2>2, <2>3
<1>5. CASE w \notin closed \cup sourceClosed /\ ~f.codecConfig
  <2>1. o = Append(r, f)
    BY <1>5 DEF Offered
  <2>2. PICK d \in Nat :
           /\ r \in Seq(Frame) /\ Len(r) + d = Len(q)
           /\ Len(r) + 1 <= QueueSize
           /\ \A i \in 1..Len(r) : r[i] = q[i + d]
    BY <1>1, RoomProperties
  <2>3. Len(r) \in Nat
    BY <2>2
  <2>4. /\ Len(o) = Len(r) + 1 /\ DOMAIN o = 1..Len(r) + 1
        /\ o[Len(r) + 1] = f /\ \A i \in 1..Len(r) : o[i] = r[i]
    BY <2>1, <2>2, AppendProperties
  <2> HIDE DEF o, r, q
  <2>5. \A i \in 1..Len(r) : o[i] = q[i + d] /\ i + d \in DOMAIN q
    BY <1>1, <2>2, <2>3, <2>4
  <2>6. \A i \in 1..Len(r) : o[i] \in Queued(w)
    BY <2>5 DEF Queued, q
  <2>7. \A i \in DOMAIN o : o[i] = f \/ o[i] \in Queued(w)
    BY <2>3, <2>4, <2>6
  <2>8. ASSUME InOrder(q), \A p \in Queued(w) : p.from = f.from => p.seq < f.seq,
               NEW i \in DOMAIN o, NEW j \in DOMAIN o, i < j
        PROVE  ~o[j].codecConfig /\ (o[i].from = o[j].from => o[i].seq < o[j].seq)
    <3>1. i \in 1..Len(r) /\ i \in Nat /\ j \in Nat
      BY <2>3, <2>4, <2>8
    <3>2. CASE j = Len(r) + 1
      BY <1>5, <2>4, <2>6, <2>8, <3>1, <3>2
    <3>3. CASE j # Len(r) + 1
      <4>1. j \in 1..Len(r)
        BY <2>3, <2>4, <3>3
      <4>2. i + d < j + d
        BY <2>2, <2>8, <3>1
      <4>. QED
        BY <2>5, <2>8, <3>1, <4>1, <4>2 DEF InOrder
    <3>. QED
      BY <3>2, <3>3
  <2>9. Len(o) <= QueueSize
    BY <2>2, <2>4
  <2>10. InOrder(q) /\ (\A p \in Queued(w) : p.from = f.from => p.seq < f.seq)
            => InOrder(o)
    BY <2>8 DEF InOrder
  <2>. QED
    BY <1>5, <2>7, <2>9, <2>10 DEF o, q
<1>. QED
  BY <1>3, <1>4, <1>5

(* Nothing is queued, in hand or remembered in the initial state. *)
LEMMA InitQueue == Init => QueueInv
<1> SUFFICES ASSUME Init PROVE QueueInv
  OBVIOUS
<1>1. ASSUME NEW w \in Writers PROVE Queued(w) = {} /\ queue[w] = <<>>
  <2>1. queue[w] = <<>>
    BY DEF Init
  <2>2. DOMAIN queue[w] = {}
    BY <2>1
  <2>. QED
    BY <2>1, <2>2 DEF Queued
<1>. QED
  BY <1>1, HubAssumption DEF Init, QueueInv, NotNewer, Older, Readers, NoFrame

(* Steps that put nothing into a queue and give no pump a frame or a writer. *)
LEMMA QueueKept ==
  ASSUME TypeOK, QueueInv, created' = created, sinks' \subseteq created,
         frame' = frame, delivered' = delivered,
         lastCodecConfig' \in {lastCodecConfig, NoFrame},
         \A w \in Writers : queue'[w] = queue[w] \/ Queued(w)' \subseteq Queued(w),
         \A w \in Writers : queue[w] = <<>> => queue'[w] = <<>>,
         \A g \in Readers :
            /\ targets'[g] \subseteq created
            /\ loop'[g] \in {"got", "offering"}
                 => loop'[g] = loop[g] /\ targets'[g] \subseteq targets[g]
  PROVE  QueueInv'
<1>1. \A w \in Writers : Queued(w)' \subseteq Queued(w)
  BY DEF Queued
<1>2. \A w \in Writers \ created : queue'[w] = <<>>
  BY DEF QueueInv
<1>3. ASSUME NEW g \in Readers
      PROVE  /\ frame'[g].seq <= delivered'
             /\ loop'[g] \in {"got", "offering"} => frame'[g].from = g
             /\ NotNewer(lastCodecConfig, g)'
             /\ loop'[g] = "got" => Older(lastCodecConfig, g)'
  BY HubAssumption DEF QueueInv, NotNewer, Older, Readers, NoFrame
<1>4. ASSUME NEW g \in Readers, NEW w \in Writers, NEW f \in Queued(w)'
      PROVE  /\ NotNewer(f, g)'
             /\ loop'[g] = "got" \/ (loop'[g] = "offering" /\ w \in targets'[g])
                  => Older(f, g)'
  <2>1. f \in Queued(w)
    BY <1>1
  <2>. QED
    BY <2>1 DEF QueueInv, NotNewer, Older
<1>. QED
  BY <1>2, <1>3, <1>4 DEF QueueInv

(* open(): what a new writer is given is older than all that the pumps have in
   hand, and no pump was about to offer it anything. *)
LEMMA OpenQueue ==
  ASSUME TypeOK, QueueInv, NEW w \in Writers, Open(w)
  PROVE  QueueInv'
<1>1. /\ w \notin created /\ created' = created \cup {w} /\ sinks' = sinks \cup {w}
      /\ UNCHANGED <<lastCodecConfig, frame, targets, delivered>>
      /\ queue' = IF lastCodecConfig = NoFrame THEN queue
                  ELSE [queue EXCEPT ![w] = Offered(w, lastCodecConfig)]
  BY DEF Open
<1>2. queue[w] = <<>> /\ Queued(w) = {}
  BY <1>1 DEF QueueInv, Queued
<1>3. ASSUME NEW v \in Writers, NEW f \in Queued(v)'
      PROVE  f \in Queued(v) \/ (v = w /\ f = lastCodecConfig)
  <2>1. CASE v = w /\ lastCodecConfig # NoFrame
    <3>1. queue'[v] = Offered(w, lastCodecConfig) /\ lastCodecConfig \in Frame
      BY <1>1, <2>1 DEF TypeOK
    <3>2. PICK i \in DOMAIN queue'[v] : f = queue'[v][i]
      BY <1>3 DEF Queued
    <3>. QED
      BY <2>1, <3>1, <3>2, OfferedFrames
  <2>2. CASE ~(v = w /\ lastCodecConfig # NoFrame)
    <3>1. queue'[v] = queue[v]
      BY <1>1, <2>2 DEF TypeOK
    <3>. QED
      BY <3>1 DEF Queued
  <2>. QED
    BY <2>1, <2>2
<1>4. \A v \in Writers \ created' : queue'[v] = <<>>
  BY <1>1 DEF QueueInv, TypeOK
<1>5. \A g \in Readers : loop'[g] \in {"got", "offering"} => loop'[g] = loop[g]
  BY DEF Open, TypeOK
<1>6. ASSUME NEW g \in Readers, NEW v \in Writers, NEW f \in Queued(v)'
      PROVE  /\ NotNewer(f, g)'
             /\ loop'[g] = "got" \/ (loop'[g] = "offering" /\ v \in targets'[g])
                  => Older(f, g)'
  <2>1. targets[g] \subseteq created /\ NotNewer(lastCodecConfig, g)
        /\ (loop[g] = "got" => Older(lastCodecConfig, g))
    BY DEF QueueInv
  <2>2. CASE f \in Queued(v)
    BY <1>1, <1>5, <2>2 DEF QueueInv, NotNewer, Older
  <2>3. CASE v = w /\ f = lastCodecConfig
    BY <1>1, <1>5, <2>1, <2>3 DEF NotNewer, Older
  <2>. QED
    BY <1>3, <2>2, <2>3
<1>7. ASSUME NEW g \in Readers
      PROVE  /\ targets'[g] \subseteq created' /\ frame'[g].seq <= delivered'
             /\ loop'[g] \in {"got", "offering"} => frame'[g].from = g
             /\ NotNewer(lastCodecConfig, g)'
             /\ loop'[g] = "got" => Older(lastCodecConfig, g)'
  BY <1>1, <1>5 DEF QueueInv, NotNewer, Older
<1>8. sinks' \subseteq created'
  BY <1>1 DEF QueueInv
<1>. QED
  BY <1>4, <1>6, <1>7, <1>8 DEF QueueInv

(* readFrame(): a frame just read is newer than everything. *)
LEMMA ReadQueue ==
  ASSUME TypeOK, QueueInv, NEW g \in Readers, ReadFrame(g)
  PROVE  QueueInv'
<1>1. PICK config \in BOOLEAN :
         frame' = [frame EXCEPT ![g] = [from |-> g, seq |-> delivered + 1,
                                        codecConfig |-> config]]
  BY DEF ReadFrame
<1>2. /\ loop' = [loop EXCEPT ![g] = "got"] /\ delivered' = delivered + 1
      /\ UNCHANGED <<sinks, created, lastCodecConfig, targets, queue>>
  BY DEF ReadFrame, hubVars, writerVars
<1>3. ASSUME NEW h \in Readers
      PROVE  /\ h # g => frame'[h] = frame[h] /\ loop'[h] = loop[h]
             /\ h = g => frame'[h].from = g /\ frame'[h].seq = delivered + 1
             /\ frame[h] \in Frame /\ frame[h].seq \in Nat /\ delivered \in Nat
             /\ frame[h].seq <= delivered
  BY <1>1, <1>2 DEF TypeOK, QueueInv, Frame
<1>4. ASSUME NEW f \in Frame, NEW h \in Readers, NotNewer(f, h)
      PROVE  NotNewer(f, h)' /\ (h = g => Older(f, h)')
                /\ (h # g => (Older(f, h) => Older(f, h)'))
  <2>1. f.seq \in Nat
    BY DEF Frame
  <2>. QED
    BY <1>3, <1>4, <2>1 DEF NotNewer, Older
<1>5. \A w \in Writers : Queued(w)' = Queued(w) /\ Queued(w) \subseteq Frame
  BY <1>2, ElementOfSeq DEF Queued, TypeOK
<1>6. lastCodecConfig \in Frame
  BY DEF TypeOK
<1>7. ASSUME NEW h \in Readers
      PROVE  /\ targets'[h] \subseteq created' /\ frame'[h].seq <= delivered'
             /\ loop'[h] \in {"got", "offering"} => frame'[h].from = h
             /\ NotNewer(lastCodecConfig, h)'
             /\ loop'[h] = "got" => Older(lastCodecConfig, h)'
  <2>1. NotNewer(lastCodecConfig, h) /\ targets[h] \subseteq created
        /\ (loop[h] = "got" => Older(lastCodecConfig, h))
        /\ (loop[h] \in {"got", "offering"} => frame[h].from = h)
    BY DEF QueueInv
  <2>2. NotNewer(lastCodecConfig, h)' /\ (h = g => Older(lastCodecConfig, h)')
        /\ (h # g => (Older(lastCodecConfig, h) => Older(lastCodecConfig, h)'))
    BY <1>2, <1>4, <1>6, <2>1 DEF NotNewer, Older
  <2>3. frame'[h].seq <= delivered'
    BY <1>2, <1>3
  <2>. QED
    BY <1>2, <1>3, <2>1, <2>2, <2>3
<1>8. ASSUME NEW h \in Readers, NEW w \in Writers, NEW f \in Queued(w)'
      PROVE  /\ NotNewer(f, h)'
             /\ loop'[h] = "got" \/ (loop'[h] = "offering" /\ w \in targets'[h])
                  => Older(f, h)'
  <2>1. f \in Queued(w) /\ f \in Frame
    BY <1>5
  <2>2. NotNewer(f, h)
        /\ (loop[h] = "got" \/ (loop[h] = "offering" /\ w \in targets[h]) => Older(f, h))
    BY <2>1 DEF QueueInv
  <2>. QED
    BY <1>2, <1>3, <1>4, <2>1, <2>2
<1>. QED
  BY <1>2, <1>7, <1>8 DEF QueueInv

(* Taking the lock with a frame: it becomes the latest configuration, or not,
   and it is newer than what the registered writers still hold of its reader. *)
LEMMA AcceptQueue ==
  ASSUME TypeOK, QueueInv, NEW g \in Readers, Accept(g)
  PROVE  QueueInv'
<1>1. /\ loop[g] = "got" /\ loop' = [loop EXCEPT ![g] = "offering"]
      /\ targets' = [targets EXCEPT ![g] = sinks]
      /\ lastCodecConfig' \in {frame[g], lastCodecConfig}
      /\ UNCHANGED <<sinks, created, frame, delivered, queue>>
  BY DEF Accept, writerVars
<1>2. frame[g].from = g /\ frame[g].seq \in Nat
  BY <1>1 DEF QueueInv, TypeOK, Frame
<1>3. ASSUME NEW h \in Readers
      PROVE  /\ loop'[h] = IF h = g THEN "offering" ELSE loop[h]
             /\ targets'[h] = IF h = g THEN sinks ELSE targets[h]
  BY <1>1 DEF TypeOK
<1>4. ASSUME NEW h \in Readers
      PROVE  /\ targets'[h] \subseteq created' /\ frame'[h].seq <= delivered'
             /\ loop'[h] \in {"got", "offering"} => frame'[h].from = h
             /\ NotNewer(lastCodecConfig, h)'
             /\ loop'[h] = "got" => Older(lastCodecConfig, h)'
  BY <1>1, <1>2, <1>3 DEF QueueInv, NotNewer, Older
<1>5. ASSUME NEW h \in Readers, NEW w \in Writers, NEW f \in Queued(w)'
      PROVE  /\ NotNewer(f, h)'
             /\ loop'[h] = "got" \/ (loop'[h] = "offering" /\ w \in targets'[h])
                  => Older(f, h)'
  BY <1>1, <1>3 DEF QueueInv, NotNewer, Older, Queued
<1>. QED
  BY <1>1, <1>4, <1>5 DEF QueueInv

(* offer(): the frame a writer is given is now the newest it holds of its
   reader, and its pump offers it to that writer no more. *)
LEMMA OfferQueue ==
  ASSUME TypeOK, QueueInv, NEW g \in Readers, NEW w \in Writers, Offer(g, w)
  PROVE  QueueInv'
<1>1. /\ loop[g] = "offering" /\ w \in targets[g]
      /\ queue' = [queue EXCEPT ![w] = Offered(w, frame[g])]
      /\ targets' = [targets EXCEPT ![g] = @ \ {w}]
      /\ UNCHANGED <<sinks, created, frame, delivered, lastCodecConfig, loop>>
  BY DEF Offer, hubVars
<1>2. frame[g].from = g /\ frame[g].seq \in Nat /\ frame[g] \in Frame /\ w \in created
  BY <1>1 DEF QueueInv, TypeOK, Frame
<1>3. ASSUME NEW v \in Writers, NEW f \in Queued(v)'
      PROVE  f \in Queued(v) \/ (v = w /\ f = frame[g])
  <2>1. PICK i \in DOMAIN queue'[v] : f = queue'[v][i]
    BY <1>3 DEF Queued
  <2>2. CASE v = w
    <3>1. queue'[v] = Offered(w, frame[g])
      BY <1>1, <2>2 DEF TypeOK
    <3>. QED
      BY <1>2, <2>1, <2>2, <3>1, OfferedFrames
  <2>3. CASE v # w
    <3>1. queue'[v] = queue[v]
      BY <1>1, <2>3 DEF TypeOK
    <3>. QED
      BY <2>1, <3>1 DEF Queued
  <2>. QED
    BY <2>2, <2>3
<1>4. \A v \in Writers \ created' : queue'[v] = <<>>
  BY <1>1, <1>2 DEF QueueInv, TypeOK
<1>5. ASSUME NEW h \in Readers
      PROVE  targets'[h] = IF h = g THEN targets[h] \ {w} ELSE targets[h]
  BY <1>1 DEF TypeOK
<1>6. ASSUME NEW h \in Readers
      PROVE  /\ targets'[h] \subseteq created' /\ frame'[h].seq <= delivered'
             /\ loop'[h] \in {"got", "offering"} => frame'[h].from = h
             /\ NotNewer(lastCodecConfig, h)'
             /\ loop'[h] = "got" => Older(lastCodecConfig, h)'
  BY <1>1, <1>5 DEF QueueInv, NotNewer, Older
<1>7. ASSUME NEW h \in Readers, NEW v \in Writers, NEW f \in Queued(v)'
      PROVE  /\ NotNewer(f, h)'
             /\ loop'[h] = "got" \/ (loop'[h] = "offering" /\ v \in targets'[h])
                  => Older(f, h)'
  <2>1. CASE f \in Queued(v)
    BY <1>1, <1>5, <2>1 DEF QueueInv, NotNewer, Older
  <2>2. CASE v = w /\ f = frame[g]
    BY <1>1, <1>2, <1>5, <2>2 DEF NotNewer, Older
  <2>. QED
    BY <1>3, <2>1, <2>2
<1>. QED
  BY <1>1, <1>4, <1>6, <1>7 DEF QueueInv

(* writeFrame(): what is left of a queue is a later piece of it. *)
LEMMA TailOfQueue ==
  ASSUME TypeOK, NEW w \in Writers, WriteFrame(w)
  PROVE  /\ queue'[w] = Tail(queue[w]) /\ \A v \in Writers : v # w => queue'[v] = queue[v]
         /\ Len(queue'[w]) <= Len(queue[w])
         /\ \A i \in DOMAIN queue'[w] :
               i \in Nat /\ i + 1 \in DOMAIN queue[w] /\ queue'[w][i] = queue[w][i + 1]
<1>1. queue[w] \in Seq(Frame) /\ queue[w] # <<>>
      /\ queue' = [queue EXCEPT ![w] = Tail(queue[w])]
  BY DEF WriteFrame, TypeOK
<1>2. queue'[w] = Tail(queue[w]) /\ \A v \in Writers : v # w => queue'[v] = queue[v]
  BY <1>1 DEF TypeOK
<1>3. /\ Tail(queue[w]) \in Seq(Frame)
      /\ Len(Tail(queue[w])) = Len(queue[w]) - 1
      /\ \A i \in 1..Len(Tail(queue[w])) : Tail(queue[w])[i] = queue[w][i + 1]
  BY <1>1, HeadTailProperties
<1>4. /\ Len(queue[w]) \in Nat /\ DOMAIN queue[w] = 1..Len(queue[w])
      /\ DOMAIN Tail(queue[w]) = 1..Len(Tail(queue[w]))
  BY <1>1, <1>3
<1>. QED
  BY <1>2, <1>3, <1>4

(* Every step keeps what the queues and the frames in hand promise. *)
LEMMA QueueStep == PumpInv /\ QueueInv /\ [Next]_vars => QueueInv'
<1> SUFFICES ASSUME TypeOK, QueueInv, [Next]_vars PROVE QueueInv'
  BY DEF PumpInv
<1>1. CASE UNCHANGED vars
  BY <1>1, QueueKept
     DEF vars, hubVars, loopVars, writerVars, QueueInv
<1>2. ASSUME NEW w \in Writers, Open(w) PROVE QueueInv'
  BY <1>2, OpenQueue
<1>3. ASSUME NEW w \in Writers, WriteFrame(w) PROVE QueueInv'
  <2>1. Queued(w)' \subseteq Queued(w)
    BY <1>3, TailOfQueue DEF Queued
  <2>2. \A v \in Writers : /\ queue'[v] = queue[v] \/ Queued(v)' \subseteq Queued(v)
                           /\ queue[v] = <<>> => queue'[v] = <<>>
    BY <1>3, <2>1, TailOfQueue DEF WriteFrame
  <2>. QED
    BY <1>3, <2>2, QueueKept DEF WriteFrame, hubVars, loopVars, QueueInv
<1>4. ASSUME NEW w \in Writers, CloseWriter(w) PROVE QueueInv'
  <2>1. \A v \in Writers : /\ queue'[v] = queue[v] \/ Queued(v)' \subseteq Queued(v)
                           /\ queue[v] = <<>> => queue'[v] = <<>>
    BY <1>4 DEF CloseWriter, TypeOK, Queued
  <2>. QED
    BY <1>4, <2>1, QueueKept DEF CloseWriter, hubVars, loopVars, QueueInv
<1>5. ASSUME NEW w \in Writers, Unregister(w) PROVE QueueInv'
  BY <1>5, QueueKept DEF Unregister, Forget, loopVars, QueueInv
<1>6. ASSUME NEW g \in Readers, CloseDying(g) PROVE QueueInv'
  BY <1>6, QueueKept DEF CloseDying, hubVars, loopVars, writerVars, QueueInv
<1>7. ASSUME NEW g \in Readers, LoopStep(g) PROVE QueueInv'
  <2>1. CASE ReadFrame(g)
    BY <2>1, ReadQueue
  <2>2. CASE Accept(g)
    BY <2>2, AcceptQueue
  <2>3. ASSUME NEW w \in Writers, Offer(g, w) PROVE QueueInv'
    BY <2>3, OfferQueue
  <2>4. CASE LoopTop(g) \/ ReadEmpty(g) \/ ReadThrows(g) \/ OfferedAll(g)
               \/ FinishClose(g) \/ FinishEnd(g)
    <3>1. /\ UNCHANGED <<created, sinks, frame, delivered, lastCodecConfig, queue, targets>>
          /\ \A h \in Readers : loop'[h] \in {"got", "offering"} => loop'[h] = loop[h]
      BY <2>4 DEF LoopTop, ReadEmpty, ReadThrows, OfferedAll, FinishClose, FinishEnd,
                  hubVars, writerVars, TypeOK
    <3>. QED
      BY <3>1, QueueKept DEF QueueInv
  <2>5. CASE Finish(g)
    <3>1. /\ UNCHANGED <<created, frame, delivered, queue>>
          /\ lastCodecConfig' \in {lastCodecConfig, NoFrame}
          /\ sinks' \subseteq sinks
      BY <2>5 DEF Finish, Forget, writerVars
    <3>2. \A h \in Readers :
             /\ targets'[h] \in {targets[h], sinks}
             /\ loop'[h] \in {"got", "offering"}
                  => loop'[h] = loop[h] /\ targets'[h] = targets[h]
      BY <2>5 DEF Finish, TypeOK
    <3>. QED
      BY <3>1, <3>2, QueueKept DEF QueueInv
  <2>6. ASSUME NEW w \in Writers, FinishMark(g, w) PROVE QueueInv'
    <3>1. \A h \in Readers : targets'[h] \subseteq targets[h]
      BY <2>6 DEF FinishMark, TypeOK
    <3>. QED
      BY <2>6, <3>1, QueueKept DEF FinishMark, hubVars, QueueInv
  <2>. QED
    BY <1>7, <2>1, <2>2, <2>3, <2>4, <2>5, <2>6 DEF LoopStep
<1>. QED
  BY <1>1, <1>2, <1>3, <1>4, <1>5, <1>6, <1>7 DEF Next

(* Frames stay in order: a queue only loses frames from its front, is emptied, or
   gains at its end a frame newer than all it holds of the same reader. *)
LEMMA FramesStep == TypeOK /\ QueueInv /\ FramesInOrder /\ [Next]_vars => FramesInOrder'
<1> SUFFICES ASSUME TypeOK, QueueInv, FramesInOrder, [Next]_vars,
                    NEW w \in Writers
             PROVE  /\ Len(queue'[w]) <= QueueSize
                    /\ w \in closed' => queue'[w] = <<>>
                    /\ InOrder(queue'[w])
  BY DEF FramesInOrder, InOrder
<1>1. /\ Len(queue[w]) <= QueueSize /\ (w \in closed => queue[w] = <<>>)
      /\ InOrder(queue[w])
  BY DEF FramesInOrder, InOrder
<1>2. CASE queue'[w] = queue[w] /\ (w \in closed' => w \in closed)
  BY <1>1, <1>2
<1>3. CASE WriteFrame(w)
  <2>1. /\ Len(queue'[w]) <= Len(queue[w])
        /\ \A i \in DOMAIN queue'[w] :
              i \in Nat /\ i + 1 \in DOMAIN queue[w] /\ queue'[w][i] = queue[w][i + 1]
    BY <1>3, TailOfQueue
  <2>2. Len(queue'[w]) \in Nat /\ Len(queue[w]) \in Nat /\ QueueSize \in Nat
    BY <1>3, TailOfQueue, HubAssumption DEF WriteFrame, TypeOK
  <2>3. InOrder(queue'[w])
    <3>1. ASSUME NEW i \in DOMAIN queue'[w], NEW j \in DOMAIN queue'[w], i < j
          PROVE  /\ ~queue'[w][j].codecConfig
                 /\ queue'[w][i].from = queue'[w][j].from
                      => queue'[w][i].seq < queue'[w][j].seq
      <4>1. i + 1 < j + 1
        BY <2>1, <3>1
      <4>. QED
        BY <1>1, <2>1, <4>1 DEF InOrder
    <3>. QED
      BY <3>1 DEF InOrder
  <2>4. w \notin closed'
    BY <1>3 DEF WriteFrame
  <2>5. Len(queue'[w]) <= QueueSize
    BY <1>1, <2>1, <2>2
  <2>. QED
    BY <2>3, <2>4, <2>5
<1>4. CASE CloseWriter(w)
  <2>1. queue'[w] = <<>> /\ Len(queue'[w]) = 0
    BY <1>4 DEF CloseWriter, TypeOK
  <2>. QED
    BY <2>1, HubAssumption DEF InOrder
<1>5. ASSUME NEW f \in Frame, queue'[w] = Offered(w, f), closed' = closed,
             \A p \in Queued(w) : p.from = f.from => p.seq < f.seq
      PROVE  /\ Len(queue'[w]) <= QueueSize
             /\ w \in closed' => queue'[w] = <<>>
             /\ InOrder(queue'[w])
  BY <1>1, <1>5, OfferedFrames
<1>6. CASE Open(w)
  <2>1. Queued(w) = {}
    BY <1>6 DEF Open, QueueInv, Queued
  <2>2. /\ closed' = closed /\ lastCodecConfig \in Frame
        /\ queue'[w] = queue[w] \/ queue'[w] = Offered(w, lastCodecConfig)
    BY <1>6 DEF Open, TypeOK
  <2>. QED
    BY <1>2, <1>5, <2>1, <2>2
<1>7. ASSUME NEW g \in Readers, Offer(g, w)
      PROVE  /\ Len(queue'[w]) <= QueueSize
             /\ w \in closed' => queue'[w] = <<>>
             /\ InOrder(queue'[w])
  <2>1. /\ frame[g] \in Frame /\ closed' = closed
        /\ queue'[w] = Offered(w, frame[g])
    BY <1>7 DEF Offer, TypeOK
  <2>2. \A p \in Queued(w) : p.from = frame[g].from => p.seq < frame[g].seq
    BY <1>7 DEF Offer, QueueInv, Older
  <2>. QED
    BY <1>5, <2>1, <2>2
<1>8. \/ queue'[w] = queue[w] /\ (w \in closed' => w \in closed)
      \/ WriteFrame(w) \/ CloseWriter(w) \/ Open(w)
      \/ \E g \in Readers : Offer(g, w)
  <2>1. CASE UNCHANGED vars
    BY <2>1 DEF vars, writerVars
  <2>2. ASSUME NEW v \in Writers,
               Open(v) \/ WriteFrame(v) \/ CloseWriter(v) \/ Unregister(v), v # w
        PROVE  queue'[w] = queue[w] /\ (w \in closed' => w \in closed)
    BY <2>2 DEF Open, WriteFrame, CloseWriter, Unregister, TypeOK
  <2>3. CASE Unregister(w)
    BY <2>3 DEF Unregister
  <2>4. ASSUME NEW g \in Readers, CloseDying(g)
        PROVE  queue' = queue /\ closed' = closed
    BY <2>4 DEF CloseDying, writerVars
  <2>5. ASSUME NEW g \in Readers, NEW v \in Writers, Offer(g, v), v # w
        PROVE  queue'[w] = queue[w] /\ closed' = closed
    BY <2>5 DEF Offer, TypeOK
  <2>6. ASSUME NEW g \in Readers, LoopStep(g), ~\E v \in Writers : Offer(g, v)
        PROVE  queue' = queue /\ closed' = closed
    BY <2>6 DEF LoopStep, LoopTop, ReadFrame, ReadEmpty, ReadThrows, Accept, OfferedAll,
                Finish, FinishClose, FinishEnd, FinishMark, writerVars
  <2>. QED
    BY <2>1, <2>2, <2>3, <2>4, <2>5, <2>6 DEF Next
<1>. QED
  BY <1>2, <1>3, <1>4, <1>6, <1>7, <1>8

-----------------------------------------------------------------------------
(* The theorems *)

(* HubInv is an invariant of the hub: its parts hold together in every
   reachable state, however opens, closes and the pumps' reads interleave. *)
THEOREM HubInvariant == Spec => []HubInv
<1>1. Init => HubInv
  BY InitPump, InitQueue DEF HubInv
<1>2. HubInv /\ [Next]_vars => HubInv'
  BY PumpStep, QueueStep DEF HubInv
<1>. QED
  BY <1>1, <1>2, PTL DEF Spec

(* The types hold throughout. *)
THEOREM HubTypes == Spec => []TypeOK
<1>1. HubInv => TypeOK
  BY DEF HubInv, PumpInv
<1>. QED
  BY <1>1, HubInvariant, PTL

(* A writer that open() registered and nobody unregistered always has the pump
   of the hub's current reader behind it, still in its loop. *)
THEOREM RegisteredWritersArePumped == Spec => []RegisteredWriterIsPumped
<1>1. HubInv => RegisteredWriterIsPumped
  BY DEF HubInv, PumpInv
<1>. QED
  BY <1>1, HubInvariant, PTL

(* An open reader has exactly one party that will close it, so it is neither
   leaked nor closed by two of them. *)
THEOREM OpenReadersHaveOneOwner == Spec => []OpenReaderHasOneOwner
<1>1. HubInv => OpenReaderHasOneOwner
  BY DEF HubInv, PumpInv
<1>. QED
  BY <1>1, HubInvariant, PTL

(* A pump that was replaced delivers at most the one frame it was reading. *)
THEOREM OneStaleFrameAtMost == Spec => []AtMostOneStaleFrame
<1>1. HubInv => AtMostOneStaleFrame
  BY DEF HubInv, PumpInv
<1>. QED
  BY <1>1, HubInvariant, PTL

(* Every writer's queue is bounded and in the order its readers delivered, with a
   configuration only in front, and a closed writer's queue is empty, however late
   a pump that was replaced offers what it was reading. *)
THEOREM FramesAreInOrder == Spec => []FramesInOrder
<1>1. Init => FramesInOrder
  <2>1. ASSUME Init, NEW w \in Writers
        PROVE  queue[w] = <<>> /\ Len(queue[w]) = 0 /\ DOMAIN queue[w] = {}
    <3>1. queue[w] = <<>>
      BY <2>1 DEF Init
    <3>. QED
      BY <3>1
  <2>2. 0 <= QueueSize
    BY HubAssumption
  <2>. QED
    BY <2>1, <2>2 DEF FramesInOrder
<1>2. HubInv => TypeOK /\ QueueInv
  BY DEF HubInv, PumpInv
<1>. QED
  BY <1>1, <1>2, FramesStep, HubInvariant, PTL DEF Spec
=============================================================================
