------------------------ MODULE XrealImuStreamProofs ------------------------
(* Proofs about the IMU stream, for any number of URBs and any queue size. *)
EXTENDS XrealImuStream, SequenceTheorems, TLAPS

(* ImuInv but for RestartInv. *)
StreamInv ==
  /\ TypeOK
  /\ ActiveCountsUrbs
  /\ QueueIsFresh
  /\ CountInv
  /\ OrderInv
  /\ CloseInv

(* Discarding appends empty completions and nothing else. *)
LEMMA CompleteAllAppendsZeros ==
  ASSUME inFlight \in Nat, completed \in Seq(Nat), CompleteAll
  PROVE  /\ inFlight' = 0
         /\ completed' \in Seq(Nat)
         /\ Len(completed') = Len(completed) + inFlight
         /\ \A i \in DOMAIN completed' : completed'[i] # 0 =>
               i \in DOMAIN completed /\ completed'[i] = completed[i]
<1> DEFINE zeros == [i \in 1..inFlight |-> 0]
<1>1. zeros \in Seq(Nat) /\ Len(zeros) = inFlight
  <2>1. zeros \in [1..inFlight -> Nat]
    OBVIOUS
  <2>. QED
    BY <2>1
<1>2. inFlight' = 0 /\ completed' = completed \o zeros
  BY DEF CompleteAll
<1>3. /\ completed' \in Seq(Nat)
      /\ Len(completed') = Len(completed) + inFlight
      /\ \A i \in 1..Len(completed) + inFlight :
            completed'[i] = IF i <= Len(completed) THEN completed[i]
                            ELSE zeros[i - Len(completed)]
  BY <1>1, <1>2, ConcatProperties
<1>4. \A i \in DOMAIN completed' : completed'[i] # 0 =>
         i \in DOMAIN completed /\ completed'[i] = completed[i]
  <2>1. /\ DOMAIN completed' = 1..Len(completed) + inFlight
        /\ DOMAIN completed = 1..Len(completed) /\ Len(completed) \in Nat
    BY <1>3, LenProperties
  <2>. QED
    BY <1>3, <2>1
<1>. QED
  BY <1>2, <1>3, <1>4

(* The initial state satisfies the invariant. *)
LEMMA InitStream == Init => StreamInv
<1> SUFFICES ASSUME Init PROVE StreamInv
  OBVIOUS
<1> USE DEF Init
<1>1. TypeOK
  <2>1. queue \in Seq(Nat) /\ completed \in Seq(Nat)
    BY EmptySeq
  <2>2. submitted \in 0..Urbs
    BY ImuAssumption
  <2>3. /\ starter \in StarterPcs /\ closer \in CloserPcs /\ reader \in ReaderPcs
        /\ running \in BOOLEAN /\ streaming \in BOOLEAN /\ sinkSet \in BOOLEAN
        /\ unplugged \in BOOLEAN /\ pollFailed \in BOOLEAN
        /\ lateStart \in BOOLEAN /\ terminated \in BOOLEAN
    BY Zenon DEF ReaderPcs, StarterPcs, CloserPcs
  <2>4. /\ sinkCalls \in Nat /\ starts \in Nat /\ active \in Int /\ urb \in Nat
        /\ taken \in Nat /\ sunk \in Nat /\ inFlight \in Nat /\ reports \in Nat
    OBVIOUS
  <2>. QED
    BY <2>1, <2>2, <2>3, <2>4, Zenon DEF TypeOK
<1>2. ActiveCountsUrbs /\ QueueIsFresh
  BY ImuAssumption DEF ActiveCountsUrbs, QueueIsFresh
<1>3. CountInv
  BY DEF CountInv
<1>4. OrderInv
  <2>1. DOMAIN completed = {} /\ DOMAIN queue = {}
    OBVIOUS
  <2>. QED
    BY <2>1 DEF OrderInv
<1>5. CloseInv
  BY DEF CloseInv
<1>. QED
  BY <1>1, <1>2, <1>3, <1>4, <1>5 DEF StreamInv

(* Stuttering, and the steps of the program that only move program counters
   or flags. *)
LEMMA ControlSteps ==
  ASSUME StreamInv,
         \/ StartCheck \/ StartExchange \/ StartSpawn \/ PollWakes \/ PollFails
         \/ LeaveSink \/ ReaderEnd \/ SetSink \/ CloseSinks \/ CloseFlag
         \/ CloseStop \/ CloseJoin \/ CloseRelease \/ UNCHANGED vars
  PROVE  StreamInv'
<1> USE DEF StreamInv, TypeOK, flagVars, sinkVars, startVars, readerVars, dataVars,
            kernelVars
<1>1. CASE StartCheck
  BY <1>1 DEF StartCheck, StarterPcs, ActiveCountsUrbs, QueueIsFresh, CountInv,
              OrderInv, CloseInv
<1>2. CASE StartExchange
  BY <1>2 DEF StartExchange, StarterPcs, ActiveCountsUrbs, QueueIsFresh, CountInv,
              OrderInv, CloseInv
<1>3. CASE StartSpawn
  <2>1. CASE reader = "none"
    <3>1. /\ reader' = "submit" /\ submitted' = 0 /\ active' = 0
          /\ lateStart' = (lateStart \/ closer \in {"release", "closed"})
          /\ UNCHANGED <<terminated, flagVars, sinkVars, starts, closer, urb,
                         pollFailed, dataVars, kernelVars>>
      BY <1>3, <2>1 DEF StartSpawn
    <3>2. TypeOK' /\ QueueIsFresh'
      BY <1>3, <3>1, ImuAssumption DEF StartSpawn, StarterPcs, ReaderPcs, QueueIsFresh
    <3>3. ActiveCountsUrbs' /\ CountInv'
      BY <2>1, <3>1 DEF ActiveCountsUrbs, CountInv
    <3>4. OrderInv'
      BY <3>1 DEF OrderInv
    <3>5. CloseInv'
      BY <2>1, <3>1 DEF CloseInv
    <3>. QED
      BY <3>2, <3>3, <3>4, <3>5
  <2>2. CASE reader # "none"
    BY <1>3, <2>2 DEF StartSpawn, StarterPcs, ActiveCountsUrbs, QueueIsFresh, CountInv,
                      OrderInv, CloseInv
  <2>. QED
    BY <2>1, <2>2
<1>4. CASE PollWakes
  BY <1>4 DEF PollWakes, ReaderPcs, ActiveCountsUrbs, QueueIsFresh, CountInv,
              OrderInv, CloseInv
<1>5. CASE PollFails
  BY <1>5 DEF PollFails, ReaderPcs, ActiveCountsUrbs, QueueIsFresh, CountInv,
              OrderInv, CloseInv
<1>6. CASE LeaveSink
  BY <1>6 DEF LeaveSink, ReaderPcs, ActiveCountsUrbs, QueueIsFresh, CountInv,
              OrderInv, CloseInv
<1>7. CASE ReaderEnd
  BY <1>7 DEF ReaderEnd, ReaderPcs, ActiveCountsUrbs, QueueIsFresh, CountInv,
              OrderInv, CloseInv
<1>8. CASE SetSink
  BY <1>8 DEF SetSink, ActiveCountsUrbs, QueueIsFresh, CountInv, OrderInv, CloseInv
<1>9. CASE CloseSinks
  BY <1>9 DEF CloseSinks, CloserPcs, ActiveCountsUrbs, QueueIsFresh, CountInv,
              OrderInv, CloseInv
<1>10. CASE CloseFlag
  BY <1>10 DEF CloseFlag, CloserPcs, ActiveCountsUrbs, QueueIsFresh, CountInv,
               OrderInv, CloseInv
<1>11. CASE CloseStop
  BY <1>11 DEF CloseStop, CloserPcs, ActiveCountsUrbs, QueueIsFresh, CountInv,
               OrderInv, CloseInv
<1>12. CASE CloseJoin
  BY <1>12 DEF CloseJoin, CloserPcs, ReaderPcs, ActiveCountsUrbs, QueueIsFresh,
               CountInv, OrderInv, CloseInv
<1>13. CASE CloseRelease
  BY <1>13 DEF CloseRelease, CloserPcs, ActiveCountsUrbs, QueueIsFresh, CountInv,
               OrderInv, CloseInv
<1>14. CASE UNCHANGED vars
  BY <1>14 DEF vars, ActiveCountsUrbs, QueueIsFresh, CountInv, OrderInv, CloseInv
<1>. QED
  BY <1>1, <1>2, <1>3, <1>4, <1>5, <1>6, <1>7, <1>8, <1>9, <1>10, <1>11, <1>12,
     <1>13, <1>14

(* What the discard of close(), that of the reader's time-out and an unplug have
   in common: the count and the order survive it. *)
LEMMA DiscardKeepsCountAndOrder ==
  ASSUME StreamInv, CompleteAll, UNCHANGED <<readerVars, dataVars, reports>>
  PROVE  /\ completed' \in Seq(Nat) /\ inFlight' = 0
         /\ ActiveCountsUrbs' /\ CountInv' /\ OrderInv' /\ QueueIsFresh'
<1> USE DEF StreamInv, TypeOK, readerVars, dataVars
<1>1. /\ inFlight' = 0 /\ completed' \in Seq(Nat)
      /\ Len(completed') = Len(completed) + inFlight
      /\ \A i \in DOMAIN completed' : completed'[i] # 0 =>
            i \in DOMAIN completed /\ completed'[i] = completed[i]
  BY CompleteAllAppendsZeros
<1>2. ActiveCountsUrbs' /\ CountInv' /\ QueueIsFresh'
  <2>1. Len(completed) \in Nat /\ Len(completed') \in Nat
    BY <1>1
  <2>. QED
    BY <1>1, <2>1 DEF ActiveCountsUrbs, CountInv, QueueIsFresh
<1>3. OrderInv'
  BY <1>1 DEF OrderInv
<1>. QED
  BY <1>1, <1>2, <1>3

LEMMA DiscardSteps ==
  ASSUME StreamInv, PollTimesOut \/ CloseDiscard \/ Unplug
  PROVE  StreamInv'
<1> USE DEF StreamInv, TypeOK, flagVars, sinkVars, startVars, readerVars, dataVars,
            kernelVars
<1>1. CASE PollTimesOut
  <2>1. CASE ~running \/ ~streaming
    BY <1>1, <2>1, DiscardKeepsCountAndOrder DEF PollTimesOut, CloseInv
  <2>2. CASE ~(~running \/ ~streaming)
    BY <1>1, <2>2 DEF PollTimesOut, ActiveCountsUrbs, QueueIsFresh, CountInv, OrderInv,
                      CloseInv
  <2>. QED
    BY <2>1, <2>2
<1>2. CASE CloseDiscard
  BY <1>2, DiscardKeepsCountAndOrder DEF CloseDiscard, CloserPcs, CloseInv
<1>3. CASE Unplug
  BY <1>3, DiscardKeepsCountAndOrder DEF Unplug, CloseInv
<1>. QED
  BY <1>1, <1>2, <1>3

(* The reader's submissions: each of them moves a URB to the kernel and counts
   it, or does neither. *)
LEMMA SubmitSteps ==
  ASSUME StreamInv, FirstSubmit \/ Resubmit
  PROVE  StreamInv'
<1> USE DEF StreamInv, TypeOK, flagVars, sinkVars, startVars, readerVars, dataVars,
            kernelVars
<1>0. Len(completed) \in Nat /\ Urbs \in Nat
  BY ImuAssumption
<1>1. CASE FirstSubmit
  <2>1. CASE submitted < Urbs
    <3>1. /\ Submit /\ submitted' = submitted + 1
          /\ UNCHANGED <<reader, flagVars, sinkVars, startVars, closer, urb,
                         pollFailed, dataVars, completed, reports, unplugged>>
      BY <1>1, <2>1 DEF FirstSubmit
    <3>2. reader = "submit" /\ active <= submitted
      BY <1>1 DEF FirstSubmit, CountInv
    <3>3. TypeOK' /\ QueueIsFresh'
      BY <1>0, <2>1, <3>1 DEF Submit, QueueIsFresh
    <3>4. ActiveCountsUrbs' /\ CountInv'
      <4>1. \/ ~unplugged /\ inFlight' = inFlight + 1 /\ active' = active + 1
            \/ UNCHANGED <<inFlight, active>>
        BY <3>1 DEF Submit
      <4>2. active' <= submitted' /\ submitted' <= Urbs
        BY <1>0, <2>1, <3>1, <3>2, <4>1
      <4>3. ActiveCountsUrbs'
        BY <1>0, <3>1, <4>1, <4>2 DEF ActiveCountsUrbs
      <4>4. CountInv'
        BY <3>1, <3>2, <4>1, <4>2 DEF CountInv
      <4>. QED
        BY <4>3, <4>4
    <3>5. OrderInv'
      BY <3>1, <3>2 DEF OrderInv
    <3>6. CloseInv'
      BY <3>1, <3>2 DEF CloseInv
    <3>. QED
      BY <3>3, <3>4, <3>5, <3>6
  <2>2. CASE ~(submitted < Urbs)
    <3>1. /\ reader = "submit" /\ reader' = LoopOrEnd(active)
          /\ UNCHANGED <<inFlight, active, submitted, flagVars, sinkVars, startVars,
                         closer, urb, pollFailed, dataVars, completed, reports,
                         unplugged>>
      BY <1>1, <2>2 DEF FirstSubmit
    <3>2. \/ reader' = "poll"
          \/ reader' = "ending" /\ active <= 0
      BY <3>1 DEF LoopOrEnd
    <3>3. TypeOK' /\ QueueIsFresh'
      BY <3>1, <3>2 DEF ReaderPcs, QueueIsFresh
    <3>4. ActiveCountsUrbs' /\ CountInv' /\ CloseInv'
      BY <1>0, <3>1, <3>2 DEF ActiveCountsUrbs, CountInv, CloseInv
    <3>5. OrderInv'
      BY <3>1, <3>2 DEF OrderInv
    <3>. QED
      BY <3>3, <3>4, <3>5
  <2>. QED
    BY <2>1, <2>2
<1>2. CASE Resubmit
  <2>1. /\ reader = "resubmit" /\ Submit /\ reader' = "produce"
        /\ UNCHANGED <<flagVars, sinkVars, startVars, closer, submitted, urb,
                       pollFailed, dataVars, completed, reports, unplugged>>
    BY <1>2 DEF Resubmit
  <2>2. TypeOK' /\ QueueIsFresh'
    BY <2>1 DEF Submit, ReaderPcs, QueueIsFresh
  <2>3. ActiveCountsUrbs' /\ CountInv' /\ CloseInv'
    BY <1>0, <2>1 DEF Submit, ActiveCountsUrbs, CountInv, CloseInv
  <2>4. OrderInv'
    BY <2>1 DEF OrderInv
  <2>. QED
    BY <2>2, <2>3, <2>4
<1>. QED
  BY <1>1, <1>2

(* The reader's look at the kernel: an empty one, where it leaves the loop only
   without URBs, and one that takes the oldest completion. *)
LEMMA ReapSteps ==
  ASSUME StreamInv, ReapNothing \/ ReapUrb
  PROVE  StreamInv'
<1> USE DEF StreamInv, TypeOK, flagVars, sinkVars, startVars, readerVars, dataVars,
            kernelVars
<1>0. Len(completed) \in Nat /\ Urbs \in Nat /\ DOMAIN completed = 1..Len(completed)
  BY ImuAssumption, LenProperties
<1>1. CASE ReapNothing
  <2>1. /\ reader = "reap" /\ completed = <<>>
        /\ active' = IF unplugged THEN 0 ELSE active
        /\ reader' = LoopOrEnd(active')
        /\ UNCHANGED <<flagVars, sinkVars, startVars, closer, submitted, urb,
                       pollFailed, dataVars, kernelVars>>
    BY <1>1 DEF ReapNothing
  <2>2. active' \in Int /\ (active' = active \/ (active' = 0 /\ unplugged))
    BY <2>1
  <2>3. \/ reader' = "poll"
        \/ reader' = "ending" /\ active' <= 0
    BY <2>1 DEF LoopOrEnd
  <2>4. TypeOK' /\ QueueIsFresh'
    BY <2>1, <2>2, <2>3 DEF ReaderPcs, QueueIsFresh
  <2>5. ActiveCountsUrbs'
    BY <1>0, <2>1, <2>2, EmptySeq DEF ActiveCountsUrbs, CountInv
  <2>6. CountInv' /\ CloseInv'
    BY <1>0, <2>1, <2>3, <2>5, <2>2 DEF ActiveCountsUrbs, CountInv, CloseInv
  <2>7. OrderInv'
    BY <2>1, <2>3 DEF OrderInv
  <2>. QED
    BY <2>4, <2>5, <2>6, <2>7
<1>2. CASE ReapUrb
  <2>1. /\ reader = "reap" /\ completed # <<>>
        /\ completed' = Tail(completed) /\ urb' = Head(completed)
        /\ active' = active - 1
        /\ reader' \in {"resubmit", "produce"}
        /\ UNCHANGED <<flagVars, sinkVars, startVars, closer, submitted, pollFailed,
                       dataVars, inFlight, reports, unplugged>>
    BY <1>2 DEF ReapUrb
  <2>2. /\ completed' \in Seq(Nat) /\ Len(completed') = Len(completed) - 1
        /\ Len(completed) >= 1
        /\ DOMAIN completed' = 1..(Len(completed) - 1)
        /\ \A i \in 1..(Len(completed) - 1) : completed'[i] = completed[i + 1]
        /\ urb' = completed[1] /\ urb' \in Nat
    BY <1>0, <2>1, HeadTailProperties, EmptySeq, LenProperties
  <2>3. TypeOK' /\ QueueIsFresh'
    BY <2>1, <2>2 DEF ReaderPcs, QueueIsFresh
  <2>4. ActiveCountsUrbs' /\ CountInv' /\ CloseInv'
    BY <1>0, <2>1, <2>2 DEF ActiveCountsUrbs, CountInv, CloseInv
  <2>5. OrderInv'
    <3>1. 1 \in DOMAIN completed
      BY <1>0, <2>2
    <3>2. \A i \in DOMAIN completed' :
             /\ i \in Nat /\ i + 1 \in DOMAIN completed /\ i + 1 > 1
             /\ completed'[i] = completed[i + 1]
      BY <1>0, <2>2
    <3>3. \A i \in DOMAIN completed' : completed'[i] # 0 =>
             /\ taken' < completed'[i] /\ completed'[i] <= reports'
             /\ \A k \in DOMAIN queue' : queue'[k] < completed'[i]
             /\ \A j \in DOMAIN completed' :
                   j > i /\ completed'[j] # 0 => completed'[i] < completed'[j]
      BY <2>1, <3>2 DEF OrderInv
    <3>4. urb' # 0 =>
             /\ taken' < urb' /\ urb' <= reports'
             /\ \A k \in DOMAIN queue' : queue'[k] < urb'
             /\ \A i \in DOMAIN completed' : completed'[i] # 0 => urb' < completed'[i]
      BY <2>1, <2>2, <3>1, <3>2 DEF OrderInv
    <3>. QED
      BY <2>1, <3>3, <3>4 DEF OrderInv
  <2>. QED
    BY <2>3, <2>4, <2>5
<1>. QED
  BY <1>1, <1>2

(* The queue after a report was put into it: a suffix of the old one, and the
   report behind it. *)
LEMMA EnqueueShifts ==
  ASSUME TypeOK, QueueIsFresh, NEW q, q = Append(Newest(queue), urb)
  PROVE  /\ q \in Seq(Nat) /\ Len(q) \in 1..QueueSize
         /\ DOMAIN q = 1..Len(q)
         /\ q[Len(q)] = urb
         /\ \E d \in {0, 1} : \A i \in 1..(Len(q) - 1) :
               i + d \in DOMAIN queue /\ q[i] = queue[i + d]
<1> USE DEF TypeOK
<1>1. /\ queue \in Seq(Nat) /\ Len(queue) \in Nat /\ urb \in Nat
      /\ DOMAIN queue = 1..Len(queue)
      /\ QueueSize \in Nat \ {0} /\ Len(queue) <= QueueSize
  BY ImuAssumption, LenProperties DEF QueueIsFresh
<1>2. CASE Len(queue) = QueueSize
  <2>1. queue # <<>> /\ Newest(queue) = Tail(queue)
    BY <1>1, <1>2, EmptySeq DEF Newest
  <2>2. /\ Tail(queue) \in Seq(Nat) /\ Len(Tail(queue)) = Len(queue) - 1
        /\ \A i \in 1..Len(Tail(queue)) : Tail(queue)[i] = queue[i + 1]
    BY <1>1, <2>1, HeadTailProperties
  <2>3. /\ q \in Seq(Nat) /\ Len(q) = Len(queue) /\ q[Len(q)] = urb
        /\ \A i \in 1..(Len(queue) - 1) : q[i] = Tail(queue)[i]
    BY <1>1, <2>1, <2>2, AppendProperties
  <2>4. \A i \in 1..(Len(q) - 1) : i + 1 \in DOMAIN queue /\ q[i] = queue[i + 1]
    BY <1>1, <2>2, <2>3
  <2>. QED
    BY <1>1, <1>2, <2>3, <2>4, LenProperties
<1>3. CASE Len(queue) # QueueSize
  <2>1. Newest(queue) = queue
    BY <1>3 DEF Newest
  <2>2. /\ q \in Seq(Nat) /\ Len(q) = Len(queue) + 1 /\ q[Len(q)] = urb
        /\ \A i \in 1..Len(queue) : q[i] = queue[i]
    BY <1>1, <2>1, AppendProperties
  <2>3. \A i \in 1..(Len(q) - 1) : i + 0 \in DOMAIN queue /\ q[i] = queue[i + 0]
    BY <1>1, <2>2
  <2>4. \E d \in {0, 1} : \A i \in 1..(Len(q) - 1) :
           i + d \in DOMAIN queue /\ q[i] = queue[i + d]
    BY <2>3
  <2>5. Len(q) \in 1..QueueSize
    <3> HIDE DEF TypeOK
    <3>1. Len(queue) \in Nat /\ QueueSize \in Nat /\ Len(queue) <= QueueSize
      BY <1>1
    <3>2. Len(queue) < QueueSize
      BY <1>3, <3>1
    <3>3. Len(q) = Len(queue) + 1
      BY <2>2
    <3>. QED
      BY <3>1, <3>2, <3>3
  <2>6. DOMAIN q = 1..Len(q)
    BY <2>2, LenProperties
  <2>. QED
    BY <2>2, <2>4, <2>5, <2>6
<1>. QED
  BY <1>2, <1>3

(* What becomes of a reaped report: the sink, the queue, or nothing. *)
LEMMA DeliverySteps ==
  ASSUME StreamInv, Produce \/ Enqueue
  PROVE  StreamInv'
<1> USE DEF StreamInv, TypeOK, flagVars, sinkVars, startVars, readerVars, dataVars,
            kernelVars
<1>1. CASE Produce
  <2>1. /\ reader = "produce"
        /\ \/ reader' = "reap" /\ sunk' = sunk
           \/ reader' = "inSink" /\ sunk' = urb /\ sinkSet
           \/ reader' = "enqueue" /\ sunk' = sunk /\ urb # 0
        /\ UNCHANGED <<flagVars, sinkVars, startVars, closer, submitted, active,
                       urb, pollFailed, queue, taken, kernelVars>>
    BY <1>1 DEF Produce
  <2>2. TypeOK' /\ QueueIsFresh' /\ ActiveCountsUrbs' /\ CountInv'
    BY <2>1 DEF ReaderPcs, QueueIsFresh, ActiveCountsUrbs, CountInv
  <2>3. OrderInv'
    BY <2>1 DEF OrderInv
  <2>4. CloseInv'
    BY <2>1 DEF CloseInv
  <2>. QED
    BY <2>2, <2>3, <2>4
<1>2. CASE Enqueue
  <2>1. /\ reader = "enqueue" /\ reader' = "reap"
        /\ queue' = Append(Newest(queue), urb)
        /\ UNCHANGED <<flagVars, sinkVars, startVars, closer, submitted, active,
                       urb, pollFailed, taken, sunk, kernelVars>>
    BY <1>2 DEF Enqueue
  <2>2. /\ queue' \in Seq(Nat) /\ Len(queue') \in 1..QueueSize
        /\ DOMAIN queue' = 1..Len(queue') /\ queue'[Len(queue')] = urb
    BY <2>1, EnqueueShifts
  <2>3. PICK d \in {0, 1} : \A i \in 1..(Len(queue') - 1) :
               i + d \in DOMAIN queue /\ queue'[i] = queue[i + d]
    BY <2>1, EnqueueShifts
  <2>4. \A i \in DOMAIN queue' :
           \/ i = Len(queue') /\ queue'[i] = urb
           \/ i < Len(queue') /\ i + d \in DOMAIN queue /\ queue'[i] = queue[i + d]
    BY <2>2, <2>3, ImuAssumption
  <2>5. /\ urb # 0 /\ taken < urb /\ urb <= reports
        /\ \A k \in DOMAIN queue : queue[k] < urb
        /\ \A i \in DOMAIN completed : completed[i] # 0 => urb < completed[i]
    BY <2>1 DEF OrderInv
  <2>6. \A i, j \in DOMAIN queue' : i < j => queue'[i] < queue'[j]
    <3> SUFFICES ASSUME NEW i \in DOMAIN queue', NEW j \in DOMAIN queue', i < j
                 PROVE  queue'[i] < queue'[j]
      OBVIOUS
    <3>1. i \in Nat /\ j \in Nat /\ d \in Nat /\ j <= Len(queue') /\ Len(queue') \in Nat
      BY <2>2, ImuAssumption
    <3>2. i + d \in DOMAIN queue /\ queue'[i] = queue[i + d]
      BY <2>4, <3>1
    <3>3. CASE queue'[j] = urb
      BY <2>5, <3>2, <3>3
    <3>4. CASE j + d \in DOMAIN queue /\ queue'[j] = queue[j + d]
      BY <3>1, <3>2, <3>4 DEF QueueIsFresh
    <3>. QED
      BY <2>4, <3>3, <3>4
  <2>7. QueueIsFresh'
    <3>1. \A i \in DOMAIN queue' : taken' < queue'[i] /\ queue'[i] <= reports'
      BY <2>1, <2>4, <2>5 DEF QueueIsFresh
    <3>. QED
      BY <2>2, <2>6, <3>1, ImuAssumption DEF QueueIsFresh
  <2>8. OrderInv'
    <3>1. \A i \in DOMAIN completed : completed[i] # 0 =>
             \A k \in DOMAIN queue' : queue'[k] < completed[i]
      BY <2>4, <2>5 DEF OrderInv
    <3>. QED
      BY <2>1, <3>1 DEF OrderInv
  <2>9. TypeOK'
    BY <2>1, <2>2 DEF ReaderPcs
  <2>10. ActiveCountsUrbs' /\ CountInv'
    BY <2>1 DEF ActiveCountsUrbs, CountInv
  <2>11. CloseInv'
    BY <2>1 DEF CloseInv
  <2>. QED
    BY <2>7, <2>8, <2>9, <2>10, <2>11
<1>. QED
  BY <1>1, <1>2

(* A consumer takes the oldest report, and all that is left is newer. *)
LEMMA ReadStep ==
  ASSUME StreamInv, ReadRecord
  PROVE  StreamInv'
<1> USE DEF StreamInv, TypeOK, flagVars, sinkVars, startVars, readerVars, dataVars,
            kernelVars
<1>1. /\ queue # <<>> /\ taken' = Head(queue) /\ queue' = Tail(queue)
      /\ UNCHANGED <<flagVars, sinkVars, startVars, closer, readerVars, sunk,
                     kernelVars>>
  BY DEF ReadRecord
<1>2. /\ queue' \in Seq(Nat) /\ Len(queue') = Len(queue) - 1 /\ Len(queue) \in Nat
      /\ DOMAIN queue = 1..Len(queue) /\ DOMAIN queue' = 1..(Len(queue) - 1)
      /\ \A i \in 1..(Len(queue) - 1) : queue'[i] = queue[i + 1]
      /\ taken' = queue[1] /\ taken' \in Nat /\ Len(queue) >= 1
  BY <1>1, HeadTailProperties, EmptySeq, LenProperties
<1>3. 1 \in DOMAIN queue
  BY <1>2
<1>4. \A i \in DOMAIN queue' :
         i \in Nat /\ i + 1 \in DOMAIN queue /\ 1 < i + 1 /\ queue'[i] = queue[i + 1]
  BY <1>2
<1>5. QueueIsFresh'
  <2>1. \A i \in DOMAIN queue' : taken' < queue'[i] /\ queue'[i] <= reports'
    BY <1>1, <1>2, <1>3, <1>4 DEF QueueIsFresh
  <2>2. \A i, j \in DOMAIN queue' : i < j => queue'[i] < queue'[j]
    BY <1>4 DEF QueueIsFresh
  <2>3. Len(queue') <= QueueSize
    BY <1>2, ImuAssumption DEF QueueIsFresh
  <2>. QED
    BY <2>1, <2>2, <2>3 DEF QueueIsFresh
<1>6. OrderInv'
  <2>1. taken' <= reports
    BY <1>2, <1>3 DEF QueueIsFresh
  <2>2. \A i \in DOMAIN completed : completed[i] # 0 =>
           taken' < completed[i] /\ \A k \in DOMAIN queue' : queue'[k] < completed[i]
    BY <1>2, <1>3, <1>4 DEF OrderInv
  <2>3. reader \in {"resubmit", "produce", "enqueue"} /\ urb # 0 =>
           taken' < urb /\ \A k \in DOMAIN queue' : queue'[k] < urb
    BY <1>2, <1>3, <1>4 DEF OrderInv
  <2>. QED
    BY <1>1, <2>1, <2>2, <2>3 DEF OrderInv
<1>7. TypeOK'
  BY <1>1, <1>2
<1>8. ActiveCountsUrbs' /\ CountInv' /\ CloseInv'
  BY <1>1 DEF ActiveCountsUrbs, CountInv, CloseInv
<1>. QED
  BY <1>5, <1>6, <1>7, <1>8

(* A completion moves a URB from the kernel's count to the end of the completed
   ones; its report is newer than every other. *)
LEMMA CompleteStep ==
  ASSUME StreamInv, CompleteUrb
  PROVE  StreamInv'
<1> USE DEF StreamInv, TypeOK, flagVars, sinkVars, startVars, readerVars, dataVars,
            kernelVars
<1>1. PICK full \in BOOLEAN :
         completed' = Append(completed, IF full THEN reports + 1 ELSE 0)
  BY DEF CompleteUrb
<1>2. /\ inFlight > 0 /\ inFlight' = inFlight - 1 /\ reports' = reports + 1
      /\ UNCHANGED <<flagVars, sinkVars, startVars, closer, readerVars, dataVars,
                     unplugged>>
  BY DEF CompleteUrb
<1> DEFINE last == IF full THEN reports + 1 ELSE 0
<1>3. last \in Nat /\ (last # 0 => last = reports + 1)
  OBVIOUS
<1> HIDE DEF last
<1>4. completed' = Append(completed, last)
  BY <1>1 DEF last
<1>5. /\ completed' \in Seq(Nat) /\ Len(completed') = Len(completed) + 1
      /\ Len(completed) \in Nat
      /\ DOMAIN completed = 1..Len(completed)
      /\ DOMAIN completed' = 1..(Len(completed) + 1)
      /\ \A i \in 1..Len(completed) : completed'[i] = completed[i]
      /\ completed'[Len(completed) + 1] = last
  BY <1>3, <1>4, AppendProperties, LenProperties
<1>6. \A i \in DOMAIN completed' :
         \/ i \in DOMAIN completed /\ completed'[i] = completed[i]
         \/ i = Len(completed) + 1 /\ completed'[i] = last
  BY <1>5
<1>7. OrderInv'
  <2>1. taken' <= reports'
    BY <1>2 DEF OrderInv
  <2>2. \A k \in DOMAIN queue : queue[k] \in Nat /\ queue[k] <= reports
    BY LenProperties DEF QueueIsFresh
  <2>3. \A i \in DOMAIN completed : completed[i] \in Nat
    BY LenProperties
  <2>4. ASSUME NEW i \in DOMAIN completed', completed'[i] # 0
        PROVE  /\ taken' < completed'[i] /\ completed'[i] <= reports'
               /\ \A k \in DOMAIN queue' : queue'[k] < completed'[i]
               /\ \A j \in DOMAIN completed' :
                     j > i /\ completed'[j] # 0 => completed'[i] < completed'[j]
    <3>1. CASE i \in DOMAIN completed /\ completed'[i] = completed[i]
      <4>1. /\ taken < completed[i] /\ completed[i] <= reports
            /\ \A k \in DOMAIN queue : queue[k] < completed[i]
            /\ \A j \in DOMAIN completed :
                  j > i /\ completed[j] # 0 => completed[i] < completed[j]
        BY <2>4, <3>1 DEF OrderInv
      <4>2. \A j \in DOMAIN completed' :
               j > i /\ completed'[j] # 0 => completed'[i] < completed'[j]
        BY <1>3, <1>6, <2>3, <3>1, <4>1
      <4>. QED
        BY <1>2, <2>3, <3>1, <4>1, <4>2
    <3>2. CASE i = Len(completed) + 1 /\ completed'[i] = last
      <4>1. completed'[i] = reports + 1
        BY <1>3, <2>4, <3>2
      <4>2. ~\E j \in DOMAIN completed' : j > i
        BY <1>5, <3>2
      <4>3. taken <= reports
        BY DEF OrderInv
      <4>. QED
        BY <1>2, <2>2, <4>1, <4>2, <4>3
    <3>. QED
      BY <1>6, <3>1, <3>2
  <2>5. ASSUME reader \in {"resubmit", "produce", "enqueue"}, urb # 0
        PROVE  /\ taken < urb /\ urb <= reports'
               /\ \A k \in DOMAIN queue : queue[k] < urb
               /\ \A i \in DOMAIN completed' : completed'[i] # 0 => urb < completed'[i]
    BY <1>2, <1>3, <1>6, <2>5 DEF OrderInv
  <2>. QED
    BY <1>2, <2>1, <2>4, <2>5 DEF OrderInv
<1>8. TypeOK'
  BY <1>2, <1>5
<1>9. ActiveCountsUrbs' /\ CountInv' /\ QueueIsFresh'
  <2>1. ActiveCountsUrbs'
    BY <1>2, <1>5 DEF ActiveCountsUrbs
  <2>2. CountInv'
    BY <1>2 DEF CountInv
  <2>3. \A i \in DOMAIN queue : queue[i] \in Nat
    BY LenProperties
  <2>4. QueueIsFresh'
    BY <1>2, <2>3 DEF QueueIsFresh
  <2>. QED
    BY <2>1, <2>2, <2>4
<1>10. CloseInv'
  BY <1>2 DEF CloseInv
<1>. QED
  BY <1>7, <1>8, <1>9, <1>10

(* Every step keeps the invariant. *)
LEMMA StreamStep == StreamInv /\ [Next]_vars => StreamInv'
<1> SUFFICES ASSUME StreamInv, [Next]_vars PROVE StreamInv'
  OBVIOUS
<1>1. CASE UNCHANGED vars
  BY <1>1, ControlSteps
<1>2. CASE Next
  BY <1>2, ControlSteps, DiscardSteps, SubmitSteps, ReapSteps, DeliverySteps,
     ReadStep, CompleteStep
     DEF Next, StarterStep, ReaderStep, CloserStep
<1>. QED
  BY <1>1, <1>2

(* The thread that a start assigns over: a reader that is neither none nor done
   keeps streaming up until close() takes it down, and no start gets past that. *)
LEMMA RestartStep == TypeOK /\ CloseInv /\ RestartInv /\ [Next]_vars => RestartInv'
<1> SUFFICES ASSUME TypeOK, CloseInv, RestartInv, [Next]_vars PROVE RestartInv'
  OBVIOUS
<1> USE DEF RestartInv, flagVars, startVars, readerVars
<1>1. CASE UNCHANGED vars
  BY <1>1 DEF vars
<1>2. CASE Next
  <2>1. CASE StartCheck \/ StarterStep
    <3>1. CASE StartCheck
      BY <3>1 DEF StartCheck
    <3>2. CASE StartExchange
      BY <1>2, <3>2 DEF Next, TypeOK, StartExchange
    <3>3. CASE StartSpawn
      BY <3>3 DEF TypeOK, StartSpawn
    <3>. QED
      BY <2>1, <3>1, <3>2, <3>3 DEF StarterStep
  <2>2. CASE ReaderStep \/ PollWakes
    <3>1. /\ reader \notin {"none", "done"}
          /\ UNCHANGED <<running, starter, terminated>>
          /\ streaming' = streaming \/ reader' = "done"
      <4>1. CASE FirstSubmit \/ PollTimesOut \/ PollFails \/ PollWakes \/ ReapNothing
        BY <4>1 DEF FirstSubmit, PollTimesOut, PollFails, PollWakes, ReapNothing
      <4>2. CASE ReapUrb \/ Resubmit \/ Produce \/ LeaveSink \/ Enqueue \/ ReaderEnd
        BY <4>2 DEF ReapUrb, Resubmit, Produce, LeaveSink, Enqueue, ReaderEnd
      <4>. QED
        BY <2>2, <4>1, <4>2 DEF ReaderStep
    <3>2. ~terminated
      BY <1>2 DEF Next
    <3>. QED
      BY <3>1, <3>2
  <2>3. CASE CloserStep
    BY <2>3 DEF CloserStep, CloseFlag, CloseStop, CloseDiscard, CloseJoin, CloseRelease, CloseInv
  <2>4. CASE ReadRecord \/ SetSink \/ CloseSinks \/ CompleteUrb \/ Unplug
    <3>1. UNCHANGED <<running, streaming, starter, terminated, reader>>
      BY <2>4 DEF ReadRecord, SetSink, CloseSinks, CompleteUrb, Unplug
    <3>. QED
      BY <3>1
  <2>. QED
    BY <1>2, <2>1, <2>2, <2>3, <2>4 DEF Next
<1>. QED
  BY <1>1, <1>2

LEMMA InitImu == Init => ImuInv
  BY InitStream DEF Init, StreamInv, RestartInv, ImuInv

LEMMA ImuStep == ImuInv /\ [Next]_vars => ImuInv'
  BY StreamStep, RestartStep DEF StreamInv, ImuInv

(* ImuInv is an invariant of the stream, for any number of URBs, any queue size
   and any interleaving of the reader, the kernel, close() and the callers. *)
THEOREM ImuInvariant == Spec => []ImuInv
  BY InitImu, ImuStep, PTL DEF Spec

(* The types hold throughout. *)
THEOREM ImuTypes == Spec => []TypeOK
<1>1. ImuInv => TypeOK
  BY DEF ImuInv
<1>. QED
  BY <1>1, ImuInvariant, PTL

(* The loop's count is the number of URBs the reader has not seen back, so it
   ends exactly when the kernel holds none. *)
THEOREM CountIsExact == Spec => []ActiveCountsUrbs
<1>1. ImuInv => ActiveCountsUrbs
  BY DEF ImuInv
<1>. QED
  BY <1>1, ImuInvariant, PTL

(* The bounded queue keeps the newest reports, in the order they completed, and
   none that was returned before. *)
THEOREM QueueStaysFresh == Spec => []QueueIsFresh
<1>1. ImuInv => QueueIsFresh
  BY DEF ImuInv
<1>. QED
  BY <1>1, ImuInvariant, PTL

(* A close() that no start raced leaves no reader, and no URB in flight unless
   poll() had failed. *)
THEOREM CloseLeavesNothing == Spec => []ClosedIsQuiet
<1>1. ASSUME ImuInv PROVE ClosedIsQuiet
  <2> SUFFICES ASSUME closer = "closed", ~lateStart
               PROVE  reader = "none" /\ (pollFailed \/ (inFlight = 0 /\ completed = <<>>))
    BY DEF ClosedIsQuiet
  <2>1. reader = "none"
    BY <1>1 DEF ImuInv, CloseInv
  <2>2. CASE ~pollFailed
    <3>1. active = 0 /\ active = inFlight + Len(completed)
      BY <1>1, <2>1, <2>2 DEF ImuInv, CountInv, ActiveCountsUrbs
    <3>2. inFlight = 0 /\ Len(completed) = 0
      BY <1>1, <3>1 DEF ImuInv, TypeOK
    <3>. QED
      BY <1>1, <2>1, <3>2, EmptySeq DEF ImuInv, TypeOK
  <2>. QED
    BY <2>1, <2>2
<1>. QED
  BY <1>1, ImuInvariant, PTL
=============================================================================
