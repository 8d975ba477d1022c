---------------------------- MODULE ExchangesProofs ----------------------------
(***************************************************************************)
(* Those of whom an answer is asked: XrealUsbCommand, whose theorems are   *)
(* about the module by itself, and, as in TransportsProofs, XrealEye and   *)
(* VitureBeast as parts of MCTransports.                                   *)
(***************************************************************************)
EXTENDS TransportsProofs, SequenceTheorems

(* The threads and the lock's free value are different things. *)
LEMMA Distinct == Nobody \notin Callers /\ Starter \notin Callers /\ Starter # Nobody
  BY CommandAssumption

(* Every step of a caller keeps the types. *)
LEMMA CallerTypes ==
  ASSUME TypeOK, NEW c \in Callers,
         \/ \E kd \in EntryPoints, k \in Commands : Call(c, kd, k)
         \/ CallerStep(c)
  PROVE  TypeOK'
<1> USE DEF TypeOK
<1>1. ASSUME NEW kd \in EntryPoints, NEW k \in Commands, Call(c, kd, k)
      PROVE  TypeOK'
  BY <1>1, CommandAssumption
     DEF Call, Kinds, CallerPcs, flagVars, replyVars, readerVars, deviceVars
<1>2. CASE Route(c)
  BY <1>2 DEF Route, Goto, Return, CallerPcs, flagVars, replyVars, readerVars,
              deviceVars, otherVars
<1>3. CASE Install(c)
  BY <1>3 DEF Install, Goto, CallerPcs, flagVars, readerVars, deviceVars, otherVars
<1>4. CASE WriteDone(c)
  <2>1. [cmd |-> cmd[c], id |-> id[c], endpoint |-> EndpointOf(kind[c])] \in Request
    BY DEF Request, EndpointOf, Endpoints
  <2>2. owed' \in SUBSET Request
    BY <1>4, <2>1 DEF WriteDone
  <2>. QED
    BY <1>4, <2>2 DEF WriteDone, CallerPcs, flagVars, replyVars, readerVars, otherVars
<1>5. CASE WriteFails(c)
  BY <1>5 DEF WriteFails, Goto, Return, CallerPcs, flagVars, replyVars,
              readerVars, deviceVars, otherVars
<1>6. CASE Wake(c)
  BY <1>6 DEF Wake, TakeReply, Return, CallerPcs, flagVars, readerVars,
              deviceVars, otherVars
<1>7. CASE TimeOut(c)
  BY <1>7 DEF TimeOut, TakeReply, Return, CallerPcs, flagVars, readerVars,
              deviceVars, otherVars
<1>8. CASE SyncTop(c)
  BY <1>8 DEF SyncTop, Goto, Return, CallerPcs, flagVars, replyVars,
              readerVars, deviceVars, otherVars
<1>9. CASE SyncReadPacket(c)
  <2> DEFINE e == EndpointOf(kind[c])
  <2>1. e \in Endpoints /\ wire[e] \in Seq(Packet) /\ wire[e] # <<>>
    BY <1>9 DEF SyncReadPacket, EndpointOf, Endpoints
  <2>2. Head(wire[e]) \in Packet /\ Tail(wire[e]) \in Seq(Packet)
    BY <2>1
  <2>3. wire' \in [Endpoints -> Seq(Packet)]
    BY <1>9, <2>2 DEF SyncReadPacket
  <2>. QED
    BY <1>9, <2>2, <2>3 DEF SyncReadPacket, Goto, Return, CallerPcs, flagVars,
                            replyVars, readerVars, otherVars
<1>10. CASE SyncReadNothing(c)
  BY <1>10 DEF SyncReadNothing, Goto, CallerPcs, flagVars, replyVars,
               readerVars, deviceVars, otherVars
<1>. QED
  BY <1>1, <1>2, <1>3, <1>4, <1>5, <1>6, <1>7, <1>8, <1>9, <1>10 DEF CallerStep

(* A packet the receiver publishes is a packet. *)
LEMMA PublishTypes ==
  ASSUME TypeOK, held # NoReply, Publish(held)
  PROVE  /\ pending' \in BOOLEAN /\ pendingCmd' \in Commands
         /\ pendingId' \in Nat /\ reply' \in Packet \cup {NoReply}
         /\ held.id \in Nat
<1>1. held \in Packet
  BY DEF TypeOK
<1>. QED
  BY <1>1 DEF Publish, TypeOK, replyVars, Packet

(* Every step of the receiver keeps the types. *)
LEMMA ReaderTypes ==
  ASSUME TypeOK, HeldInv, ReaderLoop \/ SinkPublish
  PROVE  TypeOK'
<1> USE DEF TypeOK, ReaderPcs
<1>1. CASE ReaderTop
  BY <1>1 DEF ReaderTop, readerOnlyUnchanged, deviceVars, flagVars, replyVars,
              callVars, otherVars
<1>2. CASE ReaderPacket
  <2>1. wire["mcuIn"] \in Seq(Packet) /\ wire["mcuIn"] # <<>>
    BY <1>2 DEF ReaderPacket, Endpoints
  <2>2. Head(wire["mcuIn"]) \in Packet /\ Tail(wire["mcuIn"]) \in Seq(Packet)
    BY <2>1
  <2>3. wire' \in [Endpoints -> Seq(Packet)]
    BY <1>2, <2>2 DEF ReaderPacket, Endpoints
  <2>. QED
    BY <1>2, <2>2, <2>3 DEF ReaderPacket, readerOnlyUnchanged, flagVars,
                            replyVars, callVars, otherVars
<1>3. CASE ReaderNothing
  BY <1>3 DEF ReaderNothing, readerOnlyUnchanged, deviceVars, flagVars,
              replyVars, callVars, otherVars
<1>4. CASE ReaderError
  BY <1>4 DEF ReaderError, readerOnlyUnchanged, deviceVars, flagVars,
              replyVars, callVars, otherVars
<1>5. CASE ReaderEnterSink
  BY <1>5 DEF ReaderEnterSink, AfterSink, readerOnlyUnchanged, deviceVars,
              flagVars, replyVars, callVars, otherVars
<1>6. CASE ReaderLeaveSink
  BY <1>6 DEF ReaderLeaveSink, AfterSink, readerOnlyUnchanged, deviceVars,
              flagVars, replyVars, callVars, otherVars
<1>7. CASE ReaderPublish
  BY <1>7, PublishTypes DEF ReaderPublish, HeldInv, deviceVars, flagVars,
              callVars, otherVars
<1>8. CASE ReaderEnd
  BY <1>8 DEF ReaderEnd, deviceVars, replyVars, callVars, otherVars
<1>9. CASE SinkPublish
  BY <1>9, PublishTypes DEF SinkPublish, deviceVars, flagVars, callVars, otherVars
<1>. QED
  BY <1>1, <1>2, <1>3, <1>4, <1>5, <1>6, <1>7, <1>8, <1>9 DEF ReaderLoop

(* So does every step of start, of close, of the client and of the glasses. *)
LEMMA ControlTypes ==
  ASSUME TypeOK,
         \/ StartLock \/ StarterStep \/ SetSink \/ CloseSinks \/ CloserStep
         \/ DeviceAnswer
  PROVE  TypeOK'
<1> USE DEF TypeOK, deviceVars, flagVars, replyVars, callVars, readerVars
<1>1. CASE StartLock
  BY <1>1 DEF StartLock, StarterPcs
<1>2. CASE StartJoin
  BY <1>2 DEF StartJoin, StarterPcs, ReaderPcs
<1>3. CASE StartSpawn
  BY <1>3 DEF StartSpawn, StarterPcs, ReaderPcs
<1>4. CASE SetSink
  BY <1>4 DEF SetSink
<1>5. CASE CloseSinks
  BY <1>5 DEF CloseSinks, CloserPcs
<1>6. CASE CloseFlag
  BY <1>6 DEF CloseFlag, CloserPcs
<1>7. CASE CloseJoin
  BY <1>7 DEF CloseJoin, CloserPcs, ReaderPcs
<1>8. CASE CloseRelease
  BY <1>8 DEF CloseRelease, CloserPcs
<1>9. CASE DeviceAnswer
  <2>1. PICK r \in owed, ok \in BOOLEAN :
           /\ owed' = owed \ {r}
           /\ wire' = [wire EXCEPT ![r.endpoint] =
                 Append(@, [cmd |-> r.cmd, id |-> r.id, valid |-> ok])]
    BY <1>9 DEF DeviceAnswer
  <2>2. r \in Request
    OBVIOUS
  <2>3. /\ [cmd |-> r.cmd, id |-> r.id, valid |-> ok] \in Packet
        /\ r.endpoint \in Endpoints
    BY <2>2 DEF Request, Packet
  <2>4. wire' \in [Endpoints -> Seq(Packet)]
    BY <2>1, <2>3
  <2>. QED
    BY <1>9, <2>1, <2>4 DEF DeviceAnswer, otherVars
<1>. QED
  BY <1>1, <1>2, <1>3, <1>4, <1>5, <1>6, <1>7, <1>8, <1>9
     DEF StarterStep, CloserStep

(* The conjuncts of the invariant that are about locks and positions, kept by *)
(* every step of a caller. *)
LEMMA CallerSafe ==
  ASSUME ExchangeInv, TypeOK', NEW c \in Callers,
         \/ \E kd \in EntryPoints, k \in Commands : Call(c, kd, k)
         \/ CallerStep(c)
  PROVE  ExchangeInv'
<1> USE Distinct DEF ExchangeInv, TypeOK, LockInv, PathInv, PendingInv,
        NothingPendingInv, HeldInv, CloseInv, TimedReplyIsOwn, Waits,
        OnAsyncPath
<1>1. ASSUME NEW kd \in EntryPoints, NEW k \in Commands, Call(c, kd, k)
      PROVE  ExchangeInv'
  BY <1>1 DEF Call, flagVars, replyVars, readerVars, deviceVars
<1>2. CASE Route(c)
  <2> USE <1>2 DEF flagVars, replyVars, readerVars, deviceVars, otherVars
  <2>1. CASE OnAsyncPath(c) /\ streaming
    BY <2>1 DEF Route, Goto
  <2>2. CASE OnAsyncPath(c) /\ ~streaming
    <3>1. commandLock = c /\ ~pending /\ reply = NoReply
      BY DEF Route
    <3>2. Return(c, NoReply)
      BY <2>2 DEF Route
    <3>. QED
      BY <3>1, <3>2 DEF Route, Return
  <2>3. CASE ~OnAsyncPath(c)
    BY <2>3 DEF Route, Goto
  <2>. QED
    BY <2>1, <2>2, <2>3
<1>3. CASE Install(c)
  BY <1>3 DEF Install, Goto, flagVars, readerVars, deviceVars, otherVars
<1>4. CASE WriteDone(c)
  BY <1>4 DEF WriteDone, flagVars, replyVars, readerVars, otherVars
<1>5. CASE WriteFails(c)
  <2> USE <1>5 DEF flagVars, replyVars, readerVars, deviceVars, otherVars
  <2>1. CASE OnAsyncPath(c)
    BY <2>1 DEF WriteFails, Goto
  <2>2. CASE ~OnAsyncPath(c)
    <3>1. commandLock = c /\ ~pending /\ reply = NoReply
      BY <2>2 DEF WriteFails
    <3>2. Return(c, NoReply)
      BY <2>2 DEF WriteFails
    <3>. QED
      BY <3>1, <3>2 DEF WriteFails, Return
  <2>. QED
    BY <2>1, <2>2
<1>6. CASE Wake(c)
  BY <1>6 DEF Wake, TakeReply, Return, flagVars, readerVars, deviceVars, otherVars
<1>7. CASE TimeOut(c)
  BY <1>7 DEF TimeOut, TakeReply, Return, flagVars, readerVars, deviceVars, otherVars
<1>8. CASE SyncTop(c)
  <2> USE DEF flagVars, replyVars, readerVars, deviceVars, otherVars
  <2>1. CASE running /\ Goto(c, "syncRead")
    BY <1>8, <2>1 DEF SyncTop, Goto
  <2>2. CASE Return(c, NoReply)
    BY <1>8, <2>2 DEF SyncTop, Return
  <2>. QED
    BY <1>8, <2>1, <2>2 DEF SyncTop
<1>9. CASE SyncReadPacket(c)
  BY <1>9 DEF SyncReadPacket, SyncAccepts, Goto, Return, flagVars, replyVars,
              readerVars, otherVars
<1>10. CASE SyncReadNothing(c)
  BY <1>10 DEF SyncReadNothing, Goto, flagVars, replyVars, readerVars,
               deviceVars, otherVars
<1>. QED
  BY <1>1, <1>2, <1>3, <1>4, <1>5, <1>6, <1>7, <1>8, <1>9, <1>10 DEF CallerStep

(* The same for every step of the receiver. *)
LEMMA ReaderSafe ==
  ASSUME ExchangeInv, TypeOK', ReaderLoop \/ SinkPublish
  PROVE  ExchangeInv'
<1> USE Distinct DEF ExchangeInv, LockInv, PathInv, PendingInv,
        NothingPendingInv, HeldInv, CloseInv, TimedReplyIsOwn, Waits,
        OnAsyncPath, readerOnlyUnchanged, flagVars, replyVars, callVars,
        deviceVars, otherVars
<1>1. CASE ReaderTop
  BY <1>1 DEF ReaderTop
<1>2. CASE ReaderPacket
  BY <1>2 DEF ReaderPacket
<1>3. CASE ReaderNothing
  BY <1>3 DEF ReaderNothing
<1>4. CASE ReaderError
  BY <1>4 DEF ReaderError
<1>5. CASE ReaderEnterSink
  BY <1>5 DEF ReaderEnterSink, AfterSink
<1>6. CASE ReaderLeaveSink
  BY <1>6 DEF ReaderLeaveSink, AfterSink
<1>7. CASE ReaderPublish
  BY <1>7 DEF ReaderPublish, Publish, Awaited, Matches, TypeOK
<1>8. CASE ReaderEnd
  BY <1>8 DEF ReaderEnd
<1>9. CASE SinkPublish
  BY <1>9 DEF SinkPublish, Publish, Awaited, Matches, TypeOK
<1>. QED
  BY <1>1, <1>2, <1>3, <1>4, <1>5, <1>6, <1>7, <1>8, <1>9 DEF ReaderLoop

(* And for start, close, the client and the glasses. *)
LEMMA ControlSafe ==
  ASSUME ExchangeInv, TypeOK',
         \/ StartLock \/ StarterStep \/ SetSink \/ CloseSinks \/ CloserStep
         \/ DeviceAnswer
  PROVE  ExchangeInv'
<1> USE Distinct DEF ExchangeInv, LockInv, PathInv, PendingInv,
        NothingPendingInv, HeldInv, CloseInv, TimedReplyIsOwn, Waits,
        OnAsyncPath, flagVars, replyVars, callVars, readerVars, deviceVars,
        otherVars, CallerPcs
<1>1. CASE StartLock
  BY <1>1 DEF StartLock
<1>2. CASE StartJoin
  BY <1>2 DEF StartJoin
<1>3. CASE StartSpawn
  BY <1>3 DEF StartSpawn
<1>4. CASE SetSink
  BY <1>4 DEF SetSink
<1>5. CASE CloseSinks
  BY <1>5 DEF CloseSinks
<1>6. CASE CloseFlag
  BY <1>6 DEF CloseFlag
<1>7. CASE CloseJoin
  BY <1>7 DEF CloseJoin
<1>8. CASE CloseRelease
  BY <1>8 DEF CloseRelease
<1>9. CASE DeviceAnswer
  BY <1>9 DEF DeviceAnswer
<1>. QED
  BY <1>1, <1>2, <1>3, <1>4, <1>5, <1>6, <1>7, <1>8, <1>9
     DEF StarterStep, CloserStep

(* ExchangeInv holds initially. *)
LEMMA InitExchangeInv == Init => ExchangeInv
<1> SUFFICES ASSUME Init PROVE ExchangeInv
  OBVIOUS
<1>1. TypeOK
  <2>1. owed \in SUBSET Request
    BY DEF Init, Request, Endpoints
  <2>2. wire \in [Endpoints -> Seq(Packet)]
    BY DEF Init
  <2>. QED
    BY <2>1, <2>2 DEF Init, TypeOK, CallerPcs, Kinds, ReaderPcs, StarterPcs, CloserPcs
<1>. QED
  BY <1>1, Distinct DEF Init, ExchangeInv, LockInv, PathInv, PendingInv,
     NothingPendingInv, HeldInv, CloseInv, TimedReplyIsOwn

(* ExchangeInv is inductive. *)
LEMMA NextExchangeInv == ExchangeInv /\ [Next]_vars => ExchangeInv'
<1> SUFFICES ASSUME ExchangeInv, [Next]_vars PROVE ExchangeInv'
  OBVIOUS
<1>0. TypeOK /\ HeldInv
  BY DEF ExchangeInv
<1>1. ASSUME NEW c \in Callers,
             \/ \E kd \in EntryPoints, k \in Commands : Call(c, kd, k)
             \/ CallerStep(c)
      PROVE  ExchangeInv'
  BY <1>0, <1>1, CallerTypes, CallerSafe
<1>2. CASE ReaderLoop \/ SinkPublish
  BY <1>0, <1>2, ReaderTypes, ReaderSafe
<1>3. CASE \/ StartLock \/ StarterStep \/ SetSink \/ CloseSinks \/ CloserStep
           \/ DeviceAnswer
  BY <1>0, <1>3, ControlTypes, ControlSafe
<1>4. CASE UNCHANGED vars
  BY <1>4 DEF vars, flagVars, replyVars, callVars, readerVars, deviceVars,
     otherVars, ExchangeInv, TypeOK, LockInv, PathInv, PendingInv,
     NothingPendingInv, HeldInv, CloseInv, TimedReplyIsOwn, Waits,
     OnAsyncPath, Matches
<1>. QED
  BY <1>1, <1>2, <1>3, <1>4 DEF Next

-----------------------------------------------------------------------------
(* What is on its way to a caller that waits *)

(* Steps that send nothing, publish nothing and bring no caller to its wait. *)
LEMMA AnsweredKept ==
  ASSUME AnsweredInv, Sent' \subseteq Sent,
         UNCHANGED <<nextId, answered, pending, reply, cmd, id, wrote>>,
         \A c \in Callers :
            /\ pc'[c] # "idle" => pc[c] # "idle"
            /\ pc'[c] \in {"route", "install", "write"}
                 => pc[c] \in {"route", "install", "write"}
            /\ Waits(c)' => Waits(c)
  PROVE  AnsweredInv'
<1> USE DEF AnsweredInv
<1>1. ASSUME NEW c \in Callers, pc'[c] # "idle"
      PROVE  /\ id'[c] < nextId'
             /\ pc'[c] \in {"route", "install", "write"} => ~wrote'[c]
             /\ \A s \in Sent' : s[2] = id'[c] => wrote'[c] /\ s[1] = cmd'[c]
             /\ id'[c] \in answered' => wrote'[c]
             /\ Waits(c)' => (pending' <=> reply' = NoReply)
             /\ Waits(c)' /\ id'[c] \in answered' => reply' # NoReply
  <2>1. pc[c] # "idle" /\ (Waits(c)' => Waits(c))
    BY <1>1
  <2> HIDE DEF Sent, Waits
  <2>. QED
    BY <2>1
<1>2. \A s \in Sent' : s[2] < nextId'
  OBVIOUS
<1>. QED
  BY <1>1, <1>2

(* The packets at the endpoint after one was taken, and after one was added. *)
LEMMA WireElements ==
  ASSUME NEW q \in Seq(Packet)
  PROVE  /\ q # <<>> => /\ Head(q) \in {q[n] : n \in DOMAIN q}
                        /\ {Tail(q)[n] : n \in DOMAIN Tail(q)} \subseteq {q[n] : n \in DOMAIN q}
         /\ \A p \in Packet : {Append(q, p)[n] : n \in DOMAIN Append(q, p)}
                                 \subseteq {q[n] : n \in DOMAIN q} \cup {p}
<1>1. ASSUME q # <<>>
      PROVE  /\ Head(q) \in {q[n] : n \in DOMAIN q}
             /\ {Tail(q)[n] : n \in DOMAIN Tail(q)} \subseteq {q[n] : n \in DOMAIN q}
  <2>1. /\ Tail(q) \in Seq(Packet) /\ Len(Tail(q)) = Len(q) - 1
        /\ \A i \in 1..Len(Tail(q)) : Tail(q)[i] = q[i + 1]
    BY <1>1, HeadTailProperties
  <2>2. DOMAIN Tail(q) = 1..Len(Tail(q)) /\ DOMAIN q = 1..Len(q) /\ Len(q) \in Nat
    BY <2>1
  <2>3. \A i \in DOMAIN Tail(q) : i + 1 \in DOMAIN q /\ Tail(q)[i] = q[i + 1]
    BY <2>1, <2>2
  <2>4. 1 \in DOMAIN q /\ Head(q) = q[1]
    BY <1>1, <2>2
  <2>. QED
    BY <2>3, <2>4
<1>2. ASSUME NEW p \in Packet
      PROVE  {Append(q, p)[n] : n \in DOMAIN Append(q, p)}
                \subseteq {q[n] : n \in DOMAIN q} \cup {p}
  <2>1. /\ Append(q, p) \in Seq(Packet) /\ Len(Append(q, p)) = Len(q) + 1
        /\ \A i \in 1..Len(q) : Append(q, p)[i] = q[i]
        /\ Append(q, p)[Len(q) + 1] = p
    BY AppendProperties
  <2>2. DOMAIN Append(q, p) = 1..Len(q) + 1 /\ DOMAIN q = 1..Len(q) /\ Len(q) \in Nat
    BY <2>1
  <2>. QED
    BY <2>1, <2>2
<1>. QED
  BY <1>1, <1>2

(* With the lock held by nobody who calls, no call is under way; with it held by a
   caller, its own is the only one. *)
LEMMA OneCall ==
  ASSUME LockInv, NEW c \in Callers, pc[c] # "idle"
  PROVE  commandLock = c /\ \A d \in Callers : pc[d] # "idle" => d = c
  BY DEF LockInv

(* A caller's steps. *)
LEMMA CallerAnswered ==
  ASSUME ExchangeInv, AnsweredInv, NEW c \in Callers,
         \/ \E kd \in EntryPoints, k \in Commands : Call(c, kd, k)
         \/ CallerStep(c)
  PROVE  AnsweredInv'
<1>0. TypeOK /\ LockInv /\ PathInv
  BY DEF ExchangeInv
<1>1. ASSUME NEW kd \in EntryPoints, NEW k \in Commands, Call(c, kd, k)
      PROVE  AnsweredInv'
  <2>1. /\ \A d \in Callers : pc[d] = "idle"
        /\ nextId' = nextId + 1 /\ nextId \in Nat /\ wrote'[c] = FALSE
        /\ pc' = [pc EXCEPT ![c] = IF running THEN "route" ELSE "idle"]
        /\ id' = [id EXCEPT ![c] = nextId]
        /\ UNCHANGED <<answered, owed, wire, held>>
    BY <1>0, <1>1, Distinct DEF Call, LockInv, TypeOK, readerVars, deviceVars
  <2>2. Sent' = Sent
    BY <2>1 DEF Sent
  <2>3. \A s \in Sent : s[2] \in Nat
    <3>1. \A r \in owed : r.id \in Nat
      BY <1>0 DEF TypeOK, Request
    <3>2. \A n \in DOMAIN wire["mcuIn"] : wire["mcuIn"][n].id \in Nat
      <4>1. wire["mcuIn"] \in Seq(Packet)
        BY <1>0 DEF TypeOK, Endpoints
      <4>2. \A n \in DOMAIN wire["mcuIn"] : wire["mcuIn"][n] \in Packet
        BY <4>1
      <4>. QED
        BY <4>2 DEF Packet
    <3>3. held # NoReply => held.id \in Nat
      BY <1>0 DEF TypeOK, Packet
    <3>. QED
      BY <3>1, <3>2, <3>3 DEF Sent
  <2>4. \A d \in Callers : pc'[d] # "idle" => d = c /\ id'[d] = nextId /\ ~Waits(d)'
    BY <1>0, <2>1 DEF TypeOK, Waits
  <2>5. nextId \notin answered /\ (\A s \in Sent : s[2] # nextId)
    BY <2>1, <2>3 DEF AnsweredInv
  <2>6. nextId' > 0 /\ nextId < nextId'
    BY <2>1
  <2>7. \A s \in Sent' : s[2] < nextId'
    BY <2>1, <2>2, <2>3 DEF AnsweredInv
  <2>8. \A i \in answered' : i < nextId'
    BY <1>0, <2>1 DEF AnsweredInv, TypeOK
  <2> HIDE DEF Sent
  <2>. QED
    BY <2>1, <2>2, <2>4, <2>5, <2>6, <2>7, <2>8 DEF AnsweredInv
<1>2. ASSUME CallerStep(c)
      PROVE  commandLock = c /\ pc[c] # "idle" /\ \A d \in Callers : pc[d] # "idle" => d = c
  <2>1. pc[c] # "idle"
    BY <1>2 DEF CallerStep, Route, Install, WriteDone, WriteFails, Wake, TimeOut, SyncTop,
                SyncReadPacket, SyncReadNothing
  <2>. QED
    BY <1>0, <2>1, OneCall
<1>3. CASE Route(c) \/ WriteFails(c) \/ SyncTop(c) \/ SyncReadNothing(c)
  <2>1. /\ UNCHANGED <<flagVars, replyVars, readerVars, deviceVars, otherVars,
                        kind, cmd, id, wrote>>
        /\ \A d \in Callers : /\ pc'[d] # "idle" => pc[d] # "idle"
                              /\ pc'[d] = "wait" => pc[d] \in {"write", "wait"}
                              /\ pc'[d] \in {"route", "install", "write"}
                                   => pc[d] \in {"route", "install", "write"}
                              /\ pc'[d] = "write" => pc[d] = "write" \/ ~OnAsyncPath(d)
    BY <1>0, <1>3 DEF Route, WriteFails, SyncTop, SyncReadNothing, Goto, Return, TypeOK,
                      OnAsyncPath
  <2>2. Sent' = Sent
    BY <2>1 DEF Sent, readerVars, deviceVars
  <2>3. \A d \in Callers : Waits(d)' => Waits(d)
    BY <2>1 DEF Waits, OnAsyncPath, flagVars
  <2>. QED
    BY <2>1, <2>2, <2>3, AnsweredKept DEF replyVars, readerVars, otherVars
<1>4. CASE SyncReadPacket(c)
  <2> DEFINE e == EndpointOf(kind[c])
  <2>1. /\ UNCHANGED <<flagVars, replyVars, readerVars, owed, otherVars, kind, cmd, id, wrote>>
        /\ \A d \in Callers : pc'[d] # "idle" => pc[d] # "idle" /\ (d = c \/ pc'[d] = pc[d])
        /\ pc'[c] \in {"idle", "syncTop"}
    BY <1>0, <1>4 DEF SyncReadPacket, Goto, Return, TypeOK
  <2>2. e \in Endpoints /\ wire[e] \in Seq(Packet) /\ wire[e] # <<>>
        /\ wire' = [wire EXCEPT ![e] = Tail(wire[e])]
    BY <1>0, <1>4 DEF SyncReadPacket, EndpointOf, Endpoints, TypeOK
  <2>3. wire'["mcuIn"] = wire["mcuIn"] \/ (wire'["mcuIn"] = Tail(wire["mcuIn"])
                            /\ wire["mcuIn"] \in Seq(Packet) /\ wire["mcuIn"] # <<>>)
    BY <1>0, <2>2 DEF TypeOK
  <2>4. {wire'["mcuIn"][n] : n \in DOMAIN wire'["mcuIn"]}
           \subseteq {wire["mcuIn"][n] : n \in DOMAIN wire["mcuIn"]}
    <3>1. CASE wire'["mcuIn"] = wire["mcuIn"]
      BY <3>1
    <3>2. CASE /\ wire'["mcuIn"] = Tail(wire["mcuIn"])
               /\ wire["mcuIn"] \in Seq(Packet) /\ wire["mcuIn"] # <<>>
      BY <3>2, WireElements
    <3>. QED
      BY <2>3, <3>1, <3>2
  <2>6. Sent' \subseteq Sent
    BY <2>1, <2>4 DEF Sent, readerVars
  <2>5. \A d \in Callers : Waits(d)' => Waits(d)
    BY <2>1 DEF Waits, OnAsyncPath, flagVars
  <2>. QED
    BY <2>1, <2>5, <2>6, AnsweredKept DEF replyVars, readerVars, otherVars
<1>5. CASE Install(c)
  <2>1. /\ pc[c] = "install" /\ pending' = TRUE /\ reply' = NoReply
        /\ UNCHANGED <<answered, nextId, owed, wire, held, cmd, id, wrote>>
        /\ pc' = [pc EXCEPT ![c] = "write"]
    BY <1>5 DEF Install, Goto, readerVars, deviceVars, otherVars
  <2>2. Sent' = Sent
    BY <2>1 DEF Sent
  <2>3. \A d \in Callers : pc'[d] # "idle" => d = c
    BY <1>0, <1>2, <1>5, <2>1 DEF CallerStep, TypeOK
  <2>4. id[c] \notin answered
    BY <2>1 DEF AnsweredInv
  <2>. QED
    BY <2>1, <2>2, <2>3, <2>4 DEF AnsweredInv
<1>6. CASE WriteDone(c)
  <2>1. /\ pc[c] = "write"
        /\ owed' = owed \cup {[cmd |-> cmd[c], id |-> id[c], endpoint |-> EndpointOf(kind[c])]}
        /\ wrote' = [wrote EXCEPT ![c] = TRUE] /\ wrote'[c] = TRUE
        /\ pc' = [pc EXCEPT ![c] = IF OnAsyncPath(c) THEN "wait" ELSE "syncTop"]
        /\ UNCHANGED <<flagVars, pending, reply, kind, cmd, id, held, answered, wire, nextId>>
    BY <1>0, <1>6 DEF WriteDone, replyVars, readerVars, otherVars, TypeOK
  <2>2. \A s \in Sent' : s \in Sent \/ (s[1] = cmd[c] /\ s[2] = id[c])
    BY <2>1 DEF Sent
  <2>3. \A d \in Callers : pc'[d] # "idle" => d = c
    BY <1>0, <1>2, <1>6, <2>1 DEF CallerStep, TypeOK
  <2>4. /\ pc[c] # "idle" /\ (Waits(c)' => Waits(c))
        /\ pc'[c] \notin {"route", "install", "write"} /\ id[c] < nextId
    BY <1>0, <2>1 DEF Waits, OnAsyncPath, flagVars, TypeOK, AnsweredInv
  <2>5. \A s \in Sent' : s[2] < nextId'
    BY <2>1, <2>2, <2>4 DEF AnsweredInv
  <2> HIDE DEF Sent, Waits
  <2>6. /\ \A s \in Sent' : s[2] = id[c] => s[1] = cmd[c]
        /\ Waits(c)' => (pending <=> reply = NoReply)
        /\ Waits(c)' /\ id[c] \in answered => reply # NoReply
    BY <2>2, <2>4 DEF AnsweredInv
  <2>. QED
    BY <2>1, <2>3, <2>4, <2>5, <2>6 DEF AnsweredInv
<1>7. CASE Wake(c) \/ TimeOut(c)
  <2>1. /\ pc' = [pc EXCEPT ![c] = "idle"]
        /\ UNCHANGED <<answered, nextId, owed, wire, held>>
    BY <1>7 DEF Wake, TimeOut, TakeReply, Return, readerVars, deviceVars, otherVars
  <2>2. Sent' = Sent
    BY <2>1 DEF Sent
  <2>3. \A d \in Callers : pc'[d] = "idle"
    BY <1>0, <1>2, <1>7, <2>1 DEF CallerStep, TypeOK
  <2>. QED
    BY <2>1, <2>2, <2>3 DEF AnsweredInv
<1>. QED
  BY <1>1, <1>3, <1>4, <1>5, <1>6, <1>7 DEF CallerStep

(* A packet that is offered: if it is what a caller waits for, the caller's request
   is pending, and it is published, or its reply has been published before. *)
LEMMA PublishAnswered ==
  ASSUME ExchangeInv, AnsweredInv, held # NoReply, Publish(held), Sent' \subseteq Sent,
         answered' = IF held.valid THEN answered \cup {held.id} ELSE answered,
         UNCHANGED <<flagVars, callVars, otherVars>>
  PROVE  AnsweredInv'
<1>1. /\ held \in Packet /\ <<held.cmd, held.id>> \in Sent
      /\ pending \in BOOLEAN
      /\ (pending => reply = NoReply \/ \A c \in Callers : pc[c] = "idle" \/ ~Waits(c))
  BY DEF ExchangeInv, TypeOK, Sent, AnsweredInv
<1>2. held.id < nextId /\ <<held.cmd, held.id>>[2] = held.id /\ <<held.cmd, held.id>>[1] = held.cmd
  BY <1>1 DEF AnsweredInv
<1>3. ASSUME NEW c \in Callers, pc[c] # "idle"
      PROVE  /\ pc[c] \in {"route", "install", "write"} => ~wrote[c]
             /\ id[c] \in answered' => wrote[c]
             /\ Waits(c) => (pending' <=> reply' = NoReply)
             /\ Waits(c) /\ id[c] \in answered' => reply' # NoReply
  <2>1. /\ pc[c] \in {"route", "install", "write"} => ~wrote[c]
        /\ held.id = id[c] => wrote[c] /\ held.cmd = cmd[c]
        /\ id[c] \in answered => wrote[c]
        /\ Waits(c) => (pending <=> reply = NoReply)
        /\ Waits(c) /\ id[c] \in answered => reply # NoReply
    BY <1>1, <1>2, <1>3 DEF AnsweredInv
  <2>2. pending => pendingCmd = cmd[c] /\ pendingId = id[c]
    BY <1>3 DEF ExchangeInv, LockInv, PendingInv
  <2>3. CASE Awaited(held)
    <3>1. reply' = held /\ pending' = FALSE /\ held.valid
      BY <2>3 DEF Publish, Awaited, Matches
    <3>2. held.id = id[c]
      BY <2>2, <2>3 DEF Awaited, Matches
    <3>. QED
      BY <2>1, <3>1, <3>2
  <2>4. CASE ~Awaited(held)
    <3>1. reply' = reply /\ pending' = pending
      BY <2>4 DEF Publish, replyVars
    <3>2. ASSUME Waits(c), held.valid, held.id = id[c]
          PROVE  reply # NoReply
      BY <2>1, <2>2, <2>4, <3>2 DEF Awaited, Matches
    <3>. QED
      BY <2>1, <3>1, <3>2
  <2>. QED
    BY <2>3, <2>4
<1>4. \A i \in answered' : i < nextId
  BY <1>2 DEF AnsweredInv
<1>5. \A c \in Callers : Waits(c)' <=> Waits(c)
  BY DEF Waits, OnAsyncPath, flagVars, callVars
<1>6. UNCHANGED <<nextId, pc, id, wrote, cmd>>
  BY DEF callVars, otherVars
<1> HIDE DEF Sent, Waits
<1>. QED
  BY <1>3, <1>4, <1>5, <1>6 DEF AnsweredInv

(* The steps of the receiver, of start, of close, of the client and of the glasses. *)
LEMMA OthersAnswered ==
  ASSUME ExchangeInv, AnsweredInv,
         \/ ReaderLoop \/ SinkPublish \/ StartLock \/ StarterStep
         \/ SetSink \/ CloseSinks \/ CloserStep \/ DeviceAnswer
  PROVE  AnsweredInv'
<1>0. TypeOK /\ LockInv /\ HeldInv
  BY DEF ExchangeInv
<1>1. CASE SinkPublish \/ ReaderPublish
  <2>1. held # NoReply /\ Publish(held)
        /\ answered' = (IF held.valid THEN answered \cup {held.id} ELSE answered)
        /\ UNCHANGED <<flagVars, callVars, otherVars, owed, wire>>
        /\ held' \in {held, NoReply}
    BY <1>0, <1>1 DEF SinkPublish, ReaderPublish, HeldInv, deviceVars
  <2>2. Sent' \subseteq Sent
    BY <2>1 DEF Sent
  <2>. QED
    BY <2>1, <2>2, PublishAnswered
<1>2. ASSUME Sent' \subseteq Sent,
             UNCHANGED <<nextId, answered, pending, reply, callVars>>,
             asyncEnabled' = asyncEnabled \/ \A c \in Callers : pc[c] = "idle"
      PROVE  AnsweredInv'
  <2>1. \A c \in Callers : Waits(c)' => Waits(c)
    BY <1>2 DEF Waits, OnAsyncPath, callVars
  <2>. QED
    BY <1>2, <2>1, AnsweredKept DEF callVars
<1>3. CASE ReaderPacket
  <2>1. /\ wire["mcuIn"] \in Seq(Packet) /\ wire["mcuIn"] # <<>>
        /\ wire'["mcuIn"] = Tail(wire["mcuIn"]) /\ owed' = owed
        /\ held' \in {held, Head(wire["mcuIn"])}
    BY <1>0, <1>3 DEF ReaderPacket, TypeOK, Endpoints
  <2>2. Sent' \subseteq Sent
    BY <2>1, WireElements DEF Sent
  <2>. QED
    BY <1>2, <1>3, <2>2 DEF ReaderPacket, readerOnlyUnchanged, flagVars, replyVars, otherVars
<1>4. CASE \/ ReaderTop \/ ReaderNothing \/ ReaderError \/ ReaderEnterSink \/ ReaderLeaveSink
           \/ ReaderEnd \/ StartLock \/ StartJoin \/ SetSink \/ CloseSinks \/ CloserStep
  <2>1. UNCHANGED <<owed, wire, held, nextId, answered, pending, reply, callVars, asyncEnabled>>
    BY <1>4 DEF ReaderTop, ReaderNothing, ReaderError, ReaderEnterSink, ReaderLeaveSink, ReaderEnd,
       StartLock, StartJoin, SetSink, CloseSinks, CloserStep, CloseFlag, CloseJoin, CloseRelease,
       readerOnlyUnchanged, flagVars, replyVars, readerVars, deviceVars, otherVars
  <2>2. Sent' = Sent
    BY <2>1 DEF Sent
  <2>. QED
    BY <1>2, <2>1, <2>2
<1>5. CASE StartSpawn
  <2>1. \A c \in Callers : pc[c] = "idle"
    BY <1>0, <1>5, Distinct DEF StartSpawn, LockInv
  <2>2. UNCHANGED <<owed, wire, held, nextId, answered, pending, reply, callVars>>
    BY <1>5 DEF StartSpawn, replyVars, deviceVars
  <2>3. Sent' = Sent
    BY <2>2 DEF Sent
  <2>. QED
    BY <1>2, <2>1, <2>2, <2>3
<1>6. CASE DeviceAnswer
  <2>1. PICK r \in owed, ok \in BOOLEAN :
           /\ owed' = owed \ {r}
           /\ wire' = [wire EXCEPT ![r.endpoint] =
                 Append(@, [cmd |-> r.cmd, id |-> r.id, valid |-> ok])]
    BY <1>6 DEF DeviceAnswer
  <2> DEFINE p == [cmd |-> r.cmd, id |-> r.id, valid |-> ok]
  <2>2. p \in Packet /\ r.endpoint \in Endpoints /\ p.cmd = r.cmd /\ p.id = r.id
    BY <1>0 DEF TypeOK, Request, Packet
  <2>3. wire["mcuIn"] \in Seq(Packet)
    BY <1>0 DEF TypeOK, Endpoints
  <2>4. wire'["mcuIn"] \in {wire["mcuIn"], Append(wire["mcuIn"], p)}
    BY <1>0, <2>1, <2>2 DEF TypeOK, Endpoints
  <2>5. UNCHANGED <<held, nextId, answered, pending, reply, callVars, asyncEnabled>>
    BY <1>6 DEF DeviceAnswer, flagVars, replyVars, readerVars, otherVars
  <2> HIDE DEF p
  <2>6. {wire'["mcuIn"][n] : n \in DOMAIN wire'["mcuIn"]}
           \subseteq {wire["mcuIn"][n] : n \in DOMAIN wire["mcuIn"]} \cup {p}
    BY <2>2, <2>3, <2>4, WireElements
  <2>7. Sent' \subseteq Sent
    BY <2>1, <2>2, <2>5, <2>6 DEF Sent
  <2>. QED
    BY <1>2, <2>5, <2>7
<1>. QED
  BY <1>1, <1>3, <1>4, <1>5, <1>6 DEF ReaderLoop, StarterStep

(* CommandInv holds initially: of what is owed, nothing has an id yet. *)
LEMMA InitCommandInv == Init => CommandInv
<1> SUFFICES ASSUME Init PROVE AnsweredInv
  BY InitExchangeInv DEF CommandInv
<1>1. held = NoReply /\ wire["mcuIn"] = <<>> /\ nextId = 1
      /\ \A r \in owed : r.id = 0
  BY DEF Init, Endpoints
<1>2. DOMAIN wire["mcuIn"] = {}
  BY <1>1
<1>3. \A s \in Sent : s[2] = 0
  BY <1>1, <1>2 DEF Sent
<1>. QED
  BY <1>1, <1>3 DEF Init, AnsweredInv

(* CommandInv is inductive. *)
LEMMA NextCommandInv == CommandInv /\ [Next]_vars => CommandInv'
<1> SUFFICES ASSUME ExchangeInv, AnsweredInv, [Next]_vars PROVE AnsweredInv'
  BY NextExchangeInv DEF CommandInv
<1>1. CASE UNCHANGED vars
  <2>1. Sent' = Sent
    BY <1>1 DEF vars, readerVars, deviceVars, Sent
  <2>2. \A c \in Callers : pc' = pc /\ (Waits(c)' => Waits(c))
    BY <1>1 DEF vars, callVars, flagVars, Waits, OnAsyncPath
  <2>. QED
    BY <1>1, <2>1, <2>2, AnsweredKept DEF vars, replyVars, callVars, readerVars, otherVars
<1>. QED
  BY <1>1, CallerAnswered, OthersAnswered DEF Next

(* The invariant of XrealUsbSession's command side: who holds the command    *)
(* lock, which path a call is on, whose reply is awaited, and how far close  *)
(* has come. *)
THEOREM CommandInvariant == Spec => []CommandInv
  BY InitCommandInv, NextCommandInv, PTL DEF Spec

(* Every variable of the session keeps its type. *)
THEOREM CommandTypeCorrect == Spec => []TypeOK
<1>1. CommandInv => TypeOK
  BY DEF CommandInv, ExchangeInv
<1>. QED
  BY <1>1, CommandInvariant, PTL

(* mcu() with a response timeout returns only an intact reply to the request *)
(* it sent. *)
THEOREM TimedRepliesAreOwn == Spec => []TimedReplyIsOwn
<1>1. CommandInv => TimedReplyIsOwn
  BY DEF CommandInv, ExchangeInv
<1>. QED
  BY <1>1, CommandInvariant, PTL

(* The receiver is the only reader of the MCU IN endpoint while it lives. *)
THEOREM ReceiverIsOnlyReader == Spec => []ReceiverOwnsEndpoint
<1>1. CommandInv => ReceiverOwnsEndpoint
  BY DEF CommandInv, ExchangeInv, PathInv, ReceiverOwnsEndpoint, OnAsyncPath
<1>. QED
  BY <1>1, CommandInvariant, PTL

(* No thread is inside a transfer once close() has released the handle, even *)
(* when start_mcu_stream() raced it. *)
THEOREM NoTransferOnReleasedHandle == Spec => []NoTransferAfterRelease
<1>1. CommandInv => NoTransferAfterRelease
  BY Distinct DEF CommandInv, ExchangeInv, CloseInv, LockInv, NoTransferAfterRelease
<1>. QED
  BY <1>1, CommandInvariant, PTL

(* A pending request and a published reply belong to the caller inside the   *)
(* command lock. *)
THEOREM PendingRequestsAreOwned == Spec => []PendingIsOwned
<1>1. CommandInv => PendingIsOwned
  BY DEF CommandInv, ExchangeInv, PendingInv, NothingPendingInv, PendingIsOwned
<1>. QED
  BY <1>1, CommandInvariant, PTL

(* An intact reply that was offered to a caller before it stopped waiting is what *)
(* the call returns, or the copy of it that came first. *)
THEOREM OfferedRepliesAreReturned == Spec => OfferedReplyIsReturned
<1>1. CommandInv /\ [Next]_vars =>
        [\A c \in Callers :
            pc[c] = "wait" /\ pc'[c] = "idle" /\ wrote[c] /\ id[c] \in answered
                => result'[c] # NoReply]_vars
  <2> SUFFICES ASSUME CommandInv, Next, NEW c \in Callers,
                      pc[c] = "wait", pc'[c] = "idle", wrote[c], id[c] \in answered
               PROVE  result'[c] # NoReply
    OBVIOUS
  <2>1. Waits(c) /\ reply # NoReply /\ TypeOK /\ commandLock = c
    BY DEF CommandInv, ExchangeInv, AnsweredInv, PathInv, LockInv, Waits
  <2>2. CASE Wake(c) \/ TimeOut(c)
    BY <2>1, <2>2 DEF Wake, TimeOut, TakeReply, Return, TypeOK
  <2>3. ASSUME ~(Wake(c) \/ TimeOut(c)) PROVE FALSE
    <3>1. ASSUME NEW d \in Callers, NEW kd \in EntryPoints, NEW k \in Commands, Call(d, kd, k)
          PROVE  FALSE
      BY <2>1, <3>1, Distinct DEF Call
    <3>2. ASSUME NEW d \in Callers, CallerStep(d), d # c
          PROVE  FALSE
      BY <2>1, <3>2 DEF CallerStep, Route, Install, WriteDone, WriteFails, Wake, TimeOut, SyncTop,
           SyncReadPacket, SyncReadNothing, CommandInv, ExchangeInv, LockInv
    <3>3. ASSUME CallerStep(c)
          PROVE  FALSE
      BY <2>3, <3>3 DEF CallerStep, Route, Install, WriteDone, WriteFails, SyncTop,
           SyncReadPacket, SyncReadNothing
    <3>4. ASSUME \/ ReaderLoop \/ SinkPublish \/ StartLock \/ StarterStep
                 \/ SetSink \/ CloseSinks \/ CloserStep \/ DeviceAnswer
          PROVE  pc' = pc
      BY <3>4 DEF ReaderLoop, SinkPublish, ReaderTop, ReaderPacket, ReaderNothing,
         ReaderError, ReaderEnterSink, ReaderLeaveSink, ReaderPublish, ReaderEnd,
         readerOnlyUnchanged, StartLock, StarterStep, StartJoin, StartSpawn, SetSink,
         CloseSinks, CloserStep, CloseFlag, CloseJoin, CloseRelease, DeviceAnswer, callVars
    <3>. QED
      BY <3>1, <3>2, <3>3, <3>4 DEF Next
  <2>. QED
    BY <2>2, <2>3
<1>. QED
  BY <1>1, CommandInvariant, PTL DEF Spec, OfferedReplyIsReturned

-----------------------------------------------------------------------------
(* Refinement of CommandChannel *)

chanVars == <<handleOpen, commandLock, nextId, kind, cmd, id, result>>

(* Initial states of the session are initial states of the channel. *)
LEMMA InitChannel == Init => Channel!Init
  BY Distinct DEF Init, Channel!Init

(* A step of a caller is a step of the channel or leaves it alone. *)
LEMMA CallerRefines ==
  ASSUME CommandInv, CommandInv', NEW c \in Callers,
         \/ \E kd \in EntryPoints, k \in Commands : Call(c, kd, k)
         \/ CallerStep(c)
  PROVE  Channel!Next \/ UNCHANGED Channel!vars
<1> USE Distinct
<1>0. TypeOK /\ (pc[c] # "idle" => commandLock = c)
  BY DEF CommandInv, ExchangeInv, LockInv
<1>1. ASSUME NEW kd \in EntryPoints, NEW k \in Commands, Call(c, kd, k)
      PROVE  Channel!Issue(c)
  <2>1. kd \in {"mcu", "timed", "imu"}
    BY CommandAssumption DEF Kinds
  <2>2. handleOpen \/ ~running
    BY DEF CommandInv, ExchangeInv, CloseInv, TypeOK
  <2>3. nextId' - 1 = (nextId - 1) + 1 /\ nextId = (nextId - 1) + 1
    BY <1>0, <1>1 DEF Call, TypeOK
  <2>. QED
    BY <1>1, <2>1, <2>2, <2>3 DEF Call, Channel!Issue
<1>2. ASSUME NEW r \in Packet \cup {NoReply}, Return(c, r), commandLock = c,
             r # NoReply => SyncAccepts(c, r) \/ Matches(r, cmd[c], id[c]),
             UNCHANGED <<handleOpen, nextId>>
      PROVE  Channel!Finish(c)
  <2>1. result'[c] = r /\ result' = [result EXCEPT ![c] = result'[c]]
    BY <1>0, <1>2 DEF Return, TypeOK
  <2>2. r # NoReply => Channel!Answers(r, c)
    BY <1>2 DEF Channel!Answers, SyncAccepts, Matches
  <2>3. Channel!Packet = Packet
    BY DEF Channel!Packet, Packet
  <2>. QED
    BY <1>2, <2>1, <2>2, <2>3 DEF Return, Channel!Finish
<1>3. ASSUME UNCHANGED chanVars
      PROVE  UNCHANGED Channel!vars
  BY <1>3 DEF chanVars, Channel!vars
<1>4. CASE Route(c)
  BY <1>0, <1>2, <1>3, <1>4 DEF Route, Goto, otherVars, chanVars, Channel!Next
<1>5. CASE Install(c)
  BY <1>3, <1>5 DEF Install, Goto, otherVars, chanVars
<1>6. CASE WriteDone(c)
  BY <1>3, <1>6 DEF WriteDone, otherVars, chanVars
<1>7. CASE WriteFails(c)
  BY <1>0, <1>2, <1>3, <1>7 DEF WriteFails, Goto, otherVars, chanVars, Channel!Next
<1>8. ASSUME Wake(c) \/ TimeOut(c)
      PROVE  Channel!Finish(c)
  <2>1. commandLock = c /\ TakeReply(c)
    BY <1>0, <1>8 DEF Wake, TimeOut
  <2>2. reply \in Packet \cup {NoReply}
    BY <1>0 DEF TypeOK
  <2>3. reply # NoReply => Matches(reply, cmd[c], id[c])
    BY <2>1 DEF CommandInv, ExchangeInv, PendingInv
  <2>. QED
    BY <1>2, <2>1, <2>2, <2>3 DEF TakeReply, otherVars
<1>9. CASE SyncTop(c)
  BY <1>0, <1>2, <1>3, <1>9 DEF SyncTop, Goto, otherVars, chanVars, Channel!Next
<1>10. CASE SyncReadPacket(c)
  <2> DEFINE p == Head(wire[EndpointOf(kind[c])])
  <2>1. EndpointOf(kind[c]) \in Endpoints
    BY DEF EndpointOf, Endpoints
  <2>2. p \in Packet
    BY <1>0, <1>10, <2>1 DEF SyncReadPacket, TypeOK
  <2>. QED
    BY <1>0, <1>2, <1>3, <1>10, <2>2
       DEF SyncReadPacket, Goto, otherVars, chanVars, Channel!Next
<1>11. CASE SyncReadNothing(c)
  BY <1>3, <1>11 DEF SyncReadNothing, Goto, otherVars, chanVars
<1>. QED
  BY <1>1, <1>4, <1>5, <1>6, <1>7, <1>8, <1>9, <1>10, <1>11
     DEF CallerStep, Channel!Next

(* Every other step but the release of the handle leaves the channel alone. *)
LEMMA ThreadsRefine ==
  ASSUME CommandInv,
         \/ ReaderLoop \/ SinkPublish \/ StartLock \/ StarterStep
         \/ SetSink \/ CloseSinks \/ CloserStep \/ DeviceAnswer
  PROVE  Channel!Next \/ UNCHANGED Channel!vars
<1> USE DEF callVars, otherVars
<1>1. CASE ReaderLoop \/ SinkPublish
  BY <1>1 DEF ReaderLoop, SinkPublish, ReaderTop, ReaderPacket, ReaderNothing,
     ReaderError, ReaderEnterSink, ReaderLeaveSink, ReaderPublish, ReaderEnd,
     readerOnlyUnchanged, Channel!vars
<1>2. CASE StartLock \/ StarterStep
  <2>1. commandLock \in {Nobody, Starter} /\ commandLock' \in {Nobody, Starter}
    BY <1>2 DEF CommandInv, ExchangeInv, LockInv, StartLock, StarterStep, StartJoin, StartSpawn
  <2>. QED
    BY <1>2, <2>1 DEF StartLock, StarterStep, StartJoin, StartSpawn, Channel!vars
<1>3. CASE SetSink \/ CloseSinks \/ DeviceAnswer
  BY <1>3 DEF SetSink, CloseSinks, DeviceAnswer, Channel!vars
<1>4. CASE CloseFlag \/ CloseJoin
  BY <1>4 DEF CloseFlag, CloseJoin, Channel!vars
<1>5. CASE CloseRelease
  BY <1>5 DEF CommandInv, ExchangeInv, CloseInv, TypeOK, CloseRelease, Channel!Release,
     Channel!Next
<1>. QED
  BY <1>1, <1>2, <1>3, <1>4, <1>5 DEF CloserStep

(* The command side of XrealUsbSession implements the channel its callers    *)
(* are promised: serialized exchanges, answers of their own, none after the  *)
(* release of the handle. *)
THEOREM CommandRefinesChannel == Spec => ImplementsChannel
<1>1. CommandInv /\ CommandInv' /\ [Next]_vars => [Channel!Next]_(Channel!vars)
  <2> SUFFICES ASSUME CommandInv, CommandInv', [Next]_vars
               PROVE  Channel!Next \/ UNCHANGED Channel!vars
    OBVIOUS
  <2>1. CASE UNCHANGED vars
    BY <2>1 DEF vars, callVars, otherVars, Channel!vars
  <2>. QED
    BY <2>1, CallerRefines, ThreadsRefine DEF Next
<1>. QED
  BY <1>1, InitChannel, CommandInvariant, PTL DEF Spec, ImplementsChannel, Channel!Spec

-----------------------------------------------------------------------------
(***************************************************************************)
(* The frames of the XREAL Eye's camera and the answers of the VITURE      *)
(* Beast.  Their invariants say what must be in a queue or in a file's     *)
(* bytes for the properties of XrealEye and VitureBeast to be kept.        *)
(***************************************************************************)

\* The frames that are sent, and what the bytes of one are.
EyeFrames == [command : {EyeVideo, EyeOther}, payload : Eye!Payloads]
EyeFound == [command : Nat, payload : Seq(Nat)]
EyeByte(f, p) == CASE p = 1 -> EyeMark
                   [] p = 2 -> f.command
                   [] p = 3 -> Len(f.payload)
                   [] OTHER -> f.payload[p - 3]

\* What was read and what is on the wire are the last frame sent.
EyeAligned ==
    /\ eyeSent # <<>> /\ video # <<>>
    /\ Len(got) + Len(video) = 3 + Len(eyeSent[Len(eyeSent)].payload)
    /\ \A p \in 1..Len(got) : got[p] = EyeByte(eyeSent[Len(eyeSent)], p)
    /\ \A p \in 1..Len(video) : video[p] = EyeByte(eyeSent[Len(eyeSent)], Len(got) + p)

EyeTypes ==
    /\ Eye!TypeOK
    /\ eyeSent \in Seq(EyeFrames) /\ found \in Seq(EyeFound) /\ returned \in Seq(EyeFound)
    /\ acks \in Seq([command : {"start", "stop", "other"}, sequence : Nat, ok : BOOLEAN])
    /\ eyeOwed \in {Eye!Nothing} \cup [command : {"start", "stop"}, sequence : Nat]

\* The phases in the order of a session: what it has sent, what it may be answered, and
\* what is open.
EyeControl ==
    /\ sequence = CASE eyePhase \in {"video", "control", "start"} -> 1
                    [] eyePhase \in {"awaitStart", "open", "stop", "abandon"} -> 2
                    [] eyePhase \in {"awaitStop", "closeSockets", "closed"} -> 3
                    [] OTHER -> sequence
    /\ eyePhase \in {"awaitStart", "awaitStop"} => tries < Tries
    /\ eyePhase \in {"video", "control", "start"} => eyeOwed = Eye!Nothing /\ acks = <<>>
    /\ eyePhase \in {"awaitStart", "open"} => eyeOwed.command # "stop"
    /\ eyePhase = "awaitStart" =>
         \A i \in DOMAIN acks :
            acks[i].command = "start" /\ acks[i].sequence = 1 /\ acks[i].ok => sending
    /\ eyePhase = "open" => sending
    /\ sockets = CASE eyePhase = "video" -> {}
                   [] eyePhase = "control" -> {"video"}
                   [] eyePhase = "closed" -> {}
                   [] eyePhase = "failed" -> IF sequence > 1 THEN {} ELSE sockets
                   [] OTHER -> {"video", "control"}
    /\ eyeClosed <=> eyePhase \in {"stop", "awaitStop", "closeSockets", "closed"}

EyeReader ==
    /\ reading => eyePhase \in {"open", "stop", "awaitStop", "closeSockets", "closed"}
    /\ ~reading => got = <<>>
    /\ lateFrames <= 1 /\ (lateFrames > 0 => eyeClosed /\ ~reading)

\* As long as no read ended in the middle of a frame.
EyeSynchronous ==
    ~torn => /\ Len(found) <= Len(eyeSent) /\ \A i \in 1..Len(found) : found[i] = eyeSent[i]
             /\ reading \/ ~eyeClosed =>
                  \/ got = <<>> /\ video = <<>> /\ Len(found) = Len(eyeSent)
                  \/ EyeAligned /\ Len(found) = Len(eyeSent) - 1

\* As long as nothing in a frame looks like the beginning of one.
EyeResynchronizes ==
    (\A i \in DOMAIN eyeSent : Eye!Unmistakable(eyeSent[i])) =>
        \E place \in [DOMAIN found -> DOMAIN eyeSent] :
            /\ \A i \in DOMAIN found :
                  /\ found[i] = eyeSent[place[i]]
                  /\ \A j \in DOMAIN found : i < j => place[i] < place[j]
            /\ \/ got = <<>> /\ \A p \in DOMAIN video : video[p] # EyeMark
               \/ EyeAligned /\ \A i \in DOMAIN found : place[i] < Len(eyeSent)

EyeShown ==
    /\ Len(returned) = Cardinality(Eye!Shown(Len(found)))
    /\ \A i \in Eye!Shown(Len(found)) : returned[Cardinality(Eye!Shown(i))] = found[i]

EyeIInv == EyeTypes /\ EyeControl /\ EyeReader /\ EyeSynchronous /\ EyeResynchronizes /\ EyeShown

\* A payload is bytes, no more than MaxPayload of them.
LEMMA EyePayload ==
    ASSUME Eye!EyeAssumption, NEW p \in Eye!Payloads
    PROVE  /\ Len(p) \in Nat /\ Len(p) <= MaxPayload /\ p \in Seq(Nat) /\ DOMAIN p = 1..Len(p)
           /\ \A i \in 1..Len(p) : p[i] \in EyeBytes /\ p[i] \in Nat
<1>1. PICK n \in 0..MaxPayload : p \in [1..n -> EyeBytes]
    BY DEF Eye!Payloads
<1>2. MaxPayload \in Nat /\ EyeBytes \subseteq Nat /\ n \in Nat /\ n <= MaxPayload
    BY DEF Eye!EyeAssumption
<1>3. p \in [1..n -> Nat]
    BY <1>1, <1>2
<1>4. p \in Seq(Nat) /\ Len(p) = n
    BY <1>2, <1>3
<1> QED BY <1>1, <1>2, <1>3, <1>4

\* The last frame that was sent.
LEMMA EyeLastFrame ==
    ASSUME Eye!EyeAssumption, EyeTypes, eyeSent # <<>>
    PROVE  LET f == eyeSent[Len(eyeSent)] IN
           /\ f \in EyeFrames /\ f.command \in {EyeVideo, EyeOther} /\ f.command \in Nat
           /\ f.payload \in Eye!Payloads
           /\ Len(f.payload) \in Nat /\ Len(f.payload) <= MaxPayload /\ f.payload \in Seq(Nat)
           /\ DOMAIN f.payload = 1..Len(f.payload)
           /\ Len(eyeSent) \in DOMAIN eyeSent /\ Len(eyeSent) \in Nat \ {0}
<1>1. eyeSent \in Seq(EyeFrames)
    BY DEF EyeTypes
<1>2. Len(eyeSent) \in Nat \ {0} /\ DOMAIN eyeSent = 1..Len(eyeSent)
    BY <1>1
<1>3. eyeSent[Len(eyeSent)] \in EyeFrames
    BY <1>1, <1>2
<1> DEFINE f == eyeSent[Len(eyeSent)]
<1>4. f.command \in {EyeVideo, EyeOther} /\ f.payload \in Eye!Payloads
    BY <1>3 DEF EyeFrames
<1>5. f.command \in Nat
    BY <1>4 DEF Eye!EyeAssumption
<1> HIDE DEF f
<1>6. Len(f.payload) \in Nat /\ Len(f.payload) <= MaxPayload /\ f.payload \in Seq(Nat) /\ DOMAIN f.payload = 1..Len(f.payload)
    BY <1>4, EyePayload
<1> QED BY <1>2, <1>3, <1>4, <1>5, <1>6 DEF f

\* What follows the first three bytes.
LEMMA EyeRest ==
    ASSUME NEW s \in Seq(Nat), NEW t \in Seq(Nat), Len(s) = 3 + Len(t), \A p \in 1..Len(t) : s[p + 3] = t[p]
    PROVE  SubSeq(s, 4, Len(s)) = t
<1>1. SubSeq(s, 4, Len(s)) \in Seq(Nat)
    OBVIOUS
<1>2. Len(SubSeq(s, 4, Len(s))) = Len(t)
    OBVIOUS
<1>3. \A p \in 1..Len(t) : SubSeq(s, 4, Len(s))[p] = s[p + 3]
    OBVIOUS
<1> QED BY <1>1, <1>2, <1>3

\* What two sequences of bytes hold when they are joined.
LEMMA EyeJoined ==
    ASSUME NEW s \in Seq(Nat), NEW t \in Seq(Nat)
    PROVE  /\ s \o t \in Seq(Nat) /\ Len(s \o t) = Len(s) + Len(t)
           /\ \A p \in 1..Len(s) : (s \o t)[p] = s[p]
           /\ \A p \in 1..Len(t) : (s \o t)[Len(s) + p] = t[p]
<1>1. s \o t \in Seq(Nat) /\ Len(s \o t) = Len(s) + Len(t)
    OBVIOUS
<1>2. \A p \in 1..Len(s) : (s \o t)[p] = s[p]
    OBVIOUS
<1>3. \A p \in 1..Len(t) : (s \o t)[Len(s) + p] = t[p]
    OBVIOUS
<1> QED BY <1>1, <1>2, <1>3

\* The payload that is behind a frame's first three bytes.
LEMMA EyeEnd == ASSUME NEW s \in Seq(Nat), Len(s) >= 3 PROVE SubSeq(s, 4, Len(s)) \in Seq(Nat)
OBVIOUS

\* The next byte of a frame under way.
LEMMA EyeNextByte ==
    ASSUME Eye!EyeAssumption, EyeTypes, EyeAligned
    PROVE  LET f == eyeSent[Len(eyeSent)] IN
           /\ Eye!Taken = Append(got, Head(video))
           /\ Len(Eye!Taken) + Len(Tail(video)) = 3 + Len(f.payload)
           /\ \A p \in 1..Len(Eye!Taken) : Eye!Taken[p] = EyeByte(f, p)
           /\ \A p \in 1..Len(Tail(video)) : Tail(video)[p] = EyeByte(f, Len(Eye!Taken) + p)
           /\ Eye!IsWhole(Eye!Taken) <=> Tail(video) = <<>>
           /\ Len(Eye!Taken) >= 3 => Eye!Taken[3] <= MaxPayload
           /\ Tail(video) = <<>> => Eye!FrameOf(Eye!Taken) = f
<1> DEFINE f == eyeSent[Len(eyeSent)]
           all == Append(got, Head(video))
           rest == Tail(video)
           size == 3 + Len(f.payload)
<1>1. /\ f \in EyeFrames /\ f.command \in Nat
      /\ Len(f.payload) \in Nat /\ Len(f.payload) <= MaxPayload /\ f.payload \in Seq(Nat)
      /\ DOMAIN f.payload = 1..Len(f.payload)
    BY EyeLastFrame DEF EyeAligned
<1> HIDE DEF f
<1>2. /\ got \in Seq(Nat) /\ video \in Seq(Nat) /\ video # <<>>
    BY DEF EyeTypes, Eye!TypeOK, EyeAligned
<1>3. /\ Len(got) + Len(video) = size
      /\ \A p \in 1..Len(got) : got[p] = EyeByte(f, p)
      /\ \A p \in 1..Len(video) : video[p] = EyeByte(f, Len(got) + p)
    BY DEF EyeAligned, f
<1>4. /\ Len(got) \in Nat /\ Len(video) \in Nat \ {0} /\ Head(video) = video[1]
      /\ Len(rest) = Len(video) - 1 /\ Len(rest) \in Nat /\ rest \in Seq(Nat)
      /\ \A p \in 1..Len(rest) : rest[p] = video[p + 1]
      /\ all \in Seq(Nat) /\ Len(all) = Len(got) + 1 /\ all[Len(all)] = video[1]
      /\ \A p \in 1..Len(got) : all[p] = got[p]
    BY <1>2
<1>5. Len(all) + Len(rest) = size
    BY <1>1, <1>3, <1>4
<1>6. \A p \in 1..Len(all) : all[p] = EyeByte(f, p)
    <2> SUFFICES ASSUME NEW p \in 1..Len(all) PROVE all[p] = EyeByte(f, p)
        OBVIOUS
    <2> HIDE DEF all, rest
    <2>1. CASE p \in 1..Len(got)
        BY <1>3, <1>4, <2>1
    <2>2. CASE p = Len(got) + 1
        BY <1>3, <1>4, <2>2
    <2> QED BY <1>4, <2>1, <2>2
<1>7. \A p \in 1..Len(rest) : rest[p] = EyeByte(f, Len(all) + p)
    <2> SUFFICES ASSUME NEW p \in 1..Len(rest) PROVE rest[p] = EyeByte(f, Len(all) + p)
        OBVIOUS
    <2> HIDE DEF all, rest
    <2>1. p + 1 \in 1..Len(video) /\ Len(got) + (p + 1) = Len(all) + p
        BY <1>4
    <2> QED BY <1>3, <1>4, <2>1
<1>8. Eye!Taken = all
    <2>1. CASE got = <<>>
        <3>1. 1 \in 1..Len(all) /\ all[1] = video[1]
            BY <1>4, <2>1
        <3>2. Head(video) = EyeMark
            BY <1>4, <1>6, <3>1 DEF EyeByte
        <3> QED BY <2>1, <3>2 DEF Eye!Taken
    <2>2. CASE got # <<>>
        BY <2>2 DEF Eye!Taken
    <2> QED BY <2>1, <2>2
<1>9. Len(all) >= 3 => all[3] = Len(f.payload)
    <2> HIDE DEF all, rest
    <2> QED BY <1>4, <1>6 DEF EyeByte
<1>10. Eye!IsWhole(all) <=> rest = <<>>
    <2>1. Eye!IsWhole(all) <=> Len(all) >= 3 /\ Len(all) = 3 + all[3]
        BY DEF Eye!IsWhole
    <2> HIDE DEF all, rest
    <2>2. rest = <<>> <=> Len(rest) = 0
        BY <1>4
    <2>3. Len(all) \in Nat /\ Len(rest) \in Nat /\ Len(all) + Len(rest) = 3 + Len(f.payload)
        BY <1>4, <1>5
    <2>4. Len(rest) = 0 <=> Len(all) >= 3 /\ Len(all) = 3 + Len(f.payload)
        BY <1>1, <2>3
    <2> QED BY <1>9, <2>1, <2>2, <2>4
<1>11. ASSUME rest = <<>>
       PROVE  Eye!FrameOf(all) = f
    <2>1. Len(all) = 3 + Len(f.payload)
        <3> HIDE DEF all, rest
        <3>1. Len(rest) = 0
            BY <1>11
        <3>2. Len(all) \in Nat
            BY <1>4
        <3> QED BY <1>5, <3>1, <3>2
    <2> HIDE DEF all, rest
    <2>2. all[2] = f.command
        BY <1>1, <1>6, <2>1 DEF EyeByte
    <2>3. SubSeq(all, 4, Len(all)) = f.payload
        <3>2. ASSUME NEW p \in 1..Len(f.payload)
              PROVE  all[p + 3] = f.payload[p]
            <4>1. p + 3 \in 1..Len(all) /\ p + 3 \notin 1..3 /\ (p + 3) - 3 = p
                BY <1>1, <2>1
            <4> QED BY <1>6, <4>1 DEF EyeByte
        <3> QED BY <1>1, <1>4, <2>1, <3>2, EyeRest
    <2> QED BY <1>1, <2>2, <2>3 DEF Eye!FrameOf, EyeFrames
<1>12. Len(all) >= 3 => all[3] <= MaxPayload
    BY <1>1, <1>9
<1> HIDE DEF all, rest, size
<1>13. Len(all) + Len(rest) = 3 + Len(f.payload)
    BY <1>5 DEF size
<1> QED BY <1>13, <1>6, <1>7, <1>8, <1>10, <1>11, <1>12 DEF f, all, rest

\* A byte of it is read, and it is not the last.
LEMMA EyeStaysAligned ==
    ASSUME Eye!EyeAssumption, EyeTypes, EyeAligned, eyeSent' = eyeSent, video' = Tail(video),
           got' = Eye!Taken, video' # <<>>
    PROVE  EyeAligned'
BY EyeNextByte DEF EyeAligned

\* Of a frame that nothing in which looks like the beginning of one, what is left does not.
LEMMA EyeNoMark ==
    ASSUME Eye!EyeAssumption, EyeTypes, EyeAligned, got # <<>>,
           \A i \in DOMAIN eyeSent : Eye!Unmistakable(eyeSent[i])
    PROVE  \A p \in DOMAIN video : video[p] # EyeMark
<1> DEFINE f == eyeSent[Len(eyeSent)]
<1>1. /\ f.command \in {EyeVideo, EyeOther} /\ Len(f.payload) \in Nat /\ DOMAIN f.payload = 1..Len(f.payload)
      /\ Len(eyeSent) \in DOMAIN eyeSent
    BY EyeLastFrame DEF EyeAligned
<1>2. Eye!Unmistakable(f)
    BY <1>1
<1> HIDE DEF f
<1>3. f.command # EyeMark /\ Len(f.payload) # EyeMark /\ \A p \in 1..Len(f.payload) : f.payload[p] # EyeMark
    <2>1. f.command # EyeMark
        BY <1>1 DEF Eye!EyeAssumption
    <2>2. EyeMark \notin Eye!ToSet(f.payload) \cup {Len(f.payload)}
        BY <1>2 DEF Eye!Unmistakable
    <2> QED BY <1>1, <2>1, <2>2 DEF Eye!ToSet
<1>4. /\ Len(got) \in Nat \ {0} /\ Len(video) \in Nat /\ DOMAIN video = 1..Len(video)
    <2>1. got \in Seq(Nat) /\ video \in Seq(Nat)
        BY DEF EyeTypes, Eye!TypeOK
    <2> QED BY <2>1
<1>5. Len(got) + Len(video) = 3 + Len(f.payload) /\ \A p \in 1..Len(video) : video[p] = EyeByte(f, Len(got) + p)
    BY DEF EyeAligned, f
<1>6. ASSUME NEW p \in 1..Len(video)
      PROVE  video[p] # EyeMark
    <2> DEFINE q == Len(got) + p
    <2>1. q \in 2..(3 + Len(f.payload)) /\ video[p] = EyeByte(f, q)
        BY <1>1, <1>4, <1>5
    <2> HIDE DEF q
    <2>2. q = 2 \/ q = 3 \/ (q # 1 /\ q # 2 /\ q # 3 /\ q - 3 \in 1..Len(f.payload))
        BY <1>1, <2>1
    <2> QED BY <1>3, <2>1, <2>2 DEF EyeByte
<1> QED BY <1>4, <1>6

\* A frame under way is given up.
LEMMA EyeGivenUp ==
    ASSUME Eye!EyeAssumption, EyeTypes, EyeResynchronizes, UNCHANGED <<eyeSent, video, found>>, got' = <<>>
    PROVE  EyeResynchronizes'
<1> SUFFICES ASSUME \A i \in DOMAIN eyeSent : Eye!Unmistakable(eyeSent[i])
             PROVE  \E place \in [DOMAIN found -> DOMAIN eyeSent] :
                      /\ \A i \in DOMAIN found :
                            /\ found[i] = eyeSent[place[i]]
                            /\ \A j \in DOMAIN found : i < j => place[i] < place[j]
                      /\ \/ \A p \in DOMAIN video : video[p] # EyeMark
                         \/ EyeAligned' /\ \A i \in DOMAIN found : place[i] < Len(eyeSent)
    BY DEF EyeResynchronizes, Eye!Unmistakable
<1>1. PICK place \in [DOMAIN found -> DOMAIN eyeSent] :
            /\ \A i \in DOMAIN found :
                  /\ found[i] = eyeSent[place[i]]
                  /\ \A j \in DOMAIN found : i < j => place[i] < place[j]
            /\ \/ got = <<>> /\ \A p \in DOMAIN video : video[p] # EyeMark
               \/ EyeAligned /\ \A i \in DOMAIN found : place[i] < Len(eyeSent)
    BY DEF EyeResynchronizes
<1>2. EyeAligned => EyeAligned' \/ \A p \in DOMAIN video : video[p] # EyeMark
    <2>1. ASSUME EyeAligned, got = <<>>
          PROVE  EyeAligned'
        BY <2>1 DEF EyeAligned
    <2> QED BY <2>1, EyeNoMark
<1> QED BY <1>1, <1>2

\* A byte of the frame that is read.
LEMMA EyeReadByteKeeps ==
    ASSUME Eye!EyeAssumption, EyeIInv, Eye!ReadByte
    PROVE  EyeIInv'
<1> USE DEF EyeIInv
<1>1. /\ UNCHANGED <<eyePhase, sockets, sequence, tries, eyeOwed, acks, sending, eyeClosed, reading, eyeSent,
                     found, returned, torn, lateFrames>>
      /\ reading /\ video # <<>> /\ video' = Tail(video) /\ got' = Eye!Taken /\ ~Eye!IsWhole(Eye!Taken)
    BY DEF Eye!ReadByte, Eye!Takes, Eye!controlVars
<1>2. got \in Seq(Nat) /\ video \in Seq(Nat) /\ got' \in Seq(Nat) /\ video' \in Seq(Nat)
    <2>1. got \in Seq(Nat) /\ video \in Seq(Nat)
        BY DEF EyeTypes, Eye!TypeOK
    <2>2. Head(video) \in Nat /\ Tail(video) \in Seq(Nat)
        BY <1>1, <2>1
    <2> QED BY <1>1, <2>1, <2>2 DEF Eye!Taken
<1>3. EyeAligned => EyeAligned'
    <2> SUFFICES ASSUME EyeAligned PROVE EyeAligned'
        OBVIOUS
    <2>1. video' # <<>>
        BY <1>1, EyeNextByte
    <2> QED BY <1>1, <2>1, EyeStaysAligned
<1>4. EyeTypes'
    BY <1>1, <1>2 DEF EyeTypes, Eye!TypeOK
<1>5. EyeControl'
    BY <1>1 DEF EyeControl, Eye!Nothing
<1>6. EyeReader'
    BY <1>1 DEF EyeReader
<1>7. EyeSynchronous'
    BY <1>1, <1>3 DEF EyeSynchronous
<1>8. EyeResynchronizes'
    <2> SUFFICES ASSUME \A i \in DOMAIN eyeSent : Eye!Unmistakable(eyeSent[i])
                 PROVE  \E place \in [DOMAIN found -> DOMAIN eyeSent] :
                          /\ \A i \in DOMAIN found :
                                /\ found[i] = eyeSent[place[i]]
                                /\ \A j \in DOMAIN found : i < j => place[i] < place[j]
                          /\ \/ got' = <<>> /\ \A p \in DOMAIN video' : video'[p] # EyeMark
                             \/ EyeAligned' /\ \A i \in DOMAIN found : place[i] < Len(eyeSent)
        BY <1>1 DEF EyeResynchronizes, Eye!Unmistakable
    <2>1. PICK place \in [DOMAIN found -> DOMAIN eyeSent] :
            /\ \A i \in DOMAIN found :
                  /\ found[i] = eyeSent[place[i]]
                  /\ \A j \in DOMAIN found : i < j => place[i] < place[j]
            /\ \/ got = <<>> /\ \A p \in DOMAIN video : video[p] # EyeMark
               \/ EyeAligned /\ \A i \in DOMAIN found : place[i] < Len(eyeSent)
        BY DEF EyeResynchronizes
    <2>2. ASSUME got = <<>>, \A p \in DOMAIN video : video[p] # EyeMark
          PROVE  got' = <<>> /\ \A p \in DOMAIN video' : video'[p] # EyeMark
        <3>1. /\ DOMAIN video = 1..Len(video) /\ Len(video) \in Nat \ {0} /\ Head(video) = video[1]
              /\ DOMAIN video' = 1..Len(video)-1 /\ \A p \in 1..Len(video)-1 : video'[p] = video[p + 1]
            BY <1>1, <1>2
        <3>2. Head(video) # EyeMark
            BY <2>2, <3>1
        <3>3. got' = <<>>
            BY <1>1, <2>2, <3>2 DEF Eye!Taken
        <3> QED BY <2>2, <3>1, <3>3
    <2> QED BY <1>3, <2>1, <2>2
<1>9. EyeShown'
    BY <1>1 DEF EyeShown, Eye!Shown, Eye!IsShown
<1> QED BY <1>4, <1>5, <1>6, <1>7, <1>8, <1>9

\* An element of a sequence of numbers.
LEMMA EyeElement == ASSUME NEW s \in Seq(Nat), NEW i \in 1..Len(s) PROVE s[i] \in Nat
OBVIOUS

\* What has the length of a frame's head is not its beginning: a read had ended in the
\* middle of one, and something in one looks like the beginning of another.
LEMMA EyeInvalidSizeKeeps ==
    ASSUME Eye!EyeAssumption, EyeIInv, Eye!InvalidSize
    PROVE  EyeIInv'
<1> USE DEF EyeIInv
<1>1. /\ UNCHANGED <<eyePhase, sockets, sequence, tries, eyeOwed, acks, sending, eyeClosed, eyeSent,
                     found, returned, torn, lateFrames>>
      /\ reading /\ reading' = FALSE /\ video # <<>> /\ video' = Tail(video) /\ got' = <<>>
      /\ Len(Eye!Taken) = 3 /\ Eye!Taken[3] > MaxPayload
    BY DEF Eye!InvalidSize, Eye!Takes, Eye!controlVars
<1>2. got \in Seq(Nat) /\ video \in Seq(Nat) /\ video' \in Seq(Nat) /\ Head(video) \in Nat
    <2>1. got \in Seq(Nat) /\ video \in Seq(Nat)
        BY DEF EyeTypes, Eye!TypeOK
    <2> QED BY <1>1, <2>1
<1>3. ~EyeAligned
    <2>1. Eye!Taken \in Seq(Nat)
        BY <1>2 DEF Eye!Taken
    <2>2. MaxPayload \in Nat
        BY DEF Eye!EyeAssumption
    <2>3. Eye!Taken[3] \in Nat
        <3>1. 3 \in 1..Len(Eye!Taken)
            BY <1>1, <2>1
        <3> QED BY <2>1, <3>1, EyeElement
    <2>4. ~(Eye!Taken[3] <= MaxPayload)
        BY <1>1, <2>2, <2>3
    <2> QED BY <1>1, <2>4, EyeNextByte
<1>4. EyeTypes'
    <2>1. <<>> \in Seq(Nat)
        OBVIOUS
    <2>2. got' \in Seq(Nat) /\ reading' \in BOOLEAN
        BY <1>1, <2>1
    <2> QED BY <1>1, <1>2, <2>2 DEF EyeTypes, Eye!TypeOK
<1>5. EyeControl'
    BY <1>1 DEF EyeControl, Eye!Nothing
<1>6. EyeReader'
    BY <1>1 DEF EyeReader
<1>7. EyeSynchronous'
    BY <1>1, <1>3 DEF EyeSynchronous
<1>8. EyeResynchronizes'
    <2>1. ASSUME got = <<>>, \A p \in DOMAIN video : video[p] # EyeMark
          PROVE  FALSE
        <3>1. 1 \in DOMAIN video /\ Head(video) = video[1]
            BY <1>1, <1>2
        <3>2. Eye!Taken = <<>>
            BY <2>1, <3>1 DEF Eye!Taken
        <3> QED BY <1>1, <3>2
    <2>2. ~\A i \in DOMAIN eyeSent : Eye!Unmistakable(eyeSent[i])
        BY <1>3, <2>1 DEF EyeResynchronizes
    <2> QED BY <1>1, <2>2 DEF EyeResynchronizes, Eye!Unmistakable
<1>9. EyeShown'
    BY <1>1 DEF EyeShown, Eye!Shown, Eye!IsShown
<1> QED BY <1>4, <1>5, <1>6, <1>7, <1>8, <1>9

\* A read that ends leaves what was read of a frame behind, and the stream torn.
LEMMA EyeReadEndsKeeps ==
    ASSUME Eye!EyeAssumption, EyeIInv, Eye!ReadEnds \/ Eye!SocketClosed
    PROVE  EyeIInv'
<1> USE DEF EyeIInv
<1>1. /\ UNCHANGED <<eyePhase, sockets, sequence, tries, eyeOwed, acks, sending, eyeClosed, eyeSent, video,
                     found, returned, lateFrames>>
      /\ reading /\ reading' = FALSE /\ got' = <<>> /\ torn' \in BOOLEAN
      /\ ~torn' => ~torn /\ (got = <<>> \/ "video" \notin sockets)
    BY DEF Eye!ReadEnds, Eye!SocketClosed, Eye!controlVars, EyeTypes, Eye!TypeOK
<1>2. ~torn' => got = <<>> \/ eyeClosed
    <2>1. "video" \notin sockets => eyePhase = "closed"
        BY <1>1 DEF EyeReader, EyeControl
    <2>2. eyePhase = "closed" => eyeClosed
        BY DEF EyeControl
    <2> QED BY <1>1, <2>1, <2>2
<1>3. EyeTypes'
    <2>1. <<>> \in Seq(Nat)
        OBVIOUS
    <2>2. got' \in Seq(Nat) /\ reading' \in BOOLEAN
        BY <1>1, <2>1
    <2> QED BY <1>1, <2>2 DEF EyeTypes, Eye!TypeOK
<1>4. EyeControl'
    BY <1>1 DEF EyeControl, Eye!Nothing
<1>5. EyeReader'
    BY <1>1 DEF EyeReader
<1>6. EyeSynchronous'
    BY <1>1, <1>2 DEF EyeSynchronous, EyeAligned
<1>7. EyeResynchronizes'
    BY <1>1, EyeGivenUp
<1>8. EyeShown'
    BY <1>1 DEF EyeShown, Eye!Shown, Eye!IsShown
<1> QED BY <1>3, <1>4, <1>5, <1>6, <1>7, <1>8

\* A call of readHevcFrame().
LEMMA EyeReadHevcFrameKeeps ==
    ASSUME Eye!EyeAssumption, EyeIInv, Eye!ReadHevcFrame
    PROVE  EyeIInv'
<1> USE DEF EyeIInv
<1>1. /\ UNCHANGED <<eyePhase, sockets, sequence, tries, eyeOwed, acks, sending, eyeClosed, eyeSent, video,
                     found, returned, lateFrames, got, torn>>
      /\ ~reading /\ reading' = TRUE /\ ~eyeClosed
      /\ eyePhase \notin {"video", "control", "start", "awaitStart", "abandon", "failed"}
    BY DEF Eye!ReadHevcFrame, Eye!controlVars
<1>2. EyeTypes'
    BY <1>1 DEF EyeTypes, Eye!TypeOK
<1>3. EyeControl'
    BY <1>1 DEF EyeControl, Eye!Nothing
<1>4. EyeReader'
    BY <1>1 DEF EyeReader, EyeTypes, Eye!TypeOK
<1>5. EyeSynchronous'
    BY <1>1 DEF EyeSynchronous, EyeAligned
<1>6. EyeResynchronizes'
    BY <1>1 DEF EyeResynchronizes, EyeAligned, Eye!Unmistakable
<1>7. EyeShown'
    BY <1>1 DEF EyeShown, Eye!Shown, Eye!IsShown
<1> QED BY <1>2, <1>3, <1>4, <1>5, <1>6, <1>7

\* The Cardinality that the part sees is that of the composition.
LEMMA EyeCardinality == ASSUME NEW S PROVE Eye!Cardinality(S) = Cardinality(S)
BY DEF Eye!Cardinality, Cardinality

\* One more frame that is found, and is shown or not.
LEMMA EyeShownGrows ==
    ASSUME EyeShown, found \in Seq(EyeFound), returned \in Seq(EyeFound), NEW f \in EyeFound,
           found' = Append(found, f),
           returned' = IF Eye!IsShown(f) THEN Append(returned, f) ELSE returned
    PROVE  EyeShown'
<1> DEFINE n == Len(found)
           A(i) == {j \in 1..i : Eye!IsShown(found[j])}
           B(i) == {j \in 1..i : Eye!IsShown(found'[j])}
<1>1. /\ n \in Nat /\ Len(found') = n + 1 /\ found'[n + 1] = f
      /\ \A j \in 1..n : found'[j] = found[j]
      /\ Len(returned) \in Nat
    OBVIOUS
<1>2. \A i \in 1..n : B(i) = A(i) /\ B(i) \subseteq 1..n
    BY <1>1
<1>3. B(n) = A(n) /\ A(n) \subseteq 1..n
    BY <1>1
<1>4. B(n + 1) = IF Eye!IsShown(f) THEN A(n) \cup {n + 1} ELSE A(n)
    <2>1. 1..(n + 1) = (1..n) \cup {n + 1} /\ n + 1 \notin 1..n
        BY <1>1
    <2>2. ASSUME NEW j \in 1..n
          PROVE  j \in B(n + 1) <=> j \in A(n)
        BY <1>1, <2>1, <2>2
    <2>3. n + 1 \in B(n + 1) <=> Eye!IsShown(f)
        BY <1>1, <2>1
    <2> QED BY <1>3, <2>1, <2>2, <2>3
<1>5. /\ Len(returned) = Cardinality(A(n))
      /\ \A i \in A(n) : returned[Cardinality(A(i))] = found[i]
    BY EyeCardinality DEF EyeShown, Eye!Shown
<1> DEFINE Goal == /\ Len(returned') = Cardinality(B(n + 1))
                   /\ \A i \in B(n + 1) : returned'[Cardinality(B(i))] = found'[i]
<1>6. Goal => EyeShown'
    BY <1>1, EyeCardinality DEF EyeShown, Eye!Shown
<1>7. \A i \in 0..n : /\ IsFiniteSet(A(i)) /\ Cardinality(A(i)) \in Nat
                      /\ A(i) \subseteq A(n) /\ Cardinality(A(i)) <= Cardinality(A(n))
                      /\ i \in A(i) => Cardinality(A(i)) >= 1
    <2> SUFFICES ASSUME NEW i \in 0..n
                 PROVE  /\ IsFiniteSet(A(i)) /\ Cardinality(A(i)) \in Nat
                        /\ A(i) \subseteq A(n) /\ Cardinality(A(i)) <= Cardinality(A(n))
                        /\ i \in A(i) => Cardinality(A(i)) >= 1
        OBVIOUS
    <2>1. A(i) \in SUBSET (1..n) /\ A(n) \in SUBSET (1..n) /\ A(i) \in SUBSET A(n)
        BY <1>1
    <2>2. IsFiniteSet(1..n)
        BY <1>1, FS_Interval
    <2> HIDE DEF A, n
    <2>3. IsFiniteSet(A(i)) /\ IsFiniteSet(A(n))
        BY <2>1, <2>2, FS_Subset
    <2>4. Cardinality(A(i)) \in Nat /\ Cardinality(A(i)) <= Cardinality(A(n))
        BY <2>1, <2>3, FS_Subset, FS_CardinalityType
    <2>5. i \in A(i) => Cardinality(A(i)) # 0
        BY <2>3, FS_EmptySet
    <2> QED BY <2>1, <2>3, <2>4, <2>5
<1>8. CASE ~Eye!IsShown(f)
    BY <1>1, <1>2, <1>3, <1>4, <1>5, <1>6, <1>8
<1>9. CASE Eye!IsShown(f)
    <2>1. /\ Len(returned') = Len(returned) + 1 /\ returned'[Len(returned) + 1] = f
          /\ \A k \in 1..Len(returned) : returned'[k] = returned[k]
        BY <1>9
    <2>2. n \in 0..n /\ n + 1 \notin A(n)
        BY <1>1, <1>3
    <2> HIDE DEF A, B, n
    <2>3. Cardinality(B(n + 1)) = Cardinality(A(n)) + 1
        <3>1. IsFiniteSet(A(n))
            BY <1>7, <2>2
        <3>2. B(n + 1) = A(n) \cup {n + 1}
            BY <1>4, <1>9
        <3> QED BY <2>2, <3>1, <3>2, FS_AddElement
    <2>4. ASSUME NEW i \in A(n)
          PROVE  returned'[Cardinality(B(i))] = found'[i]
        <3>1. i \in 1..n /\ i \in 0..n /\ i \in A(i)
            BY <1>1, <1>3 DEF A
        <3>2. Cardinality(A(i)) \in 1..Len(returned)
            BY <1>1, <1>5, <1>7, <3>1
        <3> QED BY <1>1, <1>2, <1>5, <2>1, <3>1, <3>2
    <2>5. returned'[Cardinality(B(n + 1))] = found'[n + 1]
        BY <1>1, <1>5, <2>1, <2>3
    <2>6. Len(returned') = Cardinality(B(n + 1))
        BY <1>5, <2>1, <2>3
    <2> QED BY <1>4, <1>6, <1>9, <2>4, <2>5, <2>6
<1> QED BY <1>8, <1>9

\* The last byte of a frame: it is found, and returned if it is shown.
LEMMA EyeLastByteKeeps ==
    ASSUME Eye!EyeAssumption, EyeIInv, Eye!LastByte
    PROVE  EyeIInv'
<1> USE DEF EyeIInv
<1> DEFINE f == Eye!FrameOf(Eye!Taken)
           n == Len(eyeSent)
<1>1. /\ UNCHANGED <<eyePhase, sockets, sequence, tries, eyeOwed, acks, sending, eyeClosed, eyeSent, torn>>
      /\ reading /\ video # <<>> /\ video' = Tail(video) /\ got' = <<>> /\ Eye!IsWhole(Eye!Taken)
      /\ found' = Append(found, f)
      /\ returned' = IF Eye!IsShown(f) THEN Append(returned, f) ELSE returned
      /\ reading' = (~eyeClosed /\ ~Eye!IsShown(f))
      /\ lateFrames' = IF eyeClosed /\ Eye!IsShown(f) THEN lateFrames + 1 ELSE lateFrames
    BY DEF Eye!LastByte, Eye!Takes, Eye!controlVars, EyeTypes, Eye!TypeOK
<1>2. /\ got \in Seq(Nat) /\ video \in Seq(Nat) /\ video' \in Seq(Nat) /\ got' \in Seq(Nat)
      /\ Eye!Taken \in Seq(Nat) /\ eyeSent \in Seq(EyeFrames) /\ found \in Seq(EyeFound) /\ returned \in Seq(EyeFound)
    <2>1. /\ got \in Seq(Nat) /\ video \in Seq(Nat)
          /\ eyeSent \in Seq(EyeFrames) /\ found \in Seq(EyeFound) /\ returned \in Seq(EyeFound)
        BY DEF EyeTypes, Eye!TypeOK
    <2>2. Head(video) \in Nat /\ Tail(video) \in Seq(Nat)
        BY <1>1, <2>1
    <2>3. <<>> \in Seq(Nat)
        OBVIOUS
    <2> QED BY <1>1, <2>1, <2>2, <2>3 DEF Eye!Taken
<1>3. f \in EyeFound
    <2>1. Len(Eye!Taken) \in Nat /\ Len(Eye!Taken) >= 3
        BY <1>1, <1>2 DEF Eye!IsWhole
    <2>2. Eye!Taken[2] \in Nat /\ SubSeq(Eye!Taken, 4, Len(Eye!Taken)) \in Seq(Nat)
        <3>1. 2 \in 1..Len(Eye!Taken)
            BY <2>1
        <3> QED BY <1>2, <2>1, <3>1, EyeElement, EyeEnd
    <2> QED BY <2>2 DEF Eye!FrameOf, EyeFound
<1>4. EyeAligned => video' = <<>> /\ n \in Nat \ {0} /\ f = eyeSent[n] /\ n \in DOMAIN eyeSent
    BY <1>1, EyeNextByte, EyeLastFrame DEF EyeAligned
<1> HIDE DEF f
<1>5. /\ Len(found) \in Nat /\ DOMAIN found = 1..Len(found) /\ Len(found') = Len(found) + 1
      /\ DOMAIN found' = 1..(Len(found) + 1)
      /\ found'[Len(found) + 1] = f /\ \A i \in 1..Len(found) : found'[i] = found[i]
    BY <1>1, <1>2, <1>3
<1>6. EyeTypes'
    <2>1. found' \in Seq(EyeFound) /\ returned' \in Seq(EyeFound)
        BY <1>1, <1>2, <1>3
    <2>2. reading' \in BOOLEAN /\ lateFrames' \in Nat
        BY <1>1 DEF EyeTypes, Eye!TypeOK
    <2> QED BY <1>1, <1>2, <2>1, <2>2 DEF EyeTypes, Eye!TypeOK
<1>7. EyeControl'
    BY <1>1 DEF EyeControl, Eye!Nothing
<1>8. EyeReader'
    <2>1. lateFrames = 0
        BY <1>1 DEF EyeReader, EyeTypes, Eye!TypeOK
    <2>2. reading' => ~eyeClosed /\ ~Eye!IsShown(f)
        BY <1>1
    <2>3. CASE eyeClosed /\ Eye!IsShown(f)
        <3>1. lateFrames' = 1
            BY <1>1, <2>1, <2>3
        <3> QED BY <1>1, <2>2, <2>3, <3>1 DEF EyeReader
    <2>4. CASE ~(eyeClosed /\ Eye!IsShown(f))
        <3>1. lateFrames' = 0
            BY <1>1, <2>1, <2>4
        <3> QED BY <1>1, <3>1 DEF EyeReader
    <2> QED BY <2>3, <2>4
<1>9. EyeSynchronous'
    <2> SUFFICES ASSUME ~torn PROVE EyeSynchronous'
        BY <1>1 DEF EyeSynchronous
    <2>1. EyeAligned /\ Len(found) = n - 1 /\ \A i \in 1..Len(found) : found[i] = eyeSent[i]
        BY <1>1 DEF EyeSynchronous
    <2>2. n \in Nat \ {0} /\ f = eyeSent[n] /\ video' = <<>>
        BY <1>4, <2>1
    <2> HIDE DEF n
    <2>3. Len(found') = n /\ \A i \in 1..Len(found') : found'[i] = eyeSent[i]
        BY <1>5, <2>1, <2>2
    <2> QED BY <1>1, <2>2, <2>3 DEF EyeSynchronous, n
<1>10. EyeResynchronizes'
    <2> SUFFICES ASSUME \A i \in DOMAIN eyeSent : Eye!Unmistakable(eyeSent[i])
                 PROVE  \E place \in [DOMAIN found' -> DOMAIN eyeSent] :
                          /\ \A i \in DOMAIN found' :
                                /\ found'[i] = eyeSent[place[i]]
                                /\ \A j \in DOMAIN found' : i < j => place[i] < place[j]
                          /\ \A p \in DOMAIN video' : video'[p] # EyeMark
        BY <1>1 DEF EyeResynchronizes, Eye!Unmistakable
    <2>1. PICK place \in [DOMAIN found -> DOMAIN eyeSent] :
            /\ \A i \in DOMAIN found :
                  /\ found[i] = eyeSent[place[i]]
                  /\ \A j \in DOMAIN found : i < j => place[i] < place[j]
            /\ \/ got = <<>> /\ \A p \in DOMAIN video : video[p] # EyeMark
               \/ EyeAligned /\ \A i \in DOMAIN found : place[i] < Len(eyeSent)
        BY DEF EyeResynchronizes
    <2>2. ~(got = <<>> /\ \A p \in DOMAIN video : video[p] # EyeMark)
        <3> SUFFICES ASSUME got = <<>>, \A p \in DOMAIN video : video[p] # EyeMark
                     PROVE  FALSE
            OBVIOUS
        <3>1. 1 \in DOMAIN video /\ Head(video) = video[1]
            BY <1>1, <1>2
        <3>2. Eye!Taken = <<>>
            BY <3>1 DEF Eye!Taken
        <3>3. Len(Eye!Taken) >= 3
            BY <1>1 DEF Eye!IsWhole
        <3>4. Len(Eye!Taken) = 0
            BY <3>2
        <3> QED BY <3>3, <3>4
    <2>3. EyeAligned /\ \A i \in DOMAIN found : place[i] < n
        BY <2>1, <2>2
    <2>4. n \in DOMAIN eyeSent /\ f = eyeSent[n] /\ video' = <<>>
        BY <1>4, <2>3
    <2> DEFINE q == [i \in DOMAIN found' |-> IF i \in DOMAIN found THEN place[i] ELSE n]
    <2>5. q \in [DOMAIN found' -> DOMAIN eyeSent]
        BY <2>1, <2>4
    <2>6. ASSUME NEW i \in DOMAIN found'
          PROVE  /\ found'[i] = eyeSent[q[i]]
                 /\ \A j \in DOMAIN found' : i < j => q[i] < q[j]
        <3> HIDE DEF n
        <3>1. \A j \in DOMAIN found' : j \in DOMAIN found \/ (j = Len(found) + 1 /\ j \notin DOMAIN found)
            BY <1>5
        <3>2. CASE i \in DOMAIN found
            BY <1>5, <2>1, <2>3, <2>4, <3>1, <3>2
        <3>3. CASE i \notin DOMAIN found
            BY <1>5, <2>4, <3>1, <3>3
        <3> QED BY <3>2, <3>3
    <2> HIDE DEF q
    <2> QED BY <2>4, <2>5, <2>6
<1>11. EyeShown'
    BY <1>1, <1>2, <1>3, EyeShownGrows
<1> QED BY <1>6, <1>7, <1>8, <1>9, <1>10, <1>11

\* What the thread of the reader does not touch, another frame does not.
LEMMA EyeSendFrameKeeps ==
    ASSUME Eye!EyeAssumption, EyeIInv, Eye!SendFrame
    PROVE  EyeIInv'
<1> USE DEF EyeIInv
<1>1. PICK low \in {EyeVideo, EyeOther}, payload \in Eye!Payloads :
         /\ video' = <<EyeMark, low, Len(payload)>> \o payload
         /\ eyeSent' = Append(eyeSent, [command |-> low, payload |-> payload])
    BY DEF Eye!SendFrame
<1>2. /\ UNCHANGED <<eyePhase, sockets, sequence, tries, eyeOwed, acks, sending, eyeClosed, reading, got,
                     found, returned, torn, lateFrames>>
      /\ video = <<>>
    BY DEF Eye!SendFrame, Eye!controlVars
<1> DEFINE f == [command |-> low, payload |-> payload]
           n == Len(eyeSent)
<1>3. /\ f \in EyeFrames /\ f.command = low /\ f.payload = payload
      /\ Len(payload) \in Nat /\ payload \in Seq(Nat) /\ low \in Nat /\ EyeMark \in Nat
    BY EyePayload DEF EyeFrames, Eye!EyeAssumption
<1> HIDE DEF f
<1>4. /\ eyeSent \in Seq(EyeFrames) /\ n \in Nat /\ DOMAIN eyeSent = 1..n
      /\ eyeSent' \in Seq(EyeFrames) /\ Len(eyeSent') = n + 1 /\ DOMAIN eyeSent' = 1..(n + 1)
      /\ eyeSent'[n + 1] = f /\ \A i \in 1..n : eyeSent'[i] = eyeSent[i]
    <2>1. eyeSent \in Seq(EyeFrames)
        BY DEF EyeTypes
    <2>2. eyeSent' = Append(eyeSent, f)
        BY <1>1 DEF f
    <2> QED BY <1>3, <2>1, <2>2
<1>5. /\ video' \in Seq(Nat) /\ Len(video') = 3 + Len(payload)
      /\ \A p \in 1..Len(video') : video'[p] = EyeByte(f, p)
    <2> DEFINE head == <<EyeMark, low, Len(payload)>>
    <2>1. head \in Seq(Nat) /\ Len(head) = 3 /\ head[1] = EyeMark /\ head[2] = low /\ head[3] = Len(payload)
        BY <1>3
    <2> HIDE DEF head
    <2>2. video' = head \o payload
        BY <1>1 DEF head
    <2>3. /\ video' \in Seq(Nat) /\ Len(video') = 3 + Len(payload)
          /\ \A p \in 1..3 : video'[p] = head[p]
          /\ \A q \in 1..Len(payload) : video'[Len(head) + q] = payload[q]
        <3> DEFINE v == head \o payload
        <3>1. /\ v \in Seq(Nat) /\ Len(v) = Len(head) + Len(payload)
              /\ \A p \in 1..Len(head) : v[p] = head[p]
              /\ \A p \in 1..Len(payload) : v[Len(head) + p] = payload[p]
            BY <1>3, <2>1, EyeJoined
        <3> HIDE DEF v
        <3>2. video' = v
            BY <2>2 DEF v
        <3> QED BY <2>1, <3>1, <3>2
    <2>4. ASSUME NEW p \in 1..Len(video')
          PROVE  video'[p] = EyeByte(f, p)
        <3>1. CASE p \in 1..3
            <4>1. p = 1 \/ p = 2 \/ p = 3
                BY <3>1
            <4> QED BY <1>3, <2>1, <2>3, <3>1, <4>1 DEF EyeByte
        <3>2. CASE p \notin 1..3
            <4>1. p - 3 \in 1..Len(payload) /\ p = Len(head) + (p - 3) /\ p # 1 /\ p # 2 /\ p # 3
                BY <1>3, <2>1, <2>3, <3>2
            <4>2. video'[p] = payload[p - 3]
                BY <2>3, <4>1
            <4> QED BY <1>3, <4>1, <4>2 DEF EyeByte
        <3> QED BY <3>1, <3>2
    <2> QED BY <2>3, <2>4
<1>6. got = <<>> => EyeAligned'
    <2> SUFFICES ASSUME got = <<>> PROVE EyeAligned'
        OBVIOUS
    <2>1. got' = <<>> /\ Len(got') = 0
        BY <1>2
    <2>2. video' # <<>> /\ eyeSent' # <<>>
        BY <1>3, <1>4, <1>5
    <2>3. \A p \in 1..Len(video') : 0 + p = p
        BY <1>5
    <2> QED BY <1>3, <1>4, <1>5, <2>1, <2>2, <2>3 DEF EyeAligned
<1>7. ~EyeAligned
    BY <1>2 DEF EyeAligned
<1>8. EyeTypes'
    BY <1>2, <1>4, <1>5 DEF EyeTypes, Eye!TypeOK
<1>9. EyeControl'
    BY <1>2 DEF EyeControl, Eye!Nothing
<1>10. EyeReader'
    BY <1>2 DEF EyeReader
<1>11. EyeSynchronous'
    <2> SUFFICES ASSUME ~torn PROVE EyeSynchronous'
        BY <1>2 DEF EyeSynchronous
    <2>1. /\ Len(found) <= n /\ \A i \in 1..Len(found) : found[i] = eyeSent[i]
          /\ reading \/ ~eyeClosed => got = <<>> /\ Len(found) = n
        BY <1>7 DEF EyeSynchronous
    <2>2. found \in Seq(EyeFound) /\ Len(found) \in Nat
        BY DEF EyeTypes
    <2> HIDE DEF n
    <2>3. /\ Len(found) <= Len(eyeSent') /\ \A i \in 1..Len(found) : found[i] = eyeSent'[i]
          /\ Len(found) = n => Len(found) = Len(eyeSent') - 1
        BY <1>4, <2>1, <2>2
    <2> QED BY <1>2, <1>6, <2>1, <2>3 DEF EyeSynchronous
<1>12. EyeResynchronizes'
    <2> SUFFICES ASSUME \A i \in DOMAIN eyeSent' : Eye!Unmistakable(eyeSent'[i])
                 PROVE  \E place \in [DOMAIN found -> DOMAIN eyeSent'] :
                          /\ \A i \in DOMAIN found :
                                /\ found[i] = eyeSent'[place[i]]
                                /\ \A j \in DOMAIN found : i < j => place[i] < place[j]
                          /\ EyeAligned' /\ \A i \in DOMAIN found : place[i] < Len(eyeSent')
        BY <1>2 DEF EyeResynchronizes, Eye!Unmistakable
    <2>1. \A i \in DOMAIN eyeSent : Eye!Unmistakable(eyeSent[i])
        BY <1>4
    <2>2. PICK place \in [DOMAIN found -> DOMAIN eyeSent] :
            /\ \A i \in DOMAIN found :
                  /\ found[i] = eyeSent[place[i]]
                  /\ \A j \in DOMAIN found : i < j => place[i] < place[j]
            /\ got = <<>>
        BY <1>7, <2>1 DEF EyeResynchronizes
    <2> HIDE DEF n
    <2>3. place \in [DOMAIN found -> DOMAIN eyeSent']
        BY <1>4, <2>2
    <2>4. \A i \in DOMAIN found : place[i] \in 1..n /\ place[i] < Len(eyeSent') /\ eyeSent'[place[i]] = eyeSent[place[i]]
        BY <1>4, <2>2
    <2> QED BY <1>6, <2>2, <2>3, <2>4
<1>13. EyeShown'
    BY <1>2 DEF EyeShown, Eye!Shown, Eye!IsShown
<1> QED BY <1>8, <1>9, <1>10, <1>11, <1>12, <1>13

\* Steps of the session and of the glasses: what the reader has is as it was.
LEMMA EyeReaderUntouched ==
    ASSUME EyeIInv, UNCHANGED <<got, video, eyeSent, found, returned, torn, reading>>, eyeClosed => eyeClosed'
    PROVE  EyeSynchronous' /\ EyeResynchronizes' /\ EyeShown'
<1> USE DEF EyeIInv
<1>1. EyeSynchronous'
    BY DEF EyeSynchronous, EyeAligned
<1>2. EyeResynchronizes'
    BY DEF EyeResynchronizes, EyeAligned, Eye!Unmistakable
<1>3. EyeShown'
    BY DEF EyeShown, Eye!Shown, Eye!IsShown
<1> QED BY <1>1, <1>2, <1>3

\* Connecting, commands and closing, which find no frame.
LEMMA EyeSessionKeeps ==
    ASSUME Eye!EyeAssumption, EyeIInv,
           \/ Eye!Connect("video", "video", "control") \/ Eye!Connect("control", "control", "start")
           \/ Eye!ConnectFails \/ Eye!SendRequest \/ Eye!ReadControl \/ Eye!ControlEnds
           \/ Eye!CloseSockets \/ Eye!Close \/ Eye!Obey \/ Eye!Tell
    PROVE  EyeIInv'
<1>0. /\ UNCHANGED <<got, video, eyeSent, found, returned, torn, reading, lateFrames>>
      /\ eyeClosed => eyeClosed'
    <2> USE DEF Eye!readerVars
    <2>1. CASE Eye!Connect("video", "video", "control") \/ Eye!Connect("control", "control", "start")
        BY <2>1 DEF Eye!Connect
    <2>2. CASE Eye!ConnectFails
        BY <2>2 DEF Eye!ConnectFails
    <2>7. CASE Eye!ControlEnds
        BY <2>7 DEF Eye!ControlEnds
    <2>3. CASE Eye!SendRequest
        BY <2>3 DEF Eye!SendRequest
    <2>6. CASE Eye!ReadControl
        BY <2>6 DEF Eye!ReadControl
    <2>4. CASE Eye!CloseSockets \/ Eye!Close
        BY <2>4 DEF Eye!CloseSockets, Eye!Close
    <2>5. CASE Eye!Obey \/ Eye!Tell
        BY <2>5 DEF Eye!Obey, Eye!Tell
    <2> QED BY <2>1, <2>2, <2>3, <2>4, <2>5, <2>6, <2>7
<1>1. EyeSynchronous' /\ EyeResynchronizes' /\ EyeShown'
    BY <1>0, EyeReaderUntouched
<1>2. Tries \in Nat \ {0}
    BY DEF Eye!EyeAssumption
<1> DEFINE Acks == [command : {"start", "stop", "other"}, sequence : Nat, ok : BOOLEAN]
           Requests == [command : {"start", "stop"}, sequence : Nat]
<1>a. /\ acks \in Seq(Acks) /\ eyeOwed \in {Eye!Nothing} \cup Requests /\ sequence \in 1..3
      /\ DOMAIN acks = 1..Len(acks) /\ Len(acks) \in Nat
    BY DEF EyeIInv, EyeTypes, Eye!TypeOK
<1> HIDE DEF Acks, Requests
<1> USE DEF EyeIInv
\* What a step has to leave: the types of what it may change, and the rest.
<1>b. ASSUME /\ eyePhase' \in {"video", "control", "start", "awaitStart", "open", "stop", "awaitStop",
                               "closeSockets", "closed", "abandon", "failed"}
             /\ sockets' \subseteq {"video", "control"} /\ sequence' \in 1..3 /\ tries' \in 0..Tries
             /\ sending' \in BOOLEAN /\ eyeClosed' \in BOOLEAN
             /\ acks' \in Seq(Acks) /\ eyeOwed' \in {Eye!Nothing} \cup Requests
      PROVE  EyeTypes'
    BY <1>0, <1>b DEF EyeTypes, Eye!TypeOK, Acks, Requests, Eye!Nothing
<1>c. /\ eyePhase \in {"video", "control", "start", "awaitStart", "open", "stop", "awaitStop",
                       "closeSockets", "closed", "abandon", "failed"}
      /\ sockets \subseteq {"video", "control"} /\ tries \in 0..Tries
      /\ sending \in BOOLEAN /\ eyeClosed \in BOOLEAN
    BY DEF EyeTypes, Eye!TypeOK
<1>3. CASE Eye!Connect("video", "video", "control") \/ Eye!Connect("control", "control", "start")
    <2>1. /\ UNCHANGED <<sequence, tries, eyeOwed, acks, sending, eyeClosed>>
          /\ \/ eyePhase = "video" /\ eyePhase' = "control" /\ sockets' = sockets \cup {"video"}
             \/ eyePhase = "control" /\ eyePhase' = "start" /\ sockets' = sockets \cup {"control"}
        BY <1>3 DEF Eye!Connect
    <2>2. EyeControl'
        BY <2>1 DEF EyeControl, Eye!Nothing
    <2>3. EyeReader'
        BY <1>0, <2>1 DEF EyeReader
    <2> QED BY <1>a, <1>b, <1>c, <1>1, <2>1, <2>2, <2>3
<1>4. CASE Eye!ConnectFails
    <2>1. /\ UNCHANGED <<sockets, sequence, tries, eyeOwed, acks, sending, eyeClosed>>
          /\ eyePhase \in {"video", "control"} /\ eyePhase' = "failed"
        BY <1>4 DEF Eye!ConnectFails
    <2>2. EyeControl'
        BY <2>1 DEF EyeControl, Eye!Nothing
    <2>3. EyeReader'
        BY <1>0, <2>1 DEF EyeReader
    <2> QED BY <1>a, <1>b, <1>c, <1>1, <2>1, <2>2, <2>3
<1>5. CASE Eye!SendRequest
    <2>1. /\ UNCHANGED <<sockets, acks, sending, eyeClosed>> /\ sequence' = sequence + 1 /\ tries' = 0
          /\ eyeOwed' = eyeOwed \/ eyeOwed' = [command |-> Eye!Command, sequence |-> sequence]
          /\ \/ eyePhase = "start" /\ eyePhase' \in {"awaitStart", "abandon"}
             \/ eyePhase = "stop" /\ eyePhase' \in {"awaitStop", "closeSockets"}
        BY <1>5 DEF Eye!SendRequest, Eye!Transacted, Eye!Command
    <2>2. sequence' = IF eyePhase = "start" THEN 2 ELSE 3
        BY <2>1 DEF EyeControl
    <2>3. /\ Eye!Command = IF eyePhase = "start" THEN "start" ELSE "stop"
          /\ [command |-> Eye!Command, sequence |-> sequence] \in Requests
        BY <1>a, <2>1 DEF Eye!Command, Requests
    <2>4. eyeOwed' \in {Eye!Nothing} \cup Requests
        BY <1>a, <2>1, <2>3
    <2>5. eyePhase = "start" => acks = <<>> /\ eyeOwed'.command # "stop"
        BY <2>1, <2>3 DEF EyeControl, Eye!Nothing
    <2>6. tries' \in 0..Tries /\ tries' < Tries
        BY <1>2, <2>1
    <2>7. EyeControl'
        BY <2>1, <2>2, <2>5, <2>6 DEF EyeControl
    <2>8. EyeReader'
        BY <1>0, <2>1 DEF EyeReader
    <2>9. sequence' \in 1..3
        BY <2>2
    <2> QED BY <1>a, <1>b, <1>c, <1>1, <2>1, <2>4, <2>6, <2>7, <2>8, <2>9
<1>6. CASE Eye!ReadControl
    <2> DEFINE frame == acks[1]
    <2>1. /\ UNCHANGED <<sockets, sequence, eyeOwed, sending, eyeClosed>>
          /\ eyePhase \in {"awaitStart", "awaitStop"} /\ acks # <<>> /\ acks' = Tail(acks)
          /\ Head(acks) = frame
        BY <1>6, <1>a DEF Eye!ReadControl
    <2>2. /\ Len(acks) \in Nat \ {0} /\ frame \in Acks /\ 1 \in DOMAIN acks
          /\ acks' \in Seq(Acks) /\ DOMAIN acks' = 1..Len(acks)-1 /\ \A i \in 1..Len(acks)-1 : acks'[i] = acks[i + 1]
        BY <1>a, <2>1
    <2>3. \A i \in DOMAIN acks' : i + 1 \in DOMAIN acks /\ acks'[i] = acks[i + 1]
        BY <1>a, <2>2
    <2>4. tries \in 0..Tries /\ tries < Tries
        BY <1>c, <2>1 DEF EyeControl
    <2>5. /\ tries' \in 0..Tries
          /\ eyePhase = "awaitStart" =>
               \/ eyePhase' = "awaitStart" /\ tries' < Tries
               \/ eyePhase' = "abandon"
               \/ eyePhase' = "open" /\ frame.command = "start" /\ frame.sequence = sequence - 1 /\ frame.ok
          /\ eyePhase = "awaitStop" =>
               \/ eyePhase' = "awaitStop" /\ tries' < Tries
               \/ eyePhase' = "closeSockets"
        <3>1. CASE frame.command = Eye!Command /\ frame.sequence = sequence - 1
            BY <1>2, <1>6, <2>1, <2>4, <3>1 DEF Eye!ReadControl, Eye!Transacted, Eye!Command
        <3>2. CASE ~(frame.command = Eye!Command /\ frame.sequence = sequence - 1)
            <4>3. tries' = tries + 1
                BY <1>6, <2>1, <3>2 DEF Eye!ReadControl
            <4>1. tries' \in 0..Tries /\ (tries' # Tries => tries' < Tries)
                BY <1>2, <2>4, <4>3
            <4>2. IF tries' = Tries THEN Eye!Transacted(FALSE) ELSE eyePhase' = eyePhase
                BY <1>6, <2>1, <3>2 DEF Eye!ReadControl
            <4> QED BY <2>1, <4>1, <4>2 DEF Eye!Transacted, Eye!Command
        <3> QED BY <3>1, <3>2
    <2> HIDE DEF frame
    <2>7. eyePhase' = "open" => sending
        <3>1. eyePhase' = "open" => sequence = 2 /\ eyePhase = "awaitStart"
            BY <2>1, <2>5 DEF EyeControl
        <3> QED BY <2>2, <2>5, <3>1 DEF frame, EyeControl
    <2>8. EyeControl'
        <3>1. eyePhase' = "awaitStart" =>
                 \A i \in DOMAIN acks' :
                    acks'[i].command = "start" /\ acks'[i].sequence = 1 /\ acks'[i].ok => sending
            BY <2>1, <2>3, <2>5 DEF EyeControl
        <3> QED BY <2>1, <2>5, <2>7, <3>1 DEF EyeControl
    <2>9. EyeReader'
        BY <1>0, <2>1, <2>5 DEF EyeReader
    <2> QED BY <1>a, <1>b, <1>c, <1>1, <2>1, <2>2, <2>5, <2>8, <2>9
<1>7. CASE Eye!ControlEnds
    <2>1. /\ UNCHANGED <<sockets, sequence, tries, eyeOwed, acks, sending, eyeClosed>>
          /\ \/ eyePhase = "awaitStart" /\ eyePhase' = "abandon"
             \/ eyePhase = "awaitStop" /\ eyePhase' = "closeSockets"
        BY <1>7 DEF Eye!ControlEnds, Eye!Transacted, Eye!Command
    <2>2. EyeControl'
        BY <2>1 DEF EyeControl
    <2>3. EyeReader'
        BY <1>0, <2>1 DEF EyeReader
    <2> QED BY <1>a, <1>b, <1>c, <1>1, <2>1, <2>2, <2>3
<1>8. CASE Eye!CloseSockets
    <2>1. /\ UNCHANGED <<sequence, tries, eyeOwed, acks, sending, eyeClosed>> /\ sockets' = {}
          /\ \/ eyePhase = "abandon" /\ eyePhase' = "failed"
             \/ eyePhase = "closeSockets" /\ eyePhase' = "closed"
        BY <1>8 DEF Eye!CloseSockets
    <2>2. EyeControl'
        BY <2>1 DEF EyeControl
    <2>3. EyeReader'
        BY <1>0, <2>1 DEF EyeReader
    <2> QED BY <1>a, <1>b, <1>c, <1>1, <2>1, <2>2, <2>3
<1>9. CASE Eye!Close
    <2>1. /\ UNCHANGED <<sockets, sequence, tries, eyeOwed, acks, sending>> /\ eyeClosed' = TRUE
          /\ eyePhase = "open" /\ eyePhase' = "stop"
        BY <1>9 DEF Eye!Close
    <2>2. EyeControl'
        BY <2>1 DEF EyeControl
    <2>3. EyeReader'
        BY <1>0, <2>1 DEF EyeReader
    <2> QED BY <1>a, <1>b, <1>c, <1>1, <2>1, <2>2, <2>3
<1>10. CASE Eye!Obey
    <2> DEFINE ack == [command |-> eyeOwed.command, sequence |-> eyeOwed.sequence,
                       ok |-> sending' = (eyeOwed.command = "start")]
    <2>1. /\ UNCHANGED <<eyePhase, sockets, sequence, tries, eyeClosed>>
          /\ eyeOwed # Eye!Nothing /\ eyeOwed' = Eye!Nothing
          /\ sending' = sending \/ sending' = (eyeOwed.command = "start")
          /\ acks' = acks \/ acks' = Append(acks, ack)
        BY <1>10 DEF Eye!Obey
    <2>2. eyeOwed \in Requests /\ eyeOwed.command \in {"start", "stop"} /\ eyeOwed.sequence \in Nat
        BY <1>a, <2>1 DEF Requests
    <2>3. sending' \in BOOLEAN
        BY <1>c, <2>1
    <2>4. ack \in Acks /\ ack.command = eyeOwed.command /\ (eyeOwed.command = "start" /\ ack.ok => sending')
        BY <2>2 DEF Acks
    <2>5. eyeOwed.command = "start" /\ sending => sending'
        BY <2>1
    <2> HIDE DEF ack
    <2>6. acks' \in Seq(Acks) /\ \A i \in DOMAIN acks' : (i \in DOMAIN acks /\ acks'[i] = acks[i]) \/ acks'[i] = ack
        <3>1. CASE acks' = acks
            BY <1>a, <3>1
        <3>2. CASE acks' = Append(acks, ack)
            BY <1>a, <2>4, <3>2
        <3> QED BY <2>1, <3>1, <3>2
    <2>7. eyePhase \in {"awaitStart", "open"} => eyeOwed.command = "start"
        BY <2>2 DEF EyeControl
    <2>8. eyePhase \notin {"video", "control", "start"}
        BY <2>1 DEF EyeControl
    <2>9. EyeControl'
        <3>1. ASSUME eyePhase = "awaitStart", NEW i \in DOMAIN acks',
                     acks'[i].command = "start", acks'[i].sequence = 1, acks'[i].ok
              PROVE  sending'
            <4>1. CASE i \in DOMAIN acks /\ acks'[i] = acks[i]
                BY <2>5, <2>7, <3>1, <4>1 DEF EyeControl
            <4>2. CASE acks'[i] = ack
                BY <2>4, <2>7, <3>1, <4>2
            <4> QED BY <2>6, <4>1, <4>2
        <3>2. Eye!Nothing.command # "stop"
            BY DEF Eye!Nothing
        <3> QED BY <2>1, <2>5, <2>7, <2>8, <3>1, <3>2 DEF EyeControl
    <2>10. EyeReader'
        BY <1>0, <2>1 DEF EyeReader
    <2> QED BY <1>a, <1>b, <1>c, <1>1, <2>1, <2>3, <2>6, <2>9, <2>10
<1>11. CASE Eye!Tell
    <2>1. /\ UNCHANGED <<eyePhase, sockets, sequence, tries, eyeOwed, sending, eyeClosed>>
          /\ eyePhase \in {"awaitStart", "awaitStop"}
          /\ \/ acks' = <<[command |-> "other", sequence |-> sequence - 1, ok |-> TRUE]>>
             \/ acks' = <<[command |-> Eye!Command, sequence |-> sequence - 2, ok |-> TRUE]>>
        BY <1>11 DEF Eye!Tell
    <2>2. sequence = IF eyePhase = "awaitStart" THEN 2 ELSE 3
        BY <2>1 DEF EyeControl
    <2>3. /\ acks' \in Seq(Acks)
          /\ eyePhase = "awaitStart" => \A i \in DOMAIN acks' : acks'[i].command = "other" \/ acks'[i].sequence = 0
        <3>1. ASSUME NEW a \in Acks, acks' = <<a>>
              PROVE  acks' \in Seq(Acks) /\ \A i \in DOMAIN acks' : acks'[i] = a
            BY <3>1
        <3>2. /\ [command |-> "other", sequence |-> sequence - 1, ok |-> TRUE] \in Acks
              /\ [command |-> Eye!Command, sequence |-> sequence - 2, ok |-> TRUE] \in Acks
            BY <2>1, <2>2 DEF Acks, Eye!Command
        <3>3. CASE acks' = <<[command |-> "other", sequence |-> sequence - 1, ok |-> TRUE]>>
            BY <3>1, <3>2, <3>3
        <3>4. CASE acks' = <<[command |-> Eye!Command, sequence |-> sequence - 2, ok |-> TRUE]>>
            <4>1. eyePhase = "awaitStart" => sequence - 2 = 0
                BY <2>2
            <4> QED BY <3>1, <3>2, <3>4, <4>1
        <3> QED BY <2>1, <3>3, <3>4
    <2>4. EyeControl'
        BY <2>1, <2>3 DEF EyeControl
    <2>5. EyeReader'
        BY <1>0, <2>1 DEF EyeReader
    <2> QED BY <1>a, <1>b, <1>c, <1>1, <2>1, <2>3, <2>4, <2>5
<1> QED BY <1>3, <1>4, <1>5, <1>6, <1>7, <1>8, <1>9, <1>10, <1>11

\* Every step of the camera keeps its invariant, one lemma per kind of step.
LEMMA EyeStep ==
    ASSUME Eye!EyeAssumption, EyeIInv, Eye!Next
    PROVE  EyeIInv'
BY EyeSessionKeeps, EyeSendFrameKeeps, EyeReadHevcFrameKeeps, EyeReadByteKeeps, EyeInvalidSizeKeeps,
   EyeLastByteKeeps, EyeReadEndsKeeps DEF Eye!Next

\* Initially.
LEMMA EyeInitial ==
    ASSUME Eye!EyeAssumption, Eye!Init
    PROVE  EyeIInv
<1> USE DEF Eye!Init
<1>1. /\ got = <<>> /\ video = <<>> /\ found = <<>> /\ returned = <<>> /\ eyeSent = <<>> /\ acks = <<>>
      /\ reading = FALSE /\ torn = FALSE /\ lateFrames = 0 /\ eyeClosed = FALSE /\ eyeOwed = Eye!Nothing
    OBVIOUS
<1>2. EyeTypes
    <2>1. <<>> \in Seq(Nat) /\ <<>> \in Seq(EyeFrames) /\ <<>> \in Seq(EyeFound)
          /\ <<>> \in Seq([command : {"start", "stop", "other"}, sequence : Nat, ok : BOOLEAN])
        OBVIOUS
    <2>2. 0 \in 0..Tries
        BY DEF Eye!EyeAssumption
    <2>3. /\ eyePhase = "video" /\ sockets = {} /\ sequence = 1 /\ tries = 0 /\ sending = FALSE
        OBVIOUS
    <2> HIDE DEF Eye!Init
    <2>4. Eye!TypeOK
        <3>1. sequence \in 1..3 /\ tries \in 0..Tries /\ lateFrames \in Nat
            BY <1>1, <2>2, <2>3
        <3>2. got \in Seq(Nat) /\ video \in Seq(Nat)
            BY <1>1, <2>1
        <3> QED BY <1>1, <2>3, <3>1, <3>2 DEF Eye!TypeOK
    <2> QED BY <1>1, <2>1, <2>4 DEF EyeTypes
<1>3. EyeControl
    BY DEF EyeControl
<1>4. EyeReader
    BY <1>1 DEF EyeReader
<1>5. EyeSynchronous
    BY <1>1 DEF EyeSynchronous
<1>6. EyeResynchronizes
    <2>1. DOMAIN found = {} /\ DOMAIN video = {}
        BY <1>1
    <2>2. [i \in {} |-> 0] \in [DOMAIN found -> DOMAIN eyeSent]
        BY <2>1
    <2> QED BY <1>1, <2>1, <2>2 DEF EyeResynchronizes
<1>7. EyeShown
    <2>1. Eye!Shown(Len(found)) = {}
        BY <1>1 DEF Eye!Shown
    <2> QED BY <1>1, <2>1, EyeCardinality, FS_EmptySet DEF EyeShown
<1> QED BY <1>2, <1>3, <1>4, <1>5, <1>6, <1>7 DEF EyeIInv

\* A step of another part leaves the camera alone.
LEMMA EyeStutters ==
    ASSUME EyeIInv, UNCHANGED Eye!vars
    PROVE  EyeIInv'
<1>1. UNCHANGED <<eyePhase, sockets, sequence, tries, eyeOwed, acks, sending, eyeClosed, eyeSent,
                  reading, got, video, found, returned, torn, lateFrames>>
    BY DEF Eye!vars, Eye!controlVars, Eye!readerVars
<1>2. EyeSynchronous' /\ EyeResynchronizes' /\ EyeShown'
    BY <1>1, EyeReaderUntouched
<1>3. EyeTypes' /\ EyeControl' /\ EyeReader'
    BY <1>1 DEF EyeIInv, EyeTypes, EyeControl, EyeReader, Eye!TypeOK
<1> QED BY <1>2, <1>3 DEF EyeIInv

\* The invariant says more than EyeInv.
LEMMA EyeImplies == EyeIInv => Eye!EyeInv
<1> SUFFICES ASSUME EyeIInv PROVE Eye!EyeInv
    OBVIOUS
<1> USE DEF EyeIInv
<1>1. Eye!TypeOK
    BY DEF EyeTypes
<1>2. Eye!FramesInOrder
    <2>1. found \in Seq(EyeFound) /\ eyeSent \in Seq(EyeFrames)
        BY DEF EyeTypes
    <2>2. ~torn => Len(found) <= Len(eyeSent) /\ \A i \in 1..Len(found) : found[i] = eyeSent[i]
        BY DEF EyeSynchronous
    <2>3. ~torn => Eye!IsPrefix(found, eyeSent)
        BY <2>1, <2>2 DEF Eye!IsPrefix
    <2> QED BY <2>3, EyeCardinality DEF EyeShown, Eye!FramesInOrder
<1>3. Eye!Resynchronizes
    BY DEF EyeResynchronizes, Eye!Resynchronizes
<1>4. Eye!OpenAndClosed
    BY DEF EyeControl, EyeReader, Eye!OpenAndClosed
<1> QED BY <1>1, <1>2, <1>3, <1>4 DEF Eye!EyeInv

-----------------------------------------------------------------------------
\* The modes of the display, the requests, and the answers of the glasses.
VitureModes == {"null", "2d", "native 3d", "bypass 3d"}
VitureValues == VitureModes \cup {"native", "bypass", "done", "refused"}
VitureAsked ==
    [number : Nat, kind : Viture!Kinds, value : VitureModes, native : BOOLEAN]
    \cup [number : Nat, kind : {"calibration"}, packet : 1..2, segment : Nat]
VitureAnswered ==
    [number : Nat, kind : Viture!Kinds, value : VitureValues]
    \cup [number : Nat, kind : {"calibration"}, packet : 1..2, value : Seq(Nat)]

VitureTypes ==
    /\ Viture!TypeOK
    /\ vitureOwed \in Seq(VitureAsked) /\ answers \in Seq(VitureAnswered)
    /\ field \in [Viture!Kinds -> [number : Nat, value : VitureValues]]
    /\ answersTaken \in Seq([answer : Nat, request : Nat])
    /\ vitureDisplay \in VitureModes /\ {native, stripped} \subseteq BOOLEAN
    /\ requests \in Nat /\ request.number \in Nat
    /\ assembled \in [segment : Nat, bytes : Seq(Nat), sequence : Nat, total : Nat]
    /\ calibration \in [1..2 -> Seq(Nat)]

\* What has been asked for is answered in that order; the requests that the glasses have
\* are later than those whose answers nobody has read, which are later than those whose
\* answers are in the fields or were taken.
VitureOrdered ==
    /\ \A i \in DOMAIN vitureOwed :
          /\ vitureOwed[i].number \in 1..requests
          /\ \A j \in DOMAIN vitureOwed : i < j => vitureOwed[i].number < vitureOwed[j].number
          /\ \A j \in DOMAIN answers : answers[j].number < vitureOwed[i].number
          /\ \A k \in Viture!Kinds : field[k].number < vitureOwed[i].number
          /\ \A j \in DOMAIN answersTaken : answersTaken[j].answer < vitureOwed[i].number
    /\ \A i \in DOMAIN answers :
          /\ answers[i].number \in 1..requests
          /\ \A j \in DOMAIN answers : i < j => answers[i].number < answers[j].number
          /\ \A k \in Viture!Kinds : field[k].number < answers[i].number
          /\ \A j \in DOMAIN answersTaken : answersTaken[j].answer < answers[i].number
    /\ \A k \in Viture!Kinds : field[k] = Viture!Empty \/ field[k].number \in 1..requests
    /\ \A i \in DOMAIN answersTaken : answersTaken[i].answer \in 1..requests

\* While a command waits its request is the last one, of the kind it waits for, and what
\* is in the field is later than what was taken.
VitureWaiting ==
    Viture!Awaited # "none" =>
        /\ request.number = requests /\ requests >= 1 /\ request.kind = Viture!Awaited
        /\ field[Viture!Awaited] # Viture!Empty =>
              \A i \in DOMAIN answersTaken : answersTaken[i].answer < field[Viture!Awaited].number

\* The display requests that somebody was given an answer for, gave up, or waits for.
VitureKnown ==
    abandoned \cup {answersTaken[i].request : i \in DOMAIN answersTaken}
    \cup (IF Viture!Awaited = "none" THEN {} ELSE {request.number})
VitureAccounted ==
    /\ \A i \in DOMAIN vitureOwed : vitureOwed[i].kind \in Viture!Kinds => vitureOwed[i].number \in VitureKnown
    /\ \A i \in DOMAIN answers : answers[i].kind \in Viture!Kinds => answers[i].number \in VitureKnown
    /\ \A k \in Viture!Kinds : field[k] # Viture!Empty => field[k].number \in VitureKnown

\* An answer that the display was set is one to a request that set it.
VitureDone ==
    /\ \A i \in DOMAIN answers :
          answers[i].kind = "status" /\ answers[i].value = "done" => answers[i].number \in applied
    /\ field["status"].value = "done" => field["status"].number \in applied
    /\ viturePhase \in {"calibrate", "awaitSegment"} => vitureResult = FALSE

\* The bytes that answer a request for a segment, of the calibration they had then.
VitureResponse(p, r, s) ==
    LET segment == <<r, Segments, 0, s, 0, Viture!Data(p, r, s)>>
    IN IF stripped THEN segment ELSE <<0>> \o segment
VitureCalibrating ==
    /\ \A i \in DOMAIN vitureOwed :
          /\ viturePhase \in {"calibrate", "awaitSegment"} => vitureOwed[i].kind = "calibration"
          /\ vitureOwed[i].kind = "calibration" => vitureOwed[i].segment < Segments
    /\ \A i \in DOMAIN answers :
          /\ viturePhase \in {"calibrate", "awaitSegment"} => answers[i].kind = "calibration"
          /\ answers[i].kind = "calibration" =>
                \E r \in 0..calibrations, s \in 0..Segments-1 :
                    answers[i].value = VitureResponse(answers[i].packet, r, s)
    /\ assembled.segment > 0 =>
          /\ assembled.total = Segments /\ assembled.sequence <= calibrations
          /\ assembled.bytes = [s \in 1..assembled.segment |-> Viture!Data(packet, assembled.sequence, s - 1)]
    /\ assembled.segment = 0 => assembled.bytes = <<>>

VitureIInv ==
    /\ VitureTypes /\ VitureOrdered /\ VitureWaiting /\ VitureAccounted /\ VitureDone /\ VitureCalibrating
    /\ Viture!AnswersAreOwnOrLate /\ Viture!TrueIsAnswered /\ Viture!CalibrationIsWhole

\* The first of a queue and what stays behind it.
LEMMA VitureFirst ==
    ASSUME NEW S, NEW q \in Seq(S), q # <<>>
    PROVE  /\ Head(q) = q[1] /\ q[1] \in S /\ 1 \in DOMAIN q /\ Tail(q) \in Seq(S)
           /\ \A i \in DOMAIN Tail(q) : i \in Nat /\ i + 1 \in DOMAIN q /\ Tail(q)[i] = q[i + 1] /\ 1 < i + 1
OBVIOUS

\* A queue and one more behind it.
LEMMA VitureAdded ==
    ASSUME NEW S, NEW q \in Seq(S), NEW x \in S, NEW t, t = Append(q, x)
    PROVE  /\ t \in Seq(S) /\ DOMAIN q = 1..Len(q) /\ Len(q) \in Nat /\ DOMAIN t = 1..(Len(q) + 1)
           /\ \A i \in DOMAIN t : (i \in DOMAIN q /\ t[i] = q[i] /\ i < Len(q) + 1) \/ (i = Len(q) + 1 /\ t[i] = x)
           /\ \A i \in DOMAIN q : i \in DOMAIN t /\ t[i] = q[i]
           /\ Len(q) + 1 \in DOMAIN t /\ t[Len(q) + 1] = x /\ Len(t) = Len(q) + 1
OBVIOUS

\* The glasses change their mode by themselves.
LEMMA VitureChangeModeKeeps ==
    ASSUME Viture!VitureAssumption, VitureIInv, Viture!ChangeMode
    PROVE  VitureIInv'
<1> USE DEF VitureIInv
<1>1. /\ UNCHANGED <<imuEnabled, viturePhase, native, field, request, packet, assembled, calibration, vitureOwed,
                     answers, stripped, calibrations, requests, abandoned, applied, answersTaken, vitureResult>>
      /\ vitureDisplay' = "2d"
    BY DEF Viture!ChangeMode, Viture!callerVars, Viture!calibrationVars
<1>2. VitureTypes'
    BY <1>1 DEF VitureTypes, Viture!TypeOK, VitureModes
<1>3. VitureOrdered'
    BY <1>1 DEF VitureOrdered
<1>4. VitureWaiting' /\ VitureAccounted'
    BY <1>1 DEF VitureWaiting, VitureAccounted, VitureKnown, Viture!Awaited
<1>5. VitureDone' /\ VitureCalibrating'
    BY <1>1 DEF VitureDone, VitureCalibrating, VitureResponse
<1>6. Viture!AnswersAreOwnOrLate' /\ Viture!TrueIsAnswered' /\ Viture!CalibrationIsWhole'
    BY <1>1 DEF Viture!AnswersAreOwnOrLate, Viture!Overtaken, Viture!TrueIsAnswered, Viture!CalibrationIsWhole
<1> QED BY <1>2, <1>3, <1>4, <1>5, <1>6

\* The glasses have another calibration from now on.
LEMMA VitureNewReadingKeeps ==
    ASSUME Viture!VitureAssumption, VitureIInv, Viture!NewReading
    PROVE  VitureIInv'
<1> USE DEF VitureIInv
<1>1. /\ UNCHANGED <<imuEnabled, viturePhase, native, field, request, packet, assembled, calibration, vitureOwed,
                     answers, stripped, vitureDisplay, requests, abandoned, applied, answersTaken, vitureResult>>
      /\ calibrations < MaxReadings /\ calibrations' = calibrations + 1
    BY DEF Viture!NewReading, Viture!callerVars, Viture!calibrationVars
<1>2. calibrations \in Nat /\ calibrations' \in 0..MaxReadings
    BY <1>1 DEF VitureTypes, Viture!TypeOK, Viture!VitureAssumption
<1>3. VitureTypes'
    BY <1>1, <1>2 DEF VitureTypes, Viture!TypeOK
<1>4. VitureOrdered'
    BY <1>1 DEF VitureOrdered
<1>5. VitureWaiting' /\ VitureAccounted'
    BY <1>1 DEF VitureWaiting, VitureAccounted, VitureKnown, Viture!Awaited
<1>6. \A r \in 0..calibrations : r \in 0..calibrations'
    BY <1>1, <1>2
<1>7. VitureCalibrating'
    <2>1. assembled.segment > 0 => assembled.sequence <= calibrations'
        BY <1>1, <1>2 DEF VitureCalibrating, VitureTypes
    <2> QED BY <1>1, <1>6, <2>1 DEF VitureCalibrating, VitureResponse
<1>8. VitureDone'
    BY <1>1 DEF VitureDone
<1>9. Viture!CalibrationIsWhole'
    BY <1>1, <1>6 DEF Viture!CalibrationIsWhole
<1>10. Viture!AnswersAreOwnOrLate' /\ Viture!TrueIsAnswered'
    BY <1>1 DEF Viture!AnswersAreOwnOrLate, Viture!Overtaken, Viture!TrueIsAnswered
<1> QED BY <1>3, <1>4, <1>5, <1>7, <1>8, <1>9, <1>10

\* awaitResponse() gives a request up.
LEMMA VitureTimesOutKeeps ==
    ASSUME Viture!VitureAssumption, VitureIInv, Viture!TimesOut
    PROVE  VitureIInv'
<1> USE DEF VitureIInv
<1>1. /\ UNCHANGED <<imuEnabled, native, field, request, packet, assembled, calibration, vitureOwed,
                     answers, stripped, calibrations, vitureDisplay, requests, applied, answersTaken>>
      /\ Viture!Awaited # "none" /\ abandoned' = abandoned \cup {request.number}
      /\ viturePhase' = "idle" /\ vitureResult' = FALSE
    BY DEF Viture!TimesOut, Viture!Waits, Viture!Return, Viture!calibrationVars, Viture!glassesVars
<1>2. Viture!Awaited' = "none" /\ viturePhase \notin {"calibrate", "awaitSegment"}
    BY <1>1 DEF Viture!Awaited
<1>3. request.number \in 1..requests
    BY <1>1 DEF VitureWaiting, VitureTypes
<1>4. VitureTypes'
    BY <1>1, <1>3 DEF VitureTypes, Viture!TypeOK
<1>5. VitureOrdered'
    BY <1>1 DEF VitureOrdered
<1>6. VitureWaiting'
    BY <1>2 DEF VitureWaiting
<1>7. VitureKnown \subseteq VitureKnown'
    BY <1>1, <1>2 DEF VitureKnown
<1>8. VitureAccounted'
    BY <1>1, <1>7 DEF VitureAccounted
<1>9. VitureDone' /\ VitureCalibrating'
    BY <1>1, <1>2 DEF VitureDone, VitureCalibrating, VitureResponse
<1>10. Viture!CalibrationIsWhole' /\ Viture!TrueIsAnswered'
    BY <1>1 DEF Viture!CalibrationIsWhole, Viture!TrueIsAnswered
<1>11. Viture!AnswersAreOwnOrLate'
    BY <1>1 DEF Viture!AnswersAreOwnOrLate, Viture!Overtaken
<1> QED BY <1>4, <1>5, <1>6, <1>8, <1>9, <1>10, <1>11

\* An element of a queue.
LEMMA VitureElement ==
    ASSUME NEW S, NEW q \in Seq(S), NEW i \in DOMAIN q
    PROVE  q[i] \in S
OBVIOUS

\* Byte sequences with a status byte in front.
LEMMA VitureInFront ==
    ASSUME NEW t \in Seq(Nat), NEW u \in Seq(Nat), Len(u) = Len(t) + 1, u[1] = 0,
           \A i \in 1..Len(t) : u[i + 1] = t[i]
    PROVE  <<0>> \o t = u
<1>1. Len(<<0>> \o t) = Len(u)
    OBVIOUS
<1>2. \A i \in 1..Len(u) : (<<0>> \o t)[i] = u[i]
    <2> TAKE i \in 1..Len(u)
    <2>1. CASE i = 1
        BY <2>1
    <2>2. CASE i # 1
        <3>1. i - 1 \in 1..Len(t) /\ (i - 1) + 1 = i
            BY <2>2
        <3>2. u[i] = t[i - 1]
            BY <3>1
        <3>3. (<<0>> \o t)[i] = t[i - 1]
            BY <3>1
        <3> QED BY <3>2, <3>3
    <2> QED BY <2>1, <2>2
<1> QED BY <1>1, <1>2

\* The bytes of a response with a status in front.
LEMMA VitureStatusInFront ==
    ASSUME NEW r \in Nat, NEW n \in Nat, NEW s \in Nat, NEW d \in Nat
    PROVE  <<0>> \o <<r, n, 0, s, 0, d>> = <<0, r, n, 0, s, 0, d>>
<1> DEFINE t == <<r, n, 0, s, 0, d>>
           u == <<0, r, n, 0, s, 0, d>>
<1>1. t \in Seq(Nat) /\ u \in Seq(Nat) /\ Len(t) = 6 /\ Len(u) = 7 /\ u[1] = 0
    OBVIOUS
<1>2. \A i \in 1..6 : u[i + 1] = t[i]
    <2> TAKE i \in 1..6
    <2>1. i = 1 \/ i = 2 \/ i = 3 \/ i = 4 \/ i = 5 \/ i = 6
        OBVIOUS
    <2> QED BY <2>1
<1> HIDE DEF t, u
<1>3. Len(u) = Len(t) + 1
    BY <1>1
<1>4. \A i \in 1..Len(t) : u[i + 1] = t[i]
    BY <1>1, <1>2
<1>5. <<0>> \o t = u
    BY <1>1, <1>3, <1>4, VitureInFront
<1> QED BY <1>5 DEF t, u

\* What the glasses answer to a request is of its number and kind, tells of a display mode
\* that was set, and of a calibration the segment that was asked for.
VitureAnswerTo(query, a) ==
    /\ a \in VitureAnswered /\ a.number = query.number /\ a.kind = query.kind
    /\ a.kind = "status" /\ a.value = "done" => a.number \in applied'
    /\ a.kind = "calibration" =>
          query.kind = "calibration" /\ a.value = VitureResponse(a.packet, calibrations, query.segment)

\* A response is bytes.
LEMMA VitureResponseIsBytes ==
    ASSUME NEW p \in 1..2, NEW r \in Nat, NEW s \in Nat, Segments \in Nat
    PROVE  /\ VitureResponse(p, r, s) \in Seq(Nat)
           /\ VitureResponse(p, r, s) = IF stripped THEN <<r, Segments, 0, s, 0, Viture!Data(p, r, s)>>
                                         ELSE <<0, r, Segments, 0, s, 0, Viture!Data(p, r, s)>>
<1> DEFINE d == Viture!Data(p, r, s)
<1>1. d \in Nat
    BY DEF Viture!Data
<1> HIDE DEF d
<1>2. <<r, Segments, 0, s, 0, d>> \in Seq(Nat) /\ <<0, r, Segments, 0, s, 0, d>> \in Seq(Nat)
    BY <1>1
<1>3. <<0>> \o <<r, Segments, 0, s, 0, d>> = <<0, r, Segments, 0, s, 0, d>>
    BY <1>1, VitureStatusInFront
<1> QED BY <1>2, <1>3 DEF VitureResponse, d

\* What the glasses answer to one request.
LEMMA VitureServed ==
    ASSUME Viture!VitureAssumption, VitureTypes, VitureCalibrating, Viture!Serve
    PROVE  /\ vitureDisplay' \in VitureModes /\ applied \subseteq applied'
           /\ applied' \subseteq applied \cup {Head(vitureOwed).number}
           /\ \/ answers' = answers
              \/ \E a : VitureAnswerTo(Head(vitureOwed), a) /\ answers' = Append(answers, a)
<1> DEFINE query == Head(vitureOwed)
<1>1. vitureOwed \in Seq(VitureAsked) /\ vitureOwed # <<>> /\ vitureDisplay \in VitureModes
    BY DEF VitureTypes, Viture!Serve
<1>2. query = vitureOwed[1] /\ query \in VitureAsked /\ 1 \in DOMAIN vitureOwed
    BY <1>1, VitureFirst
<1>3. /\ query.number \in Nat
      /\ query.kind \in Viture!Kinds => query.value \in VitureModes
      /\ query.kind = "calibration" => query.packet \in 1..2 /\ query.segment \in Nat
    BY <1>2 DEF VitureAsked, Viture!Kinds
<1>4. calibrations \in Nat /\ Segments \in Nat
    BY DEF VitureTypes, Viture!TypeOK, Viture!VitureAssumption
<1> HIDE DEF query
<1>5. CASE /\ query.kind \in {"native", "display"} /\ UNCHANGED <<vitureDisplay, applied>>
           /\ \E v \in VitureValues : Viture!Answers(query, v)
    <2>1. PICK v \in VitureValues : Viture!Answers(query, v)
        BY <1>5
    <2> DEFINE a == [number |-> query.number, kind |-> query.kind, value |-> v]
    <2>2. VitureAnswerTo(query, a)
        BY <1>3, <1>5 DEF VitureAnswerTo, VitureAnswered, Viture!Kinds
    <2>3. answers' = Append(answers, a) \/ answers' = answers
        BY <2>1 DEF Viture!Answers
    <2> QED BY <1>1, <1>5, <2>2, <2>3 DEF query
<1>6. CASE /\ query.kind = "status" /\ vitureDisplay' = query.value /\ applied' = applied \cup {query.number}
           /\ Viture!Answers(query, "done")
    <2> DEFINE a == [number |-> query.number, kind |-> query.kind, value |-> "done"]
    <2>1. VitureAnswerTo(query, a)
        BY <1>3, <1>6 DEF VitureAnswerTo, VitureAnswered, Viture!Kinds, VitureValues
    <2>2. answers' = Append(answers, a) \/ answers' = answers
        BY <1>6 DEF Viture!Answers
    <2> QED BY <1>3, <1>6, <2>1, <2>2 DEF query, Viture!Kinds
<1>7. CASE query.kind = "status" /\ UNCHANGED <<vitureDisplay, applied>> /\ Viture!Answers(query, "refused")
    <2> DEFINE a == [number |-> query.number, kind |-> query.kind, value |-> "refused"]
    <2>1. VitureAnswerTo(query, a)
        BY <1>3, <1>7 DEF VitureAnswerTo, VitureAnswered, Viture!Kinds, VitureValues
    <2>2. answers' = Append(answers, a) \/ answers' = answers
        BY <1>7 DEF Viture!Answers
    <2> QED BY <1>1, <1>7, <2>1, <2>2 DEF query
<1>8. CASE /\ query.kind = "calibration" /\ UNCHANGED <<vitureDisplay, applied>>
           /\ answers' = Append(answers, [number |-> query.number, kind |-> query.kind, packet |-> query.packet,
                                          value |-> VitureResponse(query.packet, calibrations, query.segment)])
    <2> DEFINE v == VitureResponse(query.packet, calibrations, query.segment)
               a == [number |-> query.number, kind |-> query.kind, packet |-> query.packet, value |-> v]
    <2>1. v \in Seq(Nat)
        BY <1>3, <1>4, <1>8, VitureResponseIsBytes
    <2>2. /\ a.number = query.number /\ a.kind = "calibration" /\ a.packet = query.packet
          /\ a.value = VitureResponse(a.packet, calibrations, query.segment)
        BY <1>8
    <2> HIDE DEF v
    <2>3. a \in VitureAnswered
        BY <1>3, <1>8, <2>1 DEF VitureAnswered
    <2>4. answers' = Append(answers, a)
        BY <1>8 DEF v
    <2> HIDE DEF a
    <2>5. VitureAnswerTo(query, a)
        BY <1>8, <2>2, <2>3 DEF VitureAnswerTo
    <2> QED BY <1>1, <1>8, <2>4, <2>5 DEF query
<1>9. CASE UNCHANGED <<answers, vitureDisplay, applied>>
    BY <1>1, <1>9
<1>10. \/ /\ query.kind = "native" /\ Viture!Answers(query, IF nativeMode THEN "native" ELSE "bypass")
          /\ UNCHANGED <<vitureDisplay, applied>>
       \/ /\ query.kind = "display" /\ Viture!Answers(query, vitureDisplay)
          /\ UNCHANGED <<vitureDisplay, applied>>
       \/ /\ query.kind = "status" /\ Viture!Answers(query, "done")
          /\ vitureDisplay' = query.value /\ applied' = applied \cup {query.number}
       \/ query.kind = "status" /\ Viture!Answers(query, "refused") /\ UNCHANGED <<vitureDisplay, applied>>
       \/ /\ query.kind = "calibration" /\ UNCHANGED <<vitureDisplay, applied>>
          /\ answers' = Append(answers, [number |-> query.number, kind |-> query.kind, packet |-> query.packet,
                                         value |-> Viture!Payload(query.packet, query.segment)])
       \/ UNCHANGED <<answers, vitureDisplay, applied>>
    BY DEF Viture!Serve, query
<1>11. (IF nativeMode THEN "native" ELSE "bypass") \in VitureValues /\ vitureDisplay \in VitureValues
    BY <1>1 DEF VitureValues
<1>12. Viture!Payload(query.packet, query.segment) = VitureResponse(query.packet, calibrations, query.segment)
    BY DEF Viture!Payload, VitureResponse
<1> QED BY <1>5, <1>6, <1>7, <1>8, <1>9, <1>10, <1>11, <1>12

\* The glasses serve a request.
LEMMA VitureServeKeeps ==
    ASSUME Viture!VitureAssumption, VitureIInv, Viture!Serve
    PROVE  VitureIInv'
<1> USE DEF VitureIInv
<1> DEFINE n == Head(vitureOwed).number
<1>1. /\ UNCHANGED <<imuEnabled, viturePhase, native, field, request, packet, assembled, calibration,
                     nativeMode, stripped, calibrations, requests, abandoned, answersTaken, vitureResult>>
      /\ vitureOwed # <<>> /\ vitureOwed' = Tail(vitureOwed)
    BY DEF Viture!Serve, Viture!callerVars, Viture!calibrationVars
<1>2. /\ vitureOwed \in Seq(VitureAsked) /\ answers \in Seq(VitureAnswered)
      /\ requests \in Nat
    BY DEF VitureTypes
<1>3. /\ vitureDisplay' \in VitureModes /\ applied \subseteq applied' /\ applied' \subseteq applied \cup {n}
      /\ \/ answers' = answers
         \/ \E a : VitureAnswerTo(Head(vitureOwed), a) /\ answers' = Append(answers, a)
    BY VitureServed
<1>4. /\ Head(vitureOwed) = vitureOwed[1] /\ 1 \in DOMAIN vitureOwed /\ vitureOwed' \in Seq(VitureAsked)
      /\ \A i \in DOMAIN vitureOwed' :
            i \in Nat /\ i + 1 \in DOMAIN vitureOwed /\ vitureOwed'[i] = vitureOwed[i + 1] /\ 1 < i + 1
    BY <1>1, <1>2, VitureFirst
\* Every answer is an old one or to the first request, and what is owed now came after it.
<1>5. /\ answers' \in Seq(VitureAnswered)
      /\ \A i \in DOMAIN answers' :
            \/ i \in DOMAIN answers /\ answers'[i] = answers[i]
            \/ VitureAnswerTo(vitureOwed[1], answers'[i]) /\ \A j \in DOMAIN answers : j < i
      /\ \A i, j \in DOMAIN answers' : i < j => i \in DOMAIN answers /\ answers'[i] = answers[i]
    <2>1. CASE answers' = answers
        <3>1. \A i, j \in DOMAIN answers : i < j => i \in DOMAIN answers
            OBVIOUS
        <3> QED BY <1>2, <2>1, <3>1
    <2>2. CASE \E a : VitureAnswerTo(Head(vitureOwed), a) /\ answers' = Append(answers, a)
        <3> PICK a : VitureAnswerTo(Head(vitureOwed), a) /\ answers' = Append(answers, a)
            BY <2>2
        <3>1. a \in VitureAnswered
            BY DEF VitureAnswerTo
        <3>2. /\ answers' \in Seq(VitureAnswered) /\ DOMAIN answers = 1..Len(answers) /\ Len(answers) \in Nat
              /\ DOMAIN answers' = 1..(Len(answers) + 1)
              /\ \A i \in DOMAIN answers' :
                    (i \in DOMAIN answers /\ answers'[i] = answers[i] /\ i < Len(answers) + 1)
                    \/ (i = Len(answers) + 1 /\ answers'[i] = a)
            BY <1>2, <3>1, VitureAdded
        <3>3. ASSUME NEW i \in DOMAIN answers'
              PROVE  \/ i \in DOMAIN answers /\ answers'[i] = answers[i]
                     \/ VitureAnswerTo(vitureOwed[1], answers'[i]) /\ \A j \in DOMAIN answers : j < i
            <4>1. CASE i \in DOMAIN answers /\ answers'[i] = answers[i]
                BY <4>1
            <4>2. CASE i = Len(answers) + 1 /\ answers'[i] = a
                <5>1. \A j \in DOMAIN answers : j < i
                    BY <3>2, <4>2
                <5> QED BY <1>4, <4>2, <5>1
            <4> QED BY <3>2, <3>3, <4>1, <4>2
        <3>4. ASSUME NEW i \in DOMAIN answers', NEW j \in DOMAIN answers', i < j
              PROVE  i \in DOMAIN answers /\ answers'[i] = answers[i]
            BY <3>2, <3>4
        <3> QED BY <3>2, <3>3, <3>4
    <2> QED BY <1>3, <2>1, <2>2
<1>6. n = vitureOwed[1].number /\ n \in 1..requests
    BY <1>4 DEF VitureOrdered
<1>7. \A i \in DOMAIN answers' : VitureAnswerTo(vitureOwed[1], answers'[i]) => answers'[i].number = n
    BY <1>6 DEF VitureAnswerTo
<1> HIDE DEF n
<1>8. VitureTypes'
    <2>1. applied' \subseteq 1..requests
        BY <1>3, <1>6 DEF VitureTypes, Viture!TypeOK
    <2> QED BY <1>1, <1>3, <1>4, <1>5, <2>1 DEF VitureTypes, Viture!TypeOK
<1>9. VitureOrdered'
    <2>1. ASSUME NEW i \in DOMAIN vitureOwed'
          PROVE  /\ vitureOwed'[i].number \in 1..requests /\ n < vitureOwed'[i].number
                 /\ \A j \in DOMAIN vitureOwed' : i < j => vitureOwed'[i].number < vitureOwed'[j].number
                 /\ \A j \in DOMAIN answers' : answers'[j].number < vitureOwed'[i].number
                 /\ \A k \in Viture!Kinds : field[k].number < vitureOwed'[i].number
                 /\ \A j \in DOMAIN answersTaken : answersTaken[j].answer < vitureOwed'[i].number
        <3>1. /\ i \in Nat /\ i + 1 \in DOMAIN vitureOwed /\ vitureOwed'[i] = vitureOwed[i + 1] /\ 1 < i + 1
              /\ n < vitureOwed[i + 1].number
            BY <1>4, <1>6, <2>1 DEF VitureOrdered
        <3>2. ASSUME NEW j \in DOMAIN vitureOwed', i < j PROVE vitureOwed'[i].number < vitureOwed'[j].number
            <4>1. j \in Nat /\ j + 1 \in DOMAIN vitureOwed /\ vitureOwed'[j] = vitureOwed[j + 1]
                BY <1>4, <3>2
            <4>2. i + 1 < j + 1
                BY <3>1, <3>2, <4>1
            <4> QED BY <3>1, <4>1, <4>2 DEF VitureOrdered
        <3>3. ASSUME NEW j \in DOMAIN answers' PROVE answers'[j].number < vitureOwed'[i].number
            BY <1>5, <1>7, <3>1, <3>3 DEF VitureOrdered
        <3>4. /\ vitureOwed'[i].number \in 1..requests /\ n < vitureOwed'[i].number
              /\ \A k \in Viture!Kinds : field[k].number < vitureOwed'[i].number
              /\ \A j \in DOMAIN answersTaken : answersTaken[j].answer < vitureOwed'[i].number
            BY <3>1 DEF VitureOrdered
        <3> QED BY <3>2, <3>3, <3>4
    <2>2. ASSUME NEW i \in DOMAIN answers'
          PROVE  /\ answers'[i].number \in 1..requests
                 /\ \A j \in DOMAIN answers' : i < j => answers'[i].number < answers'[j].number
                 /\ \A k \in Viture!Kinds : field[k].number < answers'[i].number
                 /\ \A j \in DOMAIN answersTaken : answersTaken[j].answer < answers'[i].number
        <3>1. ASSUME NEW j \in DOMAIN answers', i < j PROVE answers'[i].number < answers'[j].number
            <4>1. i \in DOMAIN answers /\ answers'[i] = answers[i]
                BY <1>5, <2>2, <3>1
            <4>2. CASE j \in DOMAIN answers /\ answers'[j] = answers[j]
                BY <3>1, <4>1, <4>2 DEF VitureOrdered
            <4>3. CASE VitureAnswerTo(vitureOwed[1], answers'[j])
                BY <1>4, <1>6, <1>7, <3>1, <4>1, <4>3 DEF VitureOrdered
            <4> QED BY <1>5, <3>1, <4>2, <4>3
        <3>2. CASE i \in DOMAIN answers /\ answers'[i] = answers[i]
            BY <3>1, <3>2 DEF VitureOrdered
        <3>3. CASE VitureAnswerTo(vitureOwed[1], answers'[i])
            <4>1. answers'[i].number = n /\ answers'[i].number \in 1..requests
                BY <1>6, <1>7, <2>2, <3>3
            <4>2. \A k \in Viture!Kinds : field[k].number < n
                BY <1>4, <1>6 DEF VitureOrdered
            <4>3. \A j \in DOMAIN answersTaken : answersTaken[j].answer < n
                BY <1>4, <1>6 DEF VitureOrdered
            <4> QED BY <3>1, <4>1, <4>2, <4>3
        <3> QED BY <1>5, <2>2, <3>2, <3>3
    <2> QED BY <1>1, <2>1, <2>2 DEF VitureOrdered
<1>10. VitureWaiting'
    BY <1>1 DEF VitureWaiting, Viture!Awaited
<1>11. VitureAccounted'
    <2>1. VitureKnown' = VitureKnown
        BY <1>1 DEF VitureKnown, Viture!Awaited
    <2>2. \A i \in DOMAIN vitureOwed' : vitureOwed'[i].kind \in Viture!Kinds => vitureOwed'[i].number \in VitureKnown
        BY <1>4 DEF VitureAccounted
    <2>3. \A i \in DOMAIN answers' : answers'[i].kind \in Viture!Kinds => answers'[i].number \in VitureKnown
        BY <1>4, <1>5 DEF VitureAccounted, VitureAnswerTo
    <2> QED BY <1>1, <2>1, <2>2, <2>3 DEF VitureAccounted
<1>12. VitureDone'
    <2>1. \A i \in DOMAIN answers' :
             answers'[i].kind = "status" /\ answers'[i].value = "done" => answers'[i].number \in applied'
        BY <1>3, <1>5 DEF VitureDone, VitureAnswerTo
    <2> QED BY <1>1, <1>3, <2>1 DEF VitureDone
<1>13. VitureCalibrating'
    <2>1. ASSUME NEW i \in DOMAIN vitureOwed'
          PROVE  /\ viturePhase \in {"calibrate", "awaitSegment"} => vitureOwed'[i].kind = "calibration"
                 /\ vitureOwed'[i].kind = "calibration" => vitureOwed'[i].segment < Segments
        BY <1>4 DEF VitureCalibrating
    <2>2. ASSUME NEW i \in DOMAIN answers'
          PROVE  /\ viturePhase \in {"calibrate", "awaitSegment"} => answers'[i].kind = "calibration"
                 /\ answers'[i].kind = "calibration" =>
                       \E r \in 0..calibrations, s \in 0..Segments-1 :
                           answers'[i].value = VitureResponse(answers'[i].packet, r, s)
        <3>1. CASE i \in DOMAIN answers /\ answers'[i] = answers[i]
            BY <3>1 DEF VitureCalibrating
        <3>2. CASE VitureAnswerTo(vitureOwed[1], answers'[i])
            <4>1. viturePhase \in {"calibrate", "awaitSegment"} => answers'[i].kind = "calibration"
                BY <1>4, <3>2 DEF VitureCalibrating, VitureAnswerTo
            <4>2. ASSUME answers'[i].kind = "calibration"
                  PROVE  \E r \in 0..calibrations, s \in 0..Segments-1 :
                           answers'[i].value = VitureResponse(answers'[i].packet, r, s)
                <5>1. vitureOwed[1] \in VitureAsked
                    BY <1>1, <1>2, VitureFirst
                <5>2. vitureOwed[1].kind = "calibration"
                    BY <3>2, <4>2 DEF VitureAnswerTo
                <5>3. vitureOwed[1].segment \in Nat
                    BY <5>1, <5>2 DEF VitureAsked, Viture!Kinds
                <5>4. vitureOwed[1].segment < Segments
                    BY <1>4, <5>2 DEF VitureCalibrating
                <5>5. vitureOwed[1].segment \in 0..Segments-1 /\ calibrations \in 0..calibrations
                    <6>1. Segments \in 1..255 /\ calibrations \in Nat
                        BY DEF Viture!VitureAssumption, VitureTypes, Viture!TypeOK
                    <6> QED BY <5>3, <5>4, <6>1
                <5> QED BY <3>2, <4>2, <5>5 DEF VitureAnswerTo
            <4> QED BY <4>1, <4>2
        <3> QED BY <1>5, <2>2, <3>1, <3>2
    <2> QED BY <1>1, <2>1, <2>2 DEF VitureCalibrating, VitureResponse
<1>14. Viture!AnswersAreOwnOrLate' /\ Viture!CalibrationIsWhole'
    <2>1. Viture!AnswersAreOwnOrLate'
        BY <1>1 DEF Viture!AnswersAreOwnOrLate, Viture!Overtaken
    <2>2. Viture!CalibrationIsWhole'
        BY <1>1 DEF Viture!CalibrationIsWhole
    <2> QED BY <2>1, <2>2
<1>15. Viture!TrueIsAnswered'
    BY <1>1, <1>3 DEF Viture!TrueIsAnswered
<1> QED BY <1>8, <1>9, <1>10, <1>11, <1>12, <1>13, <1>14, <1>15

\* A request that is sent is the latest there is, whether or not the glasses get it.
LEMMA VitureAsks ==
    ASSUME VitureTypes, VitureOrdered, requests' = requests + 1,
           NEW query \in VitureAsked, query.number = requests + 1,
           vitureOwed' \in {vitureOwed, Append(vitureOwed, query)}, UNCHANGED <<answers, answersTaken>>,
           \A k \in Viture!Kinds : field'[k] = field[k] \/ field'[k] = Viture!Empty
    PROVE  /\ VitureOrdered' /\ vitureOwed' \in Seq(VitureAsked)
           /\ \A i \in DOMAIN vitureOwed' :
                 \/ i \in DOMAIN vitureOwed /\ vitureOwed'[i] = vitureOwed[i]
                 \/ vitureOwed'[i] = query
<1>1. /\ vitureOwed \in Seq(VitureAsked) /\ requests \in Nat
      /\ \A k \in Viture!Kinds : field[k].number \in Nat
    BY DEF VitureTypes
<1>2. /\ vitureOwed' \in Seq(VitureAsked)
      /\ \A i \in DOMAIN vitureOwed' :
            \/ i \in DOMAIN vitureOwed /\ vitureOwed'[i] = vitureOwed[i]
            \/ vitureOwed'[i] = query /\ \A j \in DOMAIN vitureOwed' : j <= i
    <2>1. CASE vitureOwed' = vitureOwed
        BY <1>1, <2>1
    <2>2. CASE vitureOwed' = Append(vitureOwed, query)
        <3>1. /\ vitureOwed' \in Seq(VitureAsked) /\ Len(vitureOwed) \in Nat
              /\ DOMAIN vitureOwed' = 1..(Len(vitureOwed) + 1)
              /\ \A i \in DOMAIN vitureOwed' :
                    \/ i \in DOMAIN vitureOwed /\ vitureOwed'[i] = vitureOwed[i] /\ i < Len(vitureOwed) + 1
                    \/ i = Len(vitureOwed) + 1 /\ vitureOwed'[i] = query
            BY <1>1, <2>2, VitureAdded
        <3> QED BY <3>1
    <2> QED BY <2>1, <2>2
<1>3. /\ \A i \in DOMAIN vitureOwed : vitureOwed[i].number \in 1..requests
      /\ \A i \in DOMAIN answers : answers[i].number \in 1..requests
      /\ \A k \in Viture!Kinds : field'[k].number \in 0..requests /\ field'[k].number <= field[k].number
      /\ \A i \in DOMAIN answersTaken : answersTaken[i].answer \in 1..requests
    <2>1. \A k \in Viture!Kinds : field'[k].number \in 0..requests /\ field'[k].number <= field[k].number
        BY <1>1 DEF VitureOrdered, Viture!Empty
    <2> QED BY <2>1 DEF VitureOrdered
<1>4. \A m \in 0..requests : m < query.number /\ m \in 0..requests'
    BY <1>1
<1>5. \A m \in 1..requests : m < query.number /\ m \in 1..requests'
    BY <1>1
<1>6. query.number \in 1..requests'
    BY <1>1
<1>7. ASSUME NEW i \in DOMAIN vitureOwed'
      PROVE  /\ vitureOwed'[i].number \in 1..requests'
             /\ \A j \in DOMAIN vitureOwed' : i < j => vitureOwed'[i].number < vitureOwed'[j].number
             /\ \A j \in DOMAIN answers : answers[j].number < vitureOwed'[i].number
             /\ \A k \in Viture!Kinds : field'[k].number < vitureOwed'[i].number
             /\ \A j \in DOMAIN answersTaken : answersTaken[j].answer < vitureOwed'[i].number
    <2>1. CASE i \in DOMAIN vitureOwed /\ vitureOwed'[i] = vitureOwed[i]
        <3>1. ASSUME NEW j \in DOMAIN vitureOwed', i < j PROVE vitureOwed'[i].number < vitureOwed'[j].number
            <4>1. CASE j \in DOMAIN vitureOwed /\ vitureOwed'[j] = vitureOwed[j]
                BY <2>1, <3>1, <4>1 DEF VitureOrdered
            <4>2. CASE vitureOwed'[j] = query
                BY <1>3, <1>5, <2>1, <4>2
            <4> QED BY <1>2, <3>1, <4>1, <4>2
        <3>2. \A k \in Viture!Kinds : field'[k].number < vitureOwed'[i].number
            <4> TAKE k \in Viture!Kinds
            <4>1. field[k].number < vitureOwed[i].number
                BY <2>1 DEF VitureOrdered
            <4>2. field'[k].number <= field[k].number /\ field'[k].number \in Nat /\ vitureOwed[i].number \in Nat
                BY <1>3, <2>1
            <4> QED BY <1>1, <2>1, <4>1, <4>2
        <3> QED BY <1>3, <1>5, <2>1, <3>1, <3>2 DEF VitureOrdered
    <2>2. CASE vitureOwed'[i] = query /\ \A j \in DOMAIN vitureOwed' : j <= i
        <3>1. ASSUME NEW j \in DOMAIN vitureOwed', i < j PROVE FALSE
            <4>1. j \in Nat /\ i \in Nat /\ j <= i
                BY <1>2, <1>7, <2>2, <3>1
            <4> QED BY <3>1, <4>1
        <3> QED BY <1>3, <1>4, <1>5, <1>6, <2>2, <3>1
    <2> QED BY <1>2, <1>7, <2>1, <2>2
<1>8. ASSUME NEW i \in DOMAIN answers
      PROVE  /\ answers[i].number \in 1..requests'
             /\ \A j \in DOMAIN answers : i < j => answers[i].number < answers[j].number
             /\ \A k \in Viture!Kinds : field'[k].number < answers[i].number
             /\ \A j \in DOMAIN answersTaken : answersTaken[j].answer < answers[i].number
    <2>1. \A k \in Viture!Kinds : field'[k].number < answers[i].number
        <3> TAKE k \in Viture!Kinds
        <3>1. field[k].number < answers[i].number
            BY <1>8 DEF VitureOrdered
        <3>2. field'[k].number <= field[k].number /\ field'[k].number \in Nat /\ answers[i].number \in Nat
            BY <1>3, <1>8
        <3> QED BY <1>1, <3>1, <3>2
    <2> QED BY <1>3, <1>5, <2>1 DEF VitureOrdered
<1>9. \A k \in Viture!Kinds : field'[k] = Viture!Empty \/ field'[k].number \in 1..requests'
    BY <1>5 DEF VitureOrdered
<1>10. VitureOrdered'
    BY <1>3, <1>5, <1>7, <1>8, <1>9 DEF VitureOrdered
<1> QED BY <1>2, <1>10

\* The packet that was read, or was given up, is put away.
LEMMA ViturePacketReadKeeps ==
    ASSUME Viture!VitureAssumption, VitureIInv, NEW bytes \in Seq(Nat), Viture!PacketRead(bytes),
           bytes # <<>> => \E r \in 0..calibrations :
                              bytes = [s \in 1..Segments |-> Viture!Data(packet, r, s - 1)],
           viturePhase \in {"calibrate", "awaitSegment"},
           UNCHANGED <<imuEnabled, native, field, request, vitureOwed, stripped, calibrations, vitureDisplay,
                       abandoned, applied, answersTaken, vitureResult>>,
           requests' \in 0..MaxRequests, requests <= requests', VitureOrdered',
           answers' \in Seq(VitureAnswered),
           \A i \in DOMAIN answers' : \E j \in DOMAIN answers : answers'[i] = answers[j]
    PROVE  VitureIInv'
<1> USE DEF VitureIInv
<1>1. /\ calibration' = [calibration EXCEPT ![packet] = bytes] /\ assembled' = Viture!NoSegments
      /\ packet' = 2 /\ viturePhase' = IF packet = 1 THEN "calibrate" ELSE "idle"
    BY DEF Viture!PacketRead
<1>2. packet \in 1..2 /\ calibration \in [1..2 -> Seq(Nat)] /\ requests \in Nat /\ Segments \in 1..255
    BY DEF VitureTypes, Viture!TypeOK, Viture!VitureAssumption
<1>3. VitureTypes'
    <2>1. assembled' \in [segment : Nat, bytes : Seq(Nat), sequence : Nat, total : Nat] /\ assembled'.segment = 0
        <3>1. <<>> \in Seq(Nat)
            OBVIOUS
        <3> QED BY <1>1, <3>1 DEF Viture!NoSegments
    <2>2. calibration' \in [1..2 -> Seq(Nat)]
        BY <1>1, <1>2
    <2>3. abandoned' \cup applied' \subseteq 1..requests' /\ requests' \in Nat
        <3>1. abandoned \cup applied \subseteq 1..requests
            BY DEF VitureTypes, Viture!TypeOK
        <3>2. requests' \in Nat /\ \A m \in 1..requests : m \in 1..requests'
            BY <1>2
        <3> QED BY <3>1, <3>2
    <2>4. Viture!TypeOK'
        <3>1. packet' \in 1..2 /\ assembled'.segment < Segments /\ viturePhase' \in {"calibrate", "idle"}
            <4>1. packet' \in 1..2 /\ viturePhase' \in {"calibrate", "idle"}
                BY <1>1
            <4>2. assembled'.segment < Segments
                BY <1>2, <2>1
            <4> QED BY <4>1, <4>2
        <3> QED BY <2>3, <3>1 DEF VitureTypes, Viture!TypeOK
    <2> QED BY <2>1, <2>2, <2>3, <2>4 DEF VitureTypes
<1>4. Viture!Awaited = "none" /\ Viture!Awaited' = "none"
    BY <1>1 DEF Viture!Awaited
<1>5. VitureWaiting'
    BY <1>4 DEF VitureWaiting
<1>6. VitureAccounted'
    <2>1. VitureKnown' = VitureKnown
        BY <1>4 DEF VitureKnown
    <2> QED BY <2>1 DEF VitureAccounted
<1>7. VitureDone'
    BY <1>1 DEF VitureDone
<1>8. VitureCalibrating'
    <2>1. assembled'.segment = 0 /\ assembled'.bytes = <<>>
        BY <1>1 DEF Viture!NoSegments
    <2>2. ~(assembled'.segment > 0)
        BY <2>1
    <2>3. \A i \in DOMAIN answers' :
             /\ viturePhase' \in {"calibrate", "awaitSegment"} => answers'[i].kind = "calibration"
             /\ answers'[i].kind = "calibration" =>
                   \E r \in 0..calibrations, s \in 0..Segments-1 :
                       answers'[i].value = VitureResponse(answers'[i].packet, r, s)
        BY DEF VitureCalibrating
    <2>4. \A i \in DOMAIN vitureOwed' : vitureOwed'[i].kind = "calibration" /\ vitureOwed'[i].segment < Segments
        BY DEF VitureCalibrating
    <2> HIDE DEF VitureIInv
    <2> QED BY <2>1, <2>2, <2>3, <2>4 DEF VitureCalibrating, VitureResponse
<1>9. Viture!CalibrationIsWhole'
    BY <1>1, <1>2 DEF Viture!CalibrationIsWhole
<1>10. Viture!AnswersAreOwnOrLate'
    BY DEF Viture!AnswersAreOwnOrLate, Viture!Overtaken
<1>11. Viture!TrueIsAnswered'
    BY DEF Viture!TrueIsAnswered, VitureDone
<1> QED BY <1>3, <1>5, <1>6, <1>7, <1>8, <1>9, <1>10, <1>11

\* A request for the next segment, sent or not.
LEMMA VitureSendSegmentRequestKeeps ==
    ASSUME Viture!VitureAssumption, VitureIInv, Viture!SendSegmentRequest
    PROVE  VitureIInv'
<1> USE DEF VitureIInv
<1> DEFINE query == [number |-> requests', kind |-> "calibration", packet |-> packet,
                     segment |-> assembled.segment]
<1>1. /\ UNCHANGED <<imuEnabled, native, field, request, stripped, calibrations, vitureDisplay, answers,
                     abandoned, applied, answersTaken, vitureResult>>
      /\ viturePhase = "calibrate" /\ requests < MaxRequests /\ requests' = requests + 1
      /\ \/ /\ vitureOwed' = Append(vitureOwed, query) /\ viturePhase' = "awaitSegment"
            /\ UNCHANGED <<packet, assembled, calibration>>
         \/ UNCHANGED vitureOwed /\ Viture!PacketRead(<<>>)
    BY DEF Viture!SendSegmentRequest, Viture!calibrationVars, Viture!glassesVars
<1>2. /\ requests \in Nat /\ packet \in 1..2 /\ assembled.segment \in Nat /\ assembled.segment < Segments
      /\ MaxRequests \in Nat /\ answers \in Seq(VitureAnswered)
    BY DEF VitureTypes, Viture!TypeOK, Viture!VitureAssumption
<1>3. /\ query \in VitureAsked /\ query.number = requests + 1 /\ query.kind = "calibration"
      /\ query.segment < Segments
    BY <1>1, <1>2 DEF VitureAsked
<1> HIDE DEF query
<1>4. requests' \in 0..MaxRequests /\ requests <= requests' /\ requests' \in Nat
    BY <1>1, <1>2
<1>5. vitureOwed' \in {vitureOwed, Append(vitureOwed, query)}
    BY <1>1
<1>6. /\ VitureOrdered' /\ vitureOwed' \in Seq(VitureAsked)
      /\ \A i \in DOMAIN vitureOwed' :
            \/ i \in DOMAIN vitureOwed /\ vitureOwed'[i] = vitureOwed[i]
            \/ vitureOwed'[i] = query
    BY <1>1, <1>3, <1>5, VitureAsks
<1>7. CASE UNCHANGED vitureOwed /\ Viture!PacketRead(<<>>)
    <2>1. <<>> \in Seq(Nat)
        OBVIOUS
    <2>2. answers' \in Seq(VitureAnswered) /\ \A i \in DOMAIN answers' : \E j \in DOMAIN answers : answers'[i] = answers[j]
        BY <1>1, <1>2
    <2> QED BY <1>1, <1>4, <1>6, <1>7, <2>1, <2>2, ViturePacketReadKeeps
<1>8. CASE viturePhase' = "awaitSegment" /\ UNCHANGED <<packet, assembled, calibration>>
    <2>1. Viture!Awaited = "none" /\ Viture!Awaited' = "none"
        BY <1>1, <1>8 DEF Viture!Awaited
    <2>2. VitureTypes'
        <3>1. abandoned' \cup applied' \subseteq 1..requests'
            BY <1>1, <1>2 DEF VitureTypes, Viture!TypeOK
        <3>2. Viture!TypeOK'
            BY <1>1, <1>4, <1>8, <3>1 DEF VitureTypes, Viture!TypeOK
        <3> QED BY <1>1, <1>4, <1>6, <1>8, <3>2 DEF VitureTypes
    <2>3. VitureWaiting'
        BY <2>1 DEF VitureWaiting
    <2>4. VitureAccounted'
        <3>1. VitureKnown' = VitureKnown
            BY <1>1, <2>1 DEF VitureKnown
        <3>2. \A i \in DOMAIN vitureOwed' : vitureOwed'[i].kind \in Viture!Kinds => vitureOwed'[i].number \in VitureKnown
            BY <1>3, <1>6 DEF VitureAccounted, Viture!Kinds
        <3> QED BY <1>1, <3>1, <3>2 DEF VitureAccounted
    <2>5. VitureDone'
        BY <1>1, <1>8 DEF VitureDone
    <2>6. VitureCalibrating'
        <3>1. \A i \in DOMAIN vitureOwed' :
                 vitureOwed'[i].kind = "calibration" /\ vitureOwed'[i].segment < Segments
            BY <1>1, <1>3, <1>6 DEF VitureCalibrating
        <3> QED BY <1>1, <1>8, <3>1 DEF VitureCalibrating, VitureResponse
    <2>7. Viture!AnswersAreOwnOrLate' /\ Viture!CalibrationIsWhole'
        <3>1. Viture!AnswersAreOwnOrLate'
            BY <1>1 DEF Viture!AnswersAreOwnOrLate, Viture!Overtaken
        <3>2. Viture!CalibrationIsWhole'
            BY <1>1, <1>8 DEF Viture!CalibrationIsWhole
        <3> QED BY <3>1, <3>2
    <2>8. Viture!TrueIsAnswered'
        BY <1>8 DEF Viture!TrueIsAnswered
    <2> QED BY <1>6, <2>2, <2>3, <2>4, <2>5, <2>6, <2>7, <2>8
<1> QED BY <1>1, <1>7, <1>8

\* awaitCalibrationResponse() ends without an answer.
LEMMA VitureSegmentTimesOutKeeps ==
    ASSUME Viture!VitureAssumption, VitureIInv, Viture!SegmentTimesOut
    PROVE  VitureIInv'
<1> USE DEF VitureIInv
<1>1. /\ UNCHANGED <<imuEnabled, native, field, request, stripped, calibrations, vitureDisplay, answers, vitureOwed,
                     abandoned, applied, answersTaken, vitureResult, requests>>
      /\ viturePhase = "awaitSegment" /\ Viture!PacketRead(<<>>)
    BY DEF Viture!SegmentTimesOut, Viture!glassesVars
<1>2. <<>> \in Seq(Nat)
    OBVIOUS
<1>3. /\ answers' \in Seq(VitureAnswered) /\ \A i \in DOMAIN answers' : \E j \in DOMAIN answers : answers'[i] = answers[j]
      /\ requests' \in 0..MaxRequests /\ requests <= requests'
    BY <1>1 DEF VitureTypes, Viture!TypeOK
<1>4. VitureOrdered'
    BY <1>1 DEF VitureOrdered
<1> QED BY <1>1, <1>2, <1>3, <1>4, ViturePacketReadKeeps

\* The first answer is read, to be put into a field or not.
LEMMA VitureReads ==
    ASSUME VitureTypes, VitureOrdered, answers # <<>>, answers' = Tail(answers),
           UNCHANGED <<vitureOwed, answersTaken, requests>>,
           \A k \in Viture!Kinds : field'[k] = field[k] \/ field'[k].number = Head(answers).number
    PROVE  /\ VitureOrdered' /\ answers' \in Seq(VitureAnswered)
           /\ Head(answers) = answers[1] /\ Head(answers) \in VitureAnswered /\ 1 \in DOMAIN answers
           /\ \A i \in DOMAIN answers' : i \in Nat /\ i + 1 \in DOMAIN answers /\ answers'[i] = answers[i + 1] /\ 1 < i + 1
<1>1. answers \in Seq(VitureAnswered)
    BY DEF VitureTypes
<1>2. /\ answers' \in Seq(VitureAnswered)
      /\ Head(answers) = answers[1] /\ Head(answers) \in VitureAnswered /\ 1 \in DOMAIN answers
      /\ \A i \in DOMAIN answers' : i \in Nat /\ i + 1 \in DOMAIN answers /\ answers'[i] = answers[i + 1] /\ 1 < i + 1
    BY <1>1, VitureFirst
<1>3. ASSUME NEW i \in DOMAIN vitureOwed
      PROVE  /\ vitureOwed[i].number \in 1..requests
             /\ \A j \in DOMAIN vitureOwed : i < j => vitureOwed[i].number < vitureOwed[j].number
             /\ \A j \in DOMAIN answers' : answers'[j].number < vitureOwed[i].number
             /\ \A k \in Viture!Kinds : field'[k].number < vitureOwed[i].number
             /\ \A j \in DOMAIN answersTaken : answersTaken[j].answer < vitureOwed[i].number
    BY <1>2, <1>3 DEF VitureOrdered
<1>4. ASSUME NEW i \in DOMAIN answers'
      PROVE  /\ answers'[i].number \in 1..requests
             /\ \A j \in DOMAIN answers' : i < j => answers'[i].number < answers'[j].number
             /\ \A k \in Viture!Kinds : field'[k].number < answers'[i].number
             /\ \A j \in DOMAIN answersTaken : answersTaken[j].answer < answers'[i].number
    <2>1. i \in Nat /\ i + 1 \in DOMAIN answers /\ answers'[i] = answers[i + 1] /\ 1 < i + 1
        BY <1>2, <1>4
    <2>2. ASSUME NEW j \in DOMAIN answers', i < j PROVE answers'[i].number < answers'[j].number
        <3>1. j \in Nat /\ j + 1 \in DOMAIN answers /\ answers'[j] = answers[j + 1] /\ i + 1 < j + 1
            BY <1>2, <2>1, <2>2
        <3> QED BY <2>1, <3>1 DEF VitureOrdered
    <2>3. \A k \in Viture!Kinds : field'[k].number < answers'[i].number
        BY <1>2, <2>1 DEF VitureOrdered
    <2> QED BY <2>1, <2>2, <2>3 DEF VitureOrdered
<1>5. \A k \in Viture!Kinds : field'[k] = Viture!Empty \/ field'[k].number \in 1..requests
    BY <1>2 DEF VitureOrdered
<1>6. VitureOrdered'
    BY <1>3, <1>4, <1>5 DEF VitureOrdered
<1> QED BY <1>2, <1>6

\* What is in the bytes of a segment.
VitureIsSegment(b, p, r, n) ==
    b[1] = r /\ Viture!Uint16(b, 1) = Segments /\ SubSeq(b, 6, Len(b)) = <<Viture!Data(p, r, n)>>

\* A response that is taken for a segment, and has a total, is that segment's.
LEMMA VitureSegmentIsTheOneAwaited ==
    ASSUME NEW p \in 1..2, NEW r \in Nat, NEW s \in 0..Segments-1, NEW n \in 0..Segments-1, Segments \in 1..255,
           stripped \in BOOLEAN, NEW v, v = VitureResponse(p, r, s), Viture!HasSegment(v, n),
           Viture!Uint16(Viture!SegmentOf(v, n), 1) # 0
    PROVE  s = n /\ VitureIsSegment(Viture!SegmentOf(v, n), p, r, n)
<1> DEFINE b == Viture!SegmentOf(v, n)
           d == Viture!Data(p, r, s)
           u == <<r, Segments, 0, s, 0, d>>
<1>0. d \in Nat /\ d >= s /\ Segments \in Nat /\ s \in Nat /\ n \in Nat /\ n < 256 /\ Segments < 256
    BY DEF Viture!Data
<1>1. v = IF stripped THEN u ELSE <<0, r, Segments, 0, s, 0, d>>
    BY <1>0, VitureResponseIsBytes
<1> DEFINE w == <<0, r, Segments, 0, s, 0, d>>
<1> HIDE DEF d
<1>a. /\ u \in Seq(Nat) /\ Len(u) = 6
      /\ u[1] = r /\ u[2] = Segments /\ u[3] = 0 /\ u[4] = s /\ u[5] = 0 /\ u[6] = d
    BY <1>0
<1>b. /\ w \in Seq(Nat) /\ Len(w) = 7
      /\ w[1] = 0 /\ w[2] = r /\ w[3] = Segments /\ w[4] = 0 /\ w[5] = s /\ w[6] = 0 /\ w[7] = d
    BY <1>0
<1>2. /\ SubSeq(u, 6, Len(u)) = <<d>>
      /\ Viture!Uint16(u, 1) = Segments /\ Viture!Uint16(u, 3) = s
      /\ Viture!Uint16(Tail(u), 1) = 256 * s /\ Viture!Uint16(Tail(u), 3) = 256 * d
    <2>1. Tail(u)[2] = 0 /\ Tail(u)[3] = s /\ Tail(u)[4] = 0 /\ Tail(u)[5] = d
        BY <1>0, <1>a
    <2> DEFINE z == SubSeq(u, 6, 6)
    <2>2. z \in Seq(Nat) /\ Len(z) = 1 /\ z[1] = d
        BY <1>0, <1>a
    <2>3. z = <<d>>
        <3> HIDE DEF z
        <3> QED BY <2>2
    <2>4. SubSeq(u, 6, Len(u)) = <<d>>
        BY <1>a, <2>3
    <2> HIDE DEF u
    <2>5. Viture!Uint16(u, 1) = Segments /\ Viture!Uint16(u, 3) = s
        BY <1>0, <1>a DEF Viture!Uint16
    <2>6. Viture!Uint16(Tail(u), 1) = 256 * s /\ Viture!Uint16(Tail(u), 3) = 256 * d
        <3> DEFINE t == Tail(u)
        <3>1. t[2] = 0 /\ t[3] = s /\ t[4] = 0 /\ t[5] = d
            BY <2>1
        <3> HIDE DEF t
        <3>2. Viture!Uint16(t, 1) = 256 * s /\ Viture!Uint16(t, 3) = 256 * d
            BY <1>0, <3>1 DEF Viture!Uint16
        <3> QED BY <3>2 DEF t
    <2> QED BY <2>4, <2>5, <2>6
<1>3. Len(w) = 7 /\ Head(w) = 0 /\ Tail(w) = u /\ Viture!Uint16(w, 3) = 256 * s
    <2>1. Tail(w) = u
        BY <1>0, <1>a, <1>b
    <2>2. Head(w) = 0
        BY <1>b
    <2> HIDE DEF w
    <2>3. Viture!Uint16(w, 3) = 256 * s
        BY <1>0, <1>b DEF Viture!Uint16
    <2> QED BY <1>b, <2>1, <2>2, <2>3
<1>c. (stripped => v = u) /\ (~stripped => v = w)
    BY <1>1
<1> HIDE DEF u, w
<1>4. b = u /\ Viture!Fits(b, n)
    <2>1. CASE stripped
        <3>1. v = u
            BY <1>c, <2>1
        <3>2. ASSUME Viture!IsStatus(v, n) PROVE FALSE
            <4>1. b = Tail(v) /\ Viture!Fits(Tail(v), n)
                BY <3>2 DEF Viture!SegmentOf, Viture!IsStatus
            <4>2. 256 * d = n
                BY <1>2, <3>1, <4>1 DEF Viture!Fits
            <4>3. d = 0
                BY <1>0, <4>2
            <4>4. 256 * s = 0
                BY <1>0, <4>3
            <4> QED BY <1>2, <3>1, <4>1, <4>4
        <3> QED BY <3>1, <3>2 DEF Viture!SegmentOf, Viture!HasSegment
    <2>2. CASE ~stripped
        <3>1. Len(v) = 7 /\ Head(v) = 0 /\ Tail(v) = u /\ Viture!Uint16(v, 3) = 256 * s
            BY <1>3, <1>c, <2>2
        <3>2. CASE Viture!Fits(v, n)
            <4>1. 256 * s = n
                BY <3>1, <3>2 DEF Viture!Fits
            <4>2. s = n
                BY <1>0, <4>1
            <4>3. Viture!Fits(u, n)
                BY <1>0, <1>2, <1>a, <4>2 DEF Viture!Fits
            <4>4. Viture!IsStatus(v, n)
                <5>1. Viture!Fits(Tail(v), n)
                    BY <3>1, <4>3
                <5>2. Head(v) = 0 /\ Len(v) > 5
                    BY <3>1
                <5> QED BY <5>1, <5>2 DEF Viture!IsStatus
            <4> QED BY <3>1, <4>3, <4>4 DEF Viture!SegmentOf
        <3>3. CASE Viture!IsStatus(v, n)
            BY <3>1, <3>3 DEF Viture!SegmentOf, Viture!IsStatus
        <3> QED BY <3>2, <3>3 DEF Viture!HasSegment
    <2> QED BY <2>1, <2>2
<1>5. s = n
    BY <1>2, <1>4 DEF Viture!Fits
<1> QED BY <1>2, <1>a, <1>4, <1>5 DEF d, VitureIsSegment

\* The bytes of a segment after those before it.
LEMMA VitureGrows ==
    ASSUME NEW n \in Nat, NEW p \in 1..2, NEW r \in Nat
    PROVE  [s \in 1..n |-> Viture!Data(p, r, s - 1)] \o <<Viture!Data(p, r, n)>>
             = [s \in 1..(n + 1) |-> Viture!Data(p, r, s - 1)]
<1> DEFINE t == [s \in 1..n |-> Viture!Data(p, r, s - 1)]
           d == Viture!Data(p, r, n)
           w == t \o <<d>>
<1>1. t \in Seq(Nat) /\ Len(t) = n /\ d \in Nat /\ \A s \in 1..n : t[s] = Viture!Data(p, r, s - 1)
    BY DEF Viture!Data
<1>2. d = Viture!Data(p, r, (n + 1) - 1)
    BY DEF Viture!Data
<1>3. /\ w \in Seq(Nat) /\ Len(w) = n + 1 /\ DOMAIN w = 1..(n + 1) /\ w[n + 1] = d
      /\ \A s \in 1..n : w[s] = t[s]
    <2> HIDE DEF t, d
    <2> QED BY <1>1
<1> HIDE DEF t, w, d
<1>4. \A s \in 1..(n + 1) : w[s] = Viture!Data(p, r, s - 1)
    <2> TAKE s \in 1..(n + 1)
    <2>1. CASE s \in 1..n
        BY <1>1, <1>3, <2>1
    <2>2. CASE s = n + 1
        BY <1>2, <1>3, <2>2
    <2> QED BY <2>1, <2>2
<1>5. w = [s \in 1..(n + 1) |-> Viture!Data(p, r, s - 1)]
    BY <1>3, <1>4
<1> QED BY <1>5 DEF w, t, d

\* A response that is read is passed over, ends the packet, or is the next segment.
LEMMA VitureSegmentReadKeeps ==
    ASSUME Viture!VitureAssumption, VitureIInv, Viture!SegmentRead
    PROVE  VitureIInv'
<1> USE DEF VitureIInv
<1> DEFINE heard == Head(answers)
           n == assembled.segment
           b == Viture!SegmentOf(heard.value, n)
           total == Viture!Uint16(b, 1)
           segments == Viture!Joined(b)
<1>1. /\ UNCHANGED <<imuEnabled, native, field, request, stripped, calibrations, vitureDisplay, vitureOwed,
                     abandoned, applied, answersTaken, vitureResult, requests>>
      /\ viturePhase = "awaitSegment" /\ answers # <<>> /\ answers' = Tail(answers)
    BY DEF Viture!SegmentRead, Viture!glassesVars
<1>2. \/ UNCHANGED <<viturePhase, packet, assembled, calibration>>
      \/ Viture!PacketRead(<<>>)
      \/ /\ heard.packet = packet /\ Viture!HasSegment(heard.value, n) /\ total # 0 /\ Viture!Continues(segments)
         /\ \/ segments.segment = segments.total /\ Viture!PacketRead(segments.bytes)
            \/ /\ segments.segment # segments.total /\ assembled' = segments /\ viturePhase' = "calibrate"
               /\ UNCHANGED <<packet, calibration>>
    <2>1. IF heard.packet # packet \/ ~Viture!HasSegment(heard.value, n)
          THEN UNCHANGED <<viturePhase, Viture!calibrationVars>>
          ELSE IF segments.total \in {0, 65535} \/ ~Viture!Continues(segments) THEN Viture!PacketRead(<<>>)
          ELSE IF segments.segment = segments.total THEN Viture!PacketRead(segments.bytes)
          ELSE assembled' = segments /\ viturePhase' = "calibrate" /\ UNCHANGED <<packet, calibration>>
        BY DEF Viture!SegmentRead
    <2>2. segments.total = total
        BY DEF Viture!Joined
    <2> HIDE DEF segments, heard, n, total
    <2> QED BY <2>1, <2>2 DEF Viture!calibrationVars
<1>3. /\ VitureOrdered' /\ answers' \in Seq(VitureAnswered)
      /\ heard = answers[1] /\ heard \in VitureAnswered /\ 1 \in DOMAIN answers
      /\ \A i \in DOMAIN answers' : i \in Nat /\ i + 1 \in DOMAIN answers /\ answers'[i] = answers[i + 1] /\ 1 < i + 1
    BY <1>1, VitureReads
<1>4. /\ packet \in 1..2 /\ Segments \in 1..255 /\ n \in 0..Segments-1 /\ n \in Nat /\ stripped \in BOOLEAN
      /\ calibrations \in Nat /\ assembled.bytes \in Seq(Nat) /\ requests \in 0..MaxRequests
      /\ requests <= requests
    <2>1. n \in Nat /\ n < Segments
        BY DEF VitureTypes, Viture!TypeOK
    <2> QED BY <2>1 DEF VitureTypes, Viture!TypeOK, Viture!VitureAssumption
<1>5. \A i \in DOMAIN answers' : \E j \in DOMAIN answers : answers'[i] = answers[j]
    BY <1>3
<1>6. CASE Viture!PacketRead(<<>>)
    <2>1. <<>> \in Seq(Nat)
        OBVIOUS
    <2> QED BY <1>1, <1>3, <1>4, <1>5, <1>6, <2>1, ViturePacketReadKeeps
<1>7. CASE UNCHANGED <<viturePhase, packet, assembled, calibration>>
    <2>1. VitureTypes'
        BY <1>1, <1>3, <1>7 DEF VitureTypes, Viture!TypeOK
    <2>2. VitureWaiting' /\ VitureKnown' = VitureKnown
        BY <1>1, <1>7 DEF VitureWaiting, VitureKnown, Viture!Awaited
    <2>3. VitureAccounted'
        BY <1>1, <1>5, <2>2 DEF VitureAccounted
    <2>4. VitureDone'
        BY <1>1, <1>5, <1>7 DEF VitureDone
    <2>5. VitureCalibrating'
        <3>1. \A i \in DOMAIN answers' :
                 /\ answers'[i].kind = "calibration"
                 /\ \E r \in 0..calibrations, s \in 0..Segments-1 :
                        answers'[i].value = VitureResponse(answers'[i].packet, r, s)
            BY <1>1, <1>5 DEF VitureCalibrating
        <3> QED BY <1>1, <1>7, <3>1 DEF VitureCalibrating, VitureResponse
    <2>6. Viture!AnswersAreOwnOrLate' /\ Viture!TrueIsAnswered' /\ Viture!CalibrationIsWhole'
        BY <1>1, <1>7 DEF Viture!AnswersAreOwnOrLate, Viture!Overtaken, Viture!TrueIsAnswered, Viture!CalibrationIsWhole
    <2> QED BY <1>3, <2>1, <2>2, <2>3, <2>4, <2>5, <2>6
<1>8. CASE /\ heard.packet = packet /\ Viture!HasSegment(heard.value, n) /\ total # 0 /\ Viture!Continues(segments)
           /\ \/ segments.segment = segments.total /\ Viture!PacketRead(segments.bytes)
              \/ /\ segments.segment # segments.total /\ assembled' = segments /\ viturePhase' = "calibrate"
                 /\ UNCHANGED <<packet, calibration>>
    <2>1. PICK r \in 0..calibrations, s \in 0..Segments-1 : heard.value = VitureResponse(packet, r, s)
        <3>1. answers[1].kind = "calibration"
            BY <1>1, <1>3 DEF VitureCalibrating
        <3> QED BY <1>3, <1>8, <3>1 DEF VitureCalibrating
    <2>2. r \in Nat /\ r <= calibrations
        BY <1>4
    <2>3. b[1] = r /\ total = Segments /\ SubSeq(b, 6, Len(b)) = <<Viture!Data(packet, r, n)>>
        <3> DEFINE v == heard.value
        <3>1. v = VitureResponse(packet, r, s) /\ Viture!HasSegment(v, n) /\ Viture!Uint16(Viture!SegmentOf(v, n), 1) # 0
            BY <1>8, <2>1
        <3> HIDE DEF v, n
        <3>2. VitureIsSegment(Viture!SegmentOf(v, n), packet, r, n)
            BY <1>4, <2>1, <2>2, <3>1, VitureSegmentIsTheOneAwaited
        <3> QED BY <3>2 DEF VitureIsSegment, v
    <2>4. n > 0 => assembled.sequence = r
        BY <1>8, <2>3 DEF Viture!Continues, Viture!Joined
    <2>5. assembled.bytes = [k \in 1..n |-> Viture!Data(packet, r, k - 1)]
        <3>1. CASE n > 0
            BY <2>4, <3>1 DEF VitureCalibrating
        <3>2. CASE n = 0
            <4> DEFINE e == [k \in 1..n |-> Viture!Data(packet, r, k - 1)]
            <4>1. e \in Seq(Nat) /\ Len(e) = 0
                <5>1. \A k \in 1..n : Viture!Data(packet, r, k - 1) \in Nat
                    BY <1>4, <3>2
                <5> QED BY <1>4, <3>2, <5>1
            <4>2. e = <<>>
                <5> HIDE DEF e
                <5> QED BY <4>1
            <4> QED BY <3>2, <4>2 DEF VitureCalibrating
        <3> QED BY <1>4, <3>1, <3>2
    <2>6. segments.bytes = [k \in 1..(n + 1) |-> Viture!Data(packet, r, k - 1)]
        <3>1. segments.bytes = assembled.bytes \o <<Viture!Data(packet, r, n)>>
            BY <2>3 DEF Viture!Joined
        <3> HIDE DEF segments, n
        <3>2. [k \in 1..n |-> Viture!Data(packet, r, k - 1)] \o <<Viture!Data(packet, r, n)>>
                = [k \in 1..(n + 1) |-> Viture!Data(packet, r, k - 1)]
            BY <1>4, <2>2, VitureGrows
        <3> QED BY <2>5, <3>1, <3>2
    <2>7. segments.segment = n + 1 /\ segments.total = Segments /\ segments.sequence = r
        BY <2>3 DEF Viture!Joined
    <2>8. segments.bytes \in Seq(Nat)
        <3> HIDE DEF segments, n
        <3> DEFINE F(k) == Viture!Data(packet, r, k - 1)
        <3>1. \A k \in 1..(n + 1) : F(k) \in Nat
            BY <1>4, <2>2 DEF Viture!Data
        <3>2. segments.bytes = [k \in 1..(n + 1) |-> F(k)] /\ n + 1 \in Nat
            BY <1>4, <2>6
        <3> HIDE DEF F
        <3> QED BY <3>1, <3>2
    <2>9. CASE segments.segment = segments.total /\ Viture!PacketRead(segments.bytes)
        <3>1. segments.bytes = [k \in 1..Segments |-> Viture!Data(packet, r, k - 1)]
            BY <2>6, <2>7, <2>9
        <3> HIDE DEF segments
        <3> QED BY <1>1, <1>3, <1>4, <1>5, <2>8, <2>9, <3>1, ViturePacketReadKeeps
    <2>10. CASE /\ segments.segment # segments.total /\ assembled' = segments /\ viturePhase' = "calibrate"
                /\ UNCHANGED <<packet, calibration>>
        <3>1. /\ assembled'.segment = n + 1 /\ assembled'.total = Segments /\ assembled'.sequence = r
              /\ assembled'.bytes = [k \in 1..(n + 1) |-> Viture!Data(packet, r, k - 1)]
              /\ n + 1 < Segments /\ n + 1 > 0
            <4>1. n + 1 < Segments /\ n + 1 > 0
                <5> HIDE DEF segments, n
                <5>1. n + 1 # Segments
                    BY <2>7, <2>10
                <5> QED BY <1>4, <5>1
            <4> QED BY <2>6, <2>7, <2>10, <4>1
        <3>2. assembled' \in [segment : Nat, bytes : Seq(Nat), sequence : Nat, total : Nat]
            <4>1. segments \in [segment : Nat, bytes : Seq(Nat), sequence : Nat, total : Nat]
                <5>1. n + 1 \in Nat /\ b[1] \in Nat /\ total \in Nat
                    BY <1>4, <2>2, <2>3
                <5>2. segments = [segment |-> n + 1, bytes |-> segments.bytes, sequence |-> b[1], total |-> total]
                    BY DEF Viture!Joined
                <5> HIDE DEF segments, n, b, total
                <5> QED BY <2>8, <5>1, <5>2
            <4> QED BY <2>10, <4>1
        <3> HIDE DEF segments, n
        <3>3. VitureTypes'
            BY <1>1, <1>3, <2>10, <3>1, <3>2 DEF VitureTypes, Viture!TypeOK
        <3>4. Viture!Awaited = "none" /\ Viture!Awaited' = "none"
            BY <1>1, <2>10 DEF Viture!Awaited
        <3>5. VitureWaiting' /\ VitureKnown' = VitureKnown
            BY <1>1, <3>4 DEF VitureWaiting, VitureKnown
        <3>6. VitureAccounted'
            BY <1>1, <1>5, <3>5 DEF VitureAccounted
        <3>7. VitureDone'
            BY <1>1, <1>5, <2>10 DEF VitureDone
        <3>8. VitureCalibrating'
            <4>1. \A i \in DOMAIN answers' :
                     /\ answers'[i].kind = "calibration"
                     /\ \E q \in 0..calibrations, s1 \in 0..Segments-1 :
                            answers'[i].value = VitureResponse(answers'[i].packet, q, s1)
                BY <1>1, <1>5 DEF VitureCalibrating
            <4>2. \A i \in DOMAIN vitureOwed : vitureOwed[i].kind = "calibration" /\ vitureOwed[i].segment < Segments
                BY <1>1 DEF VitureCalibrating
            <4>3. /\ assembled'.total = Segments /\ assembled'.sequence <= calibrations
                  /\ assembled'.bytes = [k \in 1..assembled'.segment |-> Viture!Data(packet', assembled'.sequence, k - 1)]
                BY <2>2, <2>10, <3>1
            <4>4. assembled'.segment # 0
                BY <3>1
            <4> HIDE DEF VitureIInv
            <4> QED BY <1>1, <4>1, <4>2, <4>3, <4>4 DEF VitureCalibrating, VitureResponse
        <3>9. Viture!AnswersAreOwnOrLate' /\ Viture!CalibrationIsWhole'
            BY <1>1, <2>10 DEF Viture!AnswersAreOwnOrLate, Viture!Overtaken, Viture!CalibrationIsWhole
        <3>10. Viture!TrueIsAnswered'
            BY <2>10 DEF Viture!TrueIsAnswered
        <3> QED BY <1>3, <3>3, <3>5, <3>6, <3>7, <3>8, <3>9, <3>10
    <2> QED BY <1>8, <2>9, <2>10
<1> QED BY <1>2, <1>6, <1>7, <1>8

\* queryNativeMode(), queryDisplayMode() and setDisplayMode() clear the field, and ask.
LEMMA VitureSendKeeps ==
    ASSUME Viture!VitureAssumption, VitureIInv,
           NEW topic \in Viture!Kinds, NEW value \in VitureModes, NEW next,
           Viture!Cleared(topic), Viture!Send(topic, value, next), Viture!Awaited = "none",
           viturePhase \notin {"calibrate", "awaitSegment"},
           \/ topic = "native" /\ next \in {"setNative", "queryNative"}
           \/ topic = "display" /\ next = "awaitDisplay"
           \/ topic = "status" /\ next = "awaitStatus"
    PROVE  VitureIInv'
<1> USE DEF VitureIInv
<1> DEFINE query == [number |-> requests + 1, kind |-> topic, value |-> value, native |-> native]
<1>1. /\ UNCHANGED <<imuEnabled, native, answersTaken, packet, assembled, calibration, answers, nativeMode,
                     vitureDisplay, stripped, calibrations, applied>>
      /\ requests < MaxRequests /\ requests' = requests + 1 /\ request' = query
      /\ field' = [field EXCEPT ![topic] = Viture!Empty]
      /\ \/ /\ viturePhase' = next /\ vitureOwed' = Append(vitureOwed, query)
            /\ UNCHANGED <<abandoned, vitureResult>>
         \/ /\ viturePhase' = "idle" /\ vitureResult' = FALSE /\ abandoned' = abandoned \cup {requests'}
            /\ UNCHANGED vitureOwed
    BY DEF Viture!Send, Viture!Cleared, Viture!Return, Viture!calibrationVars, Viture!glassesVars
<1>2. /\ requests \in Nat /\ MaxRequests \in Nat /\ native \in BOOLEAN
      /\ field \in [Viture!Kinds -> [number : Nat, value : VitureValues]]
    BY DEF VitureTypes, Viture!VitureAssumption
<1>3. /\ query \in VitureAsked /\ query.number = requests + 1 /\ query.kind = topic
    BY <1>2 DEF VitureAsked
<1> HIDE DEF query
<1>4. \A k \in Viture!Kinds : field'[k] = field[k] \/ field'[k] = Viture!Empty
    BY <1>1, <1>2
<1>5. vitureOwed' \in {vitureOwed, Append(vitureOwed, query)}
    BY <1>1
<1>6. /\ VitureOrdered' /\ vitureOwed' \in Seq(VitureAsked)
      /\ \A i \in DOMAIN vitureOwed' :
            \/ i \in DOMAIN vitureOwed /\ vitureOwed'[i] = vitureOwed[i]
            \/ vitureOwed'[i] = query
    BY <1>1, <1>3, <1>4, <1>5, VitureAsks
<1>7. requests' \in 1..MaxRequests /\ requests' \in Nat /\ requests' >= 1 /\ requests <= requests'
    BY <1>1, <1>2
<1>8. /\ viturePhase' \notin {"calibrate", "awaitSegment"}
      /\ viturePhase' \in {"idle", "setNative", "queryNative", "awaitDisplay", "awaitStatus"}
      /\ Viture!Awaited' \in {"none", topic} /\ topic # "none"
      /\ viturePhase' = next => Viture!Awaited' = topic
      /\ viturePhase' = "idle" => Viture!Awaited' = "none"
    BY <1>1 DEF Viture!Awaited, Viture!Kinds
<1>9. VitureTypes'
    <2>1. field' \in [Viture!Kinds -> [number : Nat, value : VitureValues]]
        BY <1>1, <1>2 DEF Viture!Empty, VitureValues, VitureModes
    <2>2. abandoned' \cup applied' \subseteq 1..requests'
        <3>1. \A m \in 1..requests : m \in 1..requests'
            BY <1>2, <1>7
        <3>2. requests' \in 1..requests'
            BY <1>7
        <3>3. abandoned \cup applied \subseteq 1..requests
            BY DEF VitureTypes, Viture!TypeOK
        <3> QED BY <1>1, <3>1, <3>2, <3>3
    <2>3. DOMAIN field' = Viture!Kinds /\ requests' \in 0..MaxRequests /\ request'.number \in Nat
        BY <1>1, <1>2, <1>3, <1>7, <2>1
    <2>4. vitureResult' \in BOOLEAN
        BY <1>1 DEF VitureTypes, Viture!TypeOK
    <2>5. Viture!TypeOK'
        BY <1>1, <1>8, <2>2, <2>3, <2>4 DEF VitureTypes, Viture!TypeOK
    <2> QED BY <1>1, <1>6, <1>7, <2>1, <2>3, <2>5 DEF VitureTypes
<1>10. VitureWaiting'
    <2>1. SUFFICES ASSUME Viture!Awaited' = topic
                   PROVE  /\ request'.number = requests' /\ requests' >= 1 /\ request'.kind = topic
                          /\ field'[topic] = Viture!Empty
        BY <1>8 DEF VitureWaiting
    <2> QED BY <1>1, <1>2, <1>3, <1>7
<1>11. VitureKnown \subseteq VitureKnown' /\ requests' \in VitureKnown'
    <2>1. VitureKnown = abandoned \cup {answersTaken[i].request : i \in DOMAIN answersTaken}
        BY DEF VitureKnown
    <2>2. CASE viturePhase' = next /\ UNCHANGED abandoned
        <3>1. Viture!Awaited' # "none" /\ request'.number = requests'
            BY <1>1, <1>3, <1>8, <2>2
        <3> QED BY <1>1, <2>1, <2>2, <3>1 DEF VitureKnown
    <2>3. CASE viturePhase' = "idle" /\ abandoned' = abandoned \cup {requests'}
        BY <1>1, <1>8, <2>1, <2>3 DEF VitureKnown
    <2> QED BY <1>1, <2>2, <2>3
<1>12. VitureAccounted'
    <2>1. \A i \in DOMAIN vitureOwed' : vitureOwed'[i].kind \in Viture!Kinds => vitureOwed'[i].number \in VitureKnown'
        BY <1>1, <1>3, <1>6, <1>11 DEF VitureAccounted
    <2>2. \A k \in Viture!Kinds : field'[k] # Viture!Empty => field'[k].number \in VitureKnown'
        BY <1>4, <1>11 DEF VitureAccounted
    <2>3. \A i \in DOMAIN answers' : answers'[i].kind \in Viture!Kinds => answers'[i].number \in VitureKnown'
        BY <1>1, <1>11 DEF VitureAccounted
    <2> QED BY <2>1, <2>2, <2>3 DEF VitureAccounted
<1>13. VitureDone'
    <2>1. field'["status"].value = "done" => field'["status"].number \in applied'
        BY <1>1, <1>4 DEF VitureDone, Viture!Empty, Viture!Kinds
    <2> QED BY <1>1, <1>8, <2>1 DEF VitureDone
<1>14. VitureCalibrating'
    <2>1. \A i \in DOMAIN vitureOwed' : vitureOwed'[i].kind = "calibration" => vitureOwed'[i].segment < Segments
        BY <1>3, <1>6 DEF VitureCalibrating, Viture!Kinds
    <2> QED BY <1>1, <1>8, <2>1 DEF VitureCalibrating, VitureResponse
<1>15. Viture!AnswersAreOwnOrLate'
    <2>1. abandoned \subseteq abandoned'
        BY <1>1
    <2> QED BY <1>1, <2>1 DEF Viture!AnswersAreOwnOrLate, Viture!Overtaken
<1>16. Viture!CalibrationIsWhole'
    BY <1>1 DEF Viture!CalibrationIsWhole
<1>17. Viture!TrueIsAnswered'
    <2>1. viturePhase' = "idle" => vitureResult' = FALSE
        BY <1>1
    <2> QED BY <2>1 DEF Viture!TrueIsAnswered
<1> QED BY <1>6, <1>9, <1>10, <1>12, <1>13, <1>14, <1>15, <1>16, <1>17

\* A request for the mode or the display is sent, or fails to be.
LEMMA VitureAsksKeep ==
    ASSUME Viture!VitureAssumption, VitureIInv,
           Viture!QueryNativeMode \/ Viture!QueryDisplay \/ Viture!SetDisplay
    PROVE  VitureIInv'
<1>1. native \in BOOLEAN
    BY DEF VitureIInv, VitureTypes
<1>2. CASE Viture!QueryNativeMode
    <2>1. PICK next \in {"setNative", "queryNative"} : Viture!Send("native", "null", next)
        BY <1>2 DEF Viture!QueryNativeMode
    <2>2. Viture!Cleared("native") /\ viturePhase = "idle"
        BY <1>2 DEF Viture!QueryNativeMode
    <2>3. Viture!Awaited = "none" /\ viturePhase \notin {"calibrate", "awaitSegment"}
        BY <2>2 DEF Viture!Awaited
    <2>4. "native" \in Viture!Kinds /\ "null" \in VitureModes
        BY DEF Viture!Kinds, VitureModes
    <2> QED BY <2>1, <2>2, <2>3, <2>4, VitureSendKeeps
<1>3. CASE Viture!QueryDisplay
    <2>1. Viture!Send("display", "null", "awaitDisplay") /\ Viture!Cleared("display") /\ viturePhase = "queryDisplay"
        BY <1>3 DEF Viture!QueryDisplay
    <2>2. Viture!Awaited = "none" /\ viturePhase \notin {"calibrate", "awaitSegment"}
        BY <2>1 DEF Viture!Awaited
    <2>3. "display" \in Viture!Kinds /\ "null" \in VitureModes
        BY DEF Viture!Kinds, VitureModes
    <2> QED BY <2>1, <2>2, <2>3, VitureSendKeeps
<1>4. CASE Viture!SetDisplay
    <2>1. PICK value \in {"2d", Viture!Threed(native)} : Viture!Send("status", value, "awaitStatus")
        BY <1>4 DEF Viture!SetDisplay
    <2>2. Viture!Cleared("status") /\ viturePhase = "setDisplay"
        BY <1>4 DEF Viture!SetDisplay
    <2>3. Viture!Awaited = "none" /\ viturePhase \notin {"calibrate", "awaitSegment"}
        BY <2>2 DEF Viture!Awaited
    <2>4. "status" \in Viture!Kinds /\ value \in VitureModes
        BY <1>1 DEF Viture!Kinds, VitureModes, Viture!Threed
    <2> QED BY <2>1, <2>2, <2>3, <2>4, VitureSendKeeps
<1> QED BY <1>2, <1>3, <1>4

\* handlePacket() puts an answer into its field.
LEMMA VitureHandlePacketKeeps ==
    ASSUME Viture!VitureAssumption, VitureIInv, Viture!HandlePacket
    PROVE  VitureIInv'
<1> USE DEF VitureIInv
<1> DEFINE heard == Head(answers)
<1>1. /\ UNCHANGED <<imuEnabled, viturePhase, native, request, answersTaken, abandoned, vitureResult,
                     packet, assembled, calibration, vitureOwed, stripped, calibrations, vitureDisplay, applied, requests>>
      /\ viturePhase \notin {"calibrate", "awaitSegment"}
      /\ answers # <<>> /\ answers' = Tail(answers)
      /\ field' = IF heard.kind \in Viture!Kinds
                  THEN [field EXCEPT ![heard.kind] = [number |-> heard.number, value |-> heard.value]]
                  ELSE field
    BY DEF Viture!HandlePacket, Viture!callerVars, Viture!calibrationVars, Viture!glassesVars
<1>2. /\ field \in [Viture!Kinds -> [number : Nat, value : VitureValues]]
      /\ answers \in Seq(VitureAnswered)
    BY DEF VitureTypes
<1>3. heard = answers[1] /\ heard \in VitureAnswered /\ 1 \in DOMAIN answers
    BY <1>1, <1>2, VitureFirst
<1>4. heard.kind \in Viture!Kinds => heard.number \in Nat /\ heard.value \in VitureValues
    BY <1>3 DEF VitureAnswered, Viture!Kinds
<1> HIDE DEF heard
<1>5. \A k \in Viture!Kinds :
         \/ field'[k] = field[k]
         \/ k = heard.kind /\ field'[k].number = heard.number /\ field'[k].value = heard.value
    BY <1>1, <1>2
<1>6. field' \in [Viture!Kinds -> [number : Nat, value : VitureValues]]
    BY <1>1, <1>2, <1>4
<1>7. /\ VitureOrdered' /\ answers' \in Seq(VitureAnswered)
      /\ \A i \in DOMAIN answers' : i \in Nat /\ i + 1 \in DOMAIN answers /\ answers'[i] = answers[i + 1] /\ 1 < i + 1
    BY <1>1, <1>5, VitureReads DEF heard
<1>8. VitureTypes'
    BY <1>1, <1>6, <1>7 DEF VitureTypes, Viture!TypeOK
<1>9. VitureWaiting'
    <2>1. Viture!Awaited' = Viture!Awaited /\ Viture!Awaited \in Viture!Kinds \cup {"none"}
        BY <1>1 DEF Viture!Awaited, Viture!Kinds
    <2>2. ASSUME Viture!Awaited # "none", field'[Viture!Awaited] # Viture!Empty, NEW i \in DOMAIN answersTaken
          PROVE  answersTaken[i].answer < field'[Viture!Awaited].number
        <3>1. CASE field'[Viture!Awaited] = field[Viture!Awaited]
            BY <2>2, <3>1 DEF VitureWaiting
        <3>2. CASE field'[Viture!Awaited].number = heard.number
            BY <1>3, <3>2 DEF VitureOrdered
        <3> QED BY <1>5, <2>1, <2>2, <3>1, <3>2
    <2> QED BY <1>1, <2>1, <2>2 DEF VitureWaiting
<1>10. VitureAccounted'
    <2>1. VitureKnown' = VitureKnown
        BY <1>1 DEF VitureKnown, Viture!Awaited
    <2>2. \A k \in Viture!Kinds : field'[k] # Viture!Empty => field'[k].number \in VitureKnown
        BY <1>3, <1>5 DEF VitureAccounted
    <2> QED BY <1>1, <1>7, <2>1, <2>2 DEF VitureAccounted
<1>11. VitureDone'
    <2>1. field'["status"].value = "done" => field'["status"].number \in applied
        BY <1>3, <1>5 DEF VitureDone, Viture!Kinds
    <2> QED BY <1>1, <1>7, <2>1 DEF VitureDone
<1>12. VitureCalibrating'
    BY <1>1, <1>7 DEF VitureCalibrating, VitureResponse
<1>13. Viture!AnswersAreOwnOrLate' /\ Viture!TrueIsAnswered' /\ Viture!CalibrationIsWhole'
    BY <1>1 DEF Viture!AnswersAreOwnOrLate, Viture!Overtaken, Viture!TrueIsAnswered, Viture!CalibrationIsWhole
<1> QED BY <1>7, <1>8, <1>9, <1>10, <1>11, <1>12, <1>13

\* awaitResponse() has an answer: that of the request, or, when an earlier one was given
\* up or has been answered by another, a late one.
LEMMA VitureAnswerSeenKeeps ==
    ASSUME Viture!VitureAssumption, VitureIInv, Viture!AnswerSeen
    PROVE  VitureIInv'
<1> USE DEF VitureIInv
<1> DEFINE topic == Viture!Awaited
           heard == field[topic]
           new == [answer |-> heard.number, request |-> request.number]
           n == Len(answersTaken) + 1
<1>1. /\ UNCHANGED <<imuEnabled, request, abandoned, packet, assembled, calibration, field, vitureOwed, answers,
                     nativeMode, vitureDisplay, stripped, calibrations, applied, requests>>
      /\ topic # "none" /\ heard # Viture!Empty /\ answersTaken' = Append(answersTaken, new)
      /\ native' = IF topic = "native" THEN heard.value = "native" ELSE native
      /\ CASE viturePhase = "setNative" -> viturePhase' = "setDisplay" /\ UNCHANGED vitureResult
           [] viturePhase = "queryNative" -> viturePhase' = "queryDisplay" /\ UNCHANGED vitureResult
           [] viturePhase = "awaitDisplay" -> Viture!Return(heard.value \in {"2d", Viture!Threed(native)})
           [] OTHER -> Viture!Return(heard.value = "done")
    BY DEF Viture!AnswerSeen, Viture!calibrationVars, Viture!glassesVars
<1>2. /\ topic \in Viture!Kinds /\ viturePhase \in {"setNative", "queryNative", "awaitDisplay", "awaitStatus"}
      /\ viturePhase = "awaitStatus" <=> topic = "status"
    BY <1>1 DEF Viture!Awaited, Viture!Kinds
<1> HIDE DEF topic
<1>3. /\ viturePhase' \in {"idle", "setDisplay", "queryDisplay"} /\ vitureResult' \in BOOLEAN
      /\ viturePhase' = "idle" /\ topic = "status" => vitureResult' = (heard.value = "done")
    <2>1. vitureResult \in BOOLEAN
        BY DEF VitureTypes, Viture!TypeOK
    <2>2. (heard.value = "done") \in BOOLEAN /\ (heard.value \in {"2d", Viture!Threed(native)}) \in BOOLEAN
        OBVIOUS
    <2> HIDE DEF heard
    <2>3. CASE viturePhase = "setNative" \/ viturePhase = "queryNative"
        <3>1. viturePhase' \in {"setDisplay", "queryDisplay"} /\ UNCHANGED vitureResult
            BY <1>1, <2>3
        <3> QED BY <2>1, <3>1
    <2>4. CASE viturePhase = "awaitDisplay"
        <3>1. viturePhase' = "idle" /\ vitureResult' = (heard.value \in {"2d", Viture!Threed(native)}) /\ topic # "status"
            BY <1>1, <1>2, <2>4 DEF Viture!Return
        <3> QED BY <2>2, <3>1
    <2>5. CASE viturePhase = "awaitStatus"
        <3>1. viturePhase' = "idle" /\ vitureResult' = (heard.value = "done")
            BY <1>1, <2>5 DEF Viture!Return
        <3> QED BY <2>2, <3>1
    <2> QED BY <1>2, <2>3, <2>4, <2>5
<1>4. Viture!Awaited' = "none"
    BY <1>3 DEF Viture!Awaited
<1>5. /\ answersTaken \in Seq([answer : Nat, request : Nat]) /\ request.number \in Nat
      /\ field \in [Viture!Kinds -> [number : Nat, value : VitureValues]]
      /\ native \in BOOLEAN /\ requests \in Nat
    BY DEF VitureTypes
<1>6. heard.number \in Nat /\ new \in [answer : Nat, request : Nat]
    BY <1>2, <1>5
<1>7. /\ request.number = requests /\ request.kind = topic
      /\ \A i \in DOMAIN answersTaken : answersTaken[i].answer < heard.number
    BY <1>1 DEF VitureWaiting, topic
<1>8. /\ heard.number \in 1..requests /\ heard.number \in VitureKnown
      /\ \A i \in DOMAIN vitureOwed : heard.number < vitureOwed[i].number
      /\ \A i \in DOMAIN answers : heard.number < answers[i].number
    BY <1>1, <1>2 DEF VitureOrdered, VitureAccounted
<1>9. new.answer = heard.number /\ new.request = request.number
    OBVIOUS
<1> HIDE DEF heard, new
<1>10. /\ answersTaken' \in Seq([answer : Nat, request : Nat]) /\ n \in Nat
       /\ DOMAIN answersTaken = 1..Len(answersTaken) /\ DOMAIN answersTaken' = 1..n
       /\ \A i \in DOMAIN answersTaken' :
             \/ i \in DOMAIN answersTaken /\ answersTaken'[i] = answersTaken[i] /\ i < n
             \/ i = n /\ answersTaken'[i] = new
       /\ \A i \in DOMAIN answersTaken : i \in DOMAIN answersTaken' /\ answersTaken'[i] = answersTaken[i]
       /\ n \in DOMAIN answersTaken' /\ answersTaken'[n] = new /\ Len(answersTaken') = n
    BY <1>1, <1>5, <1>6, VitureAdded
<1> HIDE DEF n
<1>11. VitureTypes'
    <2>1. native' \in BOOLEAN
        BY <1>1, <1>5
    <2>2. Viture!TypeOK'
        BY <1>1, <1>3 DEF VitureTypes, Viture!TypeOK
    <2> QED BY <1>1, <1>10, <2>1, <2>2 DEF VitureTypes
<1>12. VitureOrdered'
    <2>1. \A i \in DOMAIN answersTaken' : answersTaken'[i].answer \in 1..requests
        BY <1>8, <1>9, <1>10 DEF VitureOrdered
    <2>2. \A i \in DOMAIN vitureOwed, j \in DOMAIN answersTaken' : answersTaken'[j].answer < vitureOwed[i].number
        BY <1>8, <1>9, <1>10 DEF VitureOrdered
    <2>3. \A i \in DOMAIN answers, j \in DOMAIN answersTaken' : answersTaken'[j].answer < answers[i].number
        BY <1>8, <1>9, <1>10 DEF VitureOrdered
    <2> QED BY <1>1, <2>1, <2>2, <2>3 DEF VitureOrdered
<1>13. VitureWaiting'
    BY <1>4 DEF VitureWaiting
<1>14. VitureAccounted'
    <2>1. VitureKnown \subseteq VitureKnown'
        <3>1. \A i \in DOMAIN answersTaken : \E j \in DOMAIN answersTaken' : answersTaken'[j].request = answersTaken[i].request
            BY <1>10
        <3>2. \E j \in DOMAIN answersTaken' : answersTaken'[j].request = request.number
            BY <1>9, <1>10
        <3> QED BY <1>1, <3>1, <3>2 DEF VitureKnown
    <2> QED BY <1>1, <2>1 DEF VitureAccounted
<1>15. VitureDone'
    BY <1>1, <1>3 DEF VitureDone
<1>16. VitureCalibrating'
    <2>1. viturePhase' \notin {"calibrate", "awaitSegment"}
        BY <1>3
    <2> QED BY <1>1, <2>1 DEF VitureCalibrating, VitureResponse
<1>17. Viture!CalibrationIsWhole'
    BY <1>1 DEF Viture!CalibrationIsWhole
<1>18. Viture!AnswersAreOwnOrLate'
    <2>1. Viture!Overtaken \subseteq Viture!Overtaken'
        <3>1. ASSUME NEW i \in DOMAIN answersTaken, answersTaken[i].answer # answersTaken[i].request
              PROVE  answersTaken[i].request \in Viture!Overtaken'
            BY <1>10, <3>1 DEF Viture!Overtaken
        <3> QED BY <3>1 DEF Viture!Overtaken
    <2>2. \/ heard.number = request.number
          \/ heard.number < request.number /\ heard.number \in abandoned \cup Viture!Overtaken
        <3>1. CASE heard.number = request.number
            BY <3>1
        <3>2. CASE heard.number # request.number
            <4>1. heard.number < request.number
                BY <1>5, <1>7, <1>8, <3>2
            <4>2. heard.number \in abandoned \/ \E i \in DOMAIN answersTaken : answersTaken[i].request = heard.number
                BY <1>8, <3>2 DEF VitureKnown
            <4>3. ASSUME NEW i \in DOMAIN answersTaken, answersTaken[i].request = heard.number
                  PROVE  heard.number \in Viture!Overtaken
                <5>1. answersTaken[i].answer < heard.number /\ answersTaken[i].answer \in Nat
                    <6>1. answersTaken[i] \in [answer : Nat, request : Nat]
                        BY <1>5, VitureElement
                    <6> QED BY <1>7, <4>3, <6>1
                <5>2. answersTaken[i].answer # answersTaken[i].request
                    BY <1>6, <4>3, <5>1
                <5> QED BY <4>3, <5>2 DEF Viture!Overtaken
            <4> QED BY <4>1, <4>2, <4>3
        <3> QED BY <3>1, <3>2
    <2>3. ASSUME NEW i \in DOMAIN answersTaken'
          PROVE  /\ \/ answersTaken'[i].answer = answersTaken'[i].request
                    \/ /\ answersTaken'[i].answer < answersTaken'[i].request
                       /\ answersTaken'[i].answer \in abandoned \cup Viture!Overtaken'
                 /\ \A j \in 1..(i - 1) : answersTaken'[j].answer < answersTaken'[i].answer
        <3>1. CASE i \in DOMAIN answersTaken /\ answersTaken'[i] = answersTaken[i] /\ i < n
            <4>1. \A j \in 1..(i - 1) : j \in DOMAIN answersTaken /\ answersTaken'[j] = answersTaken[j]
                <5>1. Len(answersTaken) \in Nat /\ i \in 1..Len(answersTaken)
                    BY <1>5, <1>10, <3>1
                <5>2. \A j \in 1..(i - 1) : j \in 1..Len(answersTaken)
                    BY <5>1
                <5> QED BY <1>10, <5>2
            <4>2. /\ \/ answersTaken[i].answer = answersTaken[i].request
                     \/ /\ answersTaken[i].answer < answersTaken[i].request
                        /\ answersTaken[i].answer \in abandoned \cup Viture!Overtaken
                  /\ \A j \in 1..(i - 1) : answersTaken[j].answer < answersTaken[i].answer
                BY <3>1 DEF Viture!AnswersAreOwnOrLate
            <4> QED BY <2>1, <3>1, <4>1, <4>2
        <3>2. CASE i = n /\ answersTaken'[i] = new
            <4>1. \A j \in 1..(i - 1) : j \in DOMAIN answersTaken /\ answersTaken'[j] = answersTaken[j]
                <5>1. Len(answersTaken) \in Nat /\ i = Len(answersTaken) + 1
                    BY <1>5, <3>2 DEF n
                <5>2. \A j \in 1..(i - 1) : j \in 1..Len(answersTaken)
                    BY <5>1
                <5> QED BY <1>10, <5>2
            <4> QED BY <1>7, <1>9, <2>1, <2>2, <3>2, <4>1
        <3> QED BY <1>10, <2>3, <3>1, <3>2
    <2> QED BY <1>1, <2>3 DEF Viture!AnswersAreOwnOrLate
<1>19. Viture!TrueIsAnswered'
    <2>1. Viture!Last(answersTaken') = new
        BY <1>10 DEF Viture!Last
    <2>2. ASSUME viturePhase' = "idle", vitureResult', topic = "status" PROVE heard.number \in applied
        <3>1. heard.value = "done"
            BY <1>3, <2>2
        <3> QED BY <2>2, <3>1 DEF VitureDone, heard
    <2> QED BY <1>1, <1>7, <1>9, <2>1, <2>2 DEF Viture!TrueIsAnswered
<1> QED BY <1>11, <1>12, <1>13, <1>14, <1>15, <1>16, <1>17, <1>18, <1>19

\* Initially.
LEMMA VitureInitial ==
    ASSUME Viture!VitureAssumption, Viture!Init
    PROVE  VitureIInv
<1> USE DEF Viture!Init
<1>1. /\ requests = 0 /\ vitureOwed = <<>> /\ answers = <<>> /\ answersTaken = <<>> /\ abandoned = {} /\ applied = {}
      /\ vitureResult = FALSE /\ viturePhase \in {"calibrate", "idle"} /\ native = FALSE /\ stripped \in BOOLEAN
      /\ field = [k \in Viture!Kinds |-> Viture!Empty] /\ request = Viture!NoRequest /\ vitureDisplay = "2d"
      /\ packet = 1 /\ calibrations = 0 /\ assembled = Viture!NoSegments /\ calibration = [p \in 1..2 |-> <<>>]
    OBVIOUS
<1> USE Viture!VitureAssumption
<1> HIDE DEF Viture!Init
<1>2. <<>> \in Seq(VitureAsked) /\ <<>> \in Seq(VitureAnswered) /\ <<>> \in Seq([answer : Nat, request : Nat]) /\ <<>> \in Seq(Nat)
    OBVIOUS
<1>3. DOMAIN vitureOwed = {} /\ DOMAIN answers = {} /\ DOMAIN answersTaken = {}
    BY <1>1
<1>4. Viture!Awaited = "none"
    BY <1>1 DEF Viture!Awaited
<1>5. VitureTypes
    <2>1. Viture!TypeOK
        <3>1. /\ requests \in 0..MaxRequests /\ calibrations \in 0..MaxReadings /\ assembled.segment < Segments
              /\ packet \in 1..2
            BY <1>1 DEF Viture!VitureAssumption, Viture!NoSegments
        <3>2. abandoned \cup applied \subseteq 1..requests /\ DOMAIN field = Viture!Kinds /\ vitureResult \in BOOLEAN
            BY <1>1
        <3> QED BY <1>1, <3>1, <3>2 DEF Viture!TypeOK
    <2>2. field \in [Viture!Kinds -> [number : Nat, value : VitureValues]]
        BY <1>1 DEF Viture!Empty, VitureValues, VitureModes
    <2>3. assembled \in [segment : Nat, bytes : Seq(Nat), sequence : Nat, total : Nat]
        BY <1>1, <1>2 DEF Viture!NoSegments
    <2>4. calibration \in [1..2 -> Seq(Nat)]
        BY <1>1, <1>2
    <2>5. vitureDisplay \in VitureModes /\ {native, stripped} \subseteq BOOLEAN /\ requests \in Nat /\ request.number \in Nat
        BY <1>1 DEF VitureModes, Viture!NoRequest
    <2> QED BY <1>1, <1>2, <2>1, <2>2, <2>3, <2>4, <2>5 DEF VitureTypes
<1>6. VitureOrdered
    BY <1>1, <1>3 DEF VitureOrdered
<1>7. VitureWaiting /\ VitureAccounted
    BY <1>1, <1>3, <1>4 DEF VitureWaiting, VitureAccounted
<1>8. VitureDone
    BY <1>1, <1>3 DEF VitureDone, Viture!Kinds, Viture!Empty
<1>9. VitureCalibrating
    BY <1>1, <1>3 DEF VitureCalibrating, Viture!NoSegments
<1>10. Viture!AnswersAreOwnOrLate /\ Viture!TrueIsAnswered
    BY <1>1, <1>3 DEF Viture!AnswersAreOwnOrLate, Viture!TrueIsAnswered
<1>11. Viture!CalibrationIsWhole
    BY <1>1 DEF Viture!CalibrationIsWhole
<1> QED BY <1>5, <1>6, <1>7, <1>8, <1>9, <1>10, <1>11 DEF VitureIInv

\* A step of another part leaves these glasses alone.
LEMMA VitureStutters ==
    ASSUME VitureIInv, UNCHANGED Viture!vars
    PROVE  VitureIInv'
<1> USE DEF VitureIInv
<1>1. UNCHANGED <<imuEnabled, viturePhase, native, field, request, packet, assembled, calibration, vitureOwed, answers,
                  nativeMode, vitureDisplay, stripped, calibrations, requests, abandoned, applied, answersTaken, vitureResult>>
    BY DEF Viture!vars, Viture!callerVars, Viture!calibrationVars, Viture!glassesVars
<1>2. VitureTypes' /\ VitureOrdered'
    BY <1>1 DEF VitureTypes, Viture!TypeOK, VitureOrdered
<1>3. VitureWaiting' /\ VitureAccounted'
    BY <1>1 DEF VitureWaiting, VitureAccounted, VitureKnown, Viture!Awaited
<1>4. VitureDone' /\ VitureCalibrating'
    BY <1>1 DEF VitureDone, VitureCalibrating, VitureResponse
<1>5. Viture!AnswersAreOwnOrLate' /\ Viture!TrueIsAnswered' /\ Viture!CalibrationIsWhole'
    BY <1>1 DEF Viture!AnswersAreOwnOrLate, Viture!Overtaken, Viture!TrueIsAnswered, Viture!CalibrationIsWhole
<1> QED BY <1>2, <1>3, <1>4, <1>5

\* Every step of these glasses keeps their invariant.
LEMMA VitureStep ==
    ASSUME Viture!VitureAssumption, VitureIInv, Viture!Next
    PROVE  VitureIInv'
<1>1. CASE Viture!Serve
    BY <1>1, VitureServeKeeps
<1>2. CASE Viture!ChangeMode
    BY <1>2, VitureChangeModeKeeps
<1>3. CASE Viture!NewReading
    BY <1>3, VitureNewReadingKeeps
<1>4. CASE Viture!SendSegmentRequest
    BY <1>4, VitureSendSegmentRequestKeeps
<1>5. CASE Viture!SegmentRead
    BY <1>5, VitureSegmentReadKeeps
<1>6. CASE Viture!SegmentTimesOut
    BY <1>6, VitureSegmentTimesOutKeeps
<1>7. CASE Viture!QueryNativeMode \/ Viture!QueryDisplay \/ Viture!SetDisplay
    BY <1>7, VitureAsksKeep
<1>8. CASE Viture!AnswerSeen
    BY <1>8, VitureAnswerSeenKeeps
<1>9. CASE Viture!TimesOut
    BY <1>9, VitureTimesOutKeeps
<1>10. CASE Viture!HandlePacket
    BY <1>10, VitureHandlePacketKeeps
<1> QED BY <1>1, <1>2, <1>3, <1>4, <1>5, <1>6, <1>7, <1>8, <1>9, <1>10 DEF Viture!Next

\* The invariant says more than VitureInv.
LEMMA VitureImplies ==
    VitureIInv => Viture!VitureInv
BY DEF VitureIInv, VitureTypes, Viture!VitureInv

-----------------------------------------------------------------------------
\* XrealEye: the frames found on the video connection are those that were sent, in order
\* and none missing but for a read that ended in the middle of one; an open session has a
\* camera that was started, and one that is not open has no sockets.
THEOREM TransportsEyeInv == TransportsSpec => []EyeInv
<1> DEFINE IInv == part = "eye" => EyeIInv
<1>1. TransportsInit => IInv
    BY TransportsAssumption, EyeInitial DEF TransportsInit
<1>2. IInv /\ [TransportsNext]_transportsVars => IInv'
    BY TransportsAssumption, TransportsStep, EyeStep, EyeStutters
<1>3. IInv => EyeInv
    BY EyeImplies DEF EyeInv
<1> QED BY <1>1, <1>2, <1>3, PTL DEF TransportsSpec

\* VitureBeast: what a session makes of the glasses' answers, which do not name what they
\* answer: none is taken twice, one is another request's only when it is late, a command
\* that returns true has set the display, and a calibration that was read is whole.
THEOREM TransportsVitureInv == TransportsSpec => []VitureInv
<1> DEFINE IInv == part = "viture" => VitureIInv
<1>1. TransportsInit => IInv
    BY TransportsAssumption, VitureInitial DEF TransportsInit
<1>2. IInv /\ [TransportsNext]_transportsVars => IInv'
    BY TransportsAssumption, TransportsStep, VitureStep, VitureStutters
<1>3. IInv => VitureInv
    BY VitureImplies DEF VitureInv
<1> QED BY <1>1, <1>2, <1>3, PTL DEF TransportsSpec

=============================================================================
