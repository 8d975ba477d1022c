----------------------------- MODULE XrealOneImu -----------------------------
(***************************************************************************)
(* The IMU of an XREAL One over TCP: the reader thread of                  *)
(* XrealOneFamilySession, the native client it owns                        *)
(* (XrealOneTcpImuSession, xreal_one_imu_jni.cpp), which finds frames in   *)
(* the byte stream, and close().                                           *)
(*                                                                         *)
(* A chunk is cut from the stream anywhere.  Bytes are numbers, a frame is *)
(* a header and a payload, and what decode_frame() makes of a payload is   *)
(* given by sets of payloads.  A recv() interrupted by a signal is called  *)
(* again and is no step here.  Of the session's messages only the one that *)
(* reports the reader's end is kept.                                       *)
(***************************************************************************)
EXTENDS Naturals, FiniteSets, SequencesExt

CONSTANTS
    Bytes,          \* the values of a byte
    Header,         \* kHeader
    FrameSize,      \* kFrameSize
    Plausible,      \* the payloads whose vectors are finite and of a sane size
    Fresh,          \* the payloads whose data mask announces the magnetometer
    FiniteMagnetic, \* the payloads whose magnetic vector is finite
    MaxBytes,       \* bound on the length of the stream
    MaxChunk,       \* bound on what one recv() returns (4096 in the code)
    NoSample        \* no sample is under way

PayloadSize == FrameSize - Len(Header)
Payloads == [1..PayloadSize -> Bytes]

\* 28 36 00 00 00 80 has no proper prefix that is its suffix.
XrealOneImuAssumption ==
    /\ Header \in Seq(Bytes) /\ Len(Header) > 0
    /\ \A n \in 1..(Len(Header) - 1) :
         SubSeq(Header, 1, n) # SubSeq(Header, Len(Header) - n + 1, Len(Header))
    /\ FrameSize \in Nat /\ FrameSize > Len(Header)
    /\ Plausible \subseteq Payloads /\ Fresh \subseteq Payloads
    /\ FiniteMagnetic \subseteq Payloads
    /\ MaxBytes \in Nat /\ MaxChunk \in Nat

VARIABLES
    running,    \* running
    imu,        \* where the thread xreal-one-s-tcp-imu is
    fd,         \* who owns the socket: nobody yet, a ScopedFd, the native session
    pending,    \* pending_
    sample,     \* the sample it has decoded and not posted
    samples,    \* what the listener has been given
    reported,   \* the listener was told that the reader failed
    closer,     \* where close() is
    stream,     \* every byte received (history)
    late        \* samples posted after close() had returned (history)

vars == <<running, imu, fd, pending, sample, samples, reported, closer, stream, late>>
parserVars == <<pending, sample, samples, stream, late>>

ImuPcs == {"create", "connect", "loop", "parse", "recv", "post", "free", "done"}

Init ==
    /\ running = TRUE /\ imu = "create" /\ fd = "none"
    /\ pending = <<>> /\ sample = NoSample /\ samples = <<>>
    /\ reported = FALSE /\ closer = "open"
    /\ stream = <<>> /\ late = 0

-----------------------------------------------------------------------------
(* decode_frame(), to_sample_array() and decodeNativeImu(): the magnetic   *)
(* vector is NaN on the way to Java, and null there, unless the frame      *)
(* announces it and all of it is finite; that it was announced is told     *)
(* apart from it.                                                          *)
Payload(frame) == SubSeq(frame, Len(Header) + 1, FrameSize)
IsPlausible(frame) == Payload(frame) \in Plausible
SampleOf(frame) ==
    [raw |-> frame,
     magnetic |-> Payload(frame) \in Fresh \cap FiniteMagnetic,
     magneticFieldFresh |-> Payload(frame) \in Fresh]

HeaderAt(bytes, p) == SubSeq(bytes, p, p + Len(Header) - 1) = Header
Headers(bytes) == {p \in 1..(Len(bytes) - Len(Header) + 1) : HeaderAt(bytes, p)}

\* The iterators of std::search and erase: pending_ from the first header on.
FromHeader(bytes) ==
    LET first == CHOOSE p \in Headers(bytes) : \A q \in Headers(bytes) : p <= q
    IN SubSeq(bytes, first, Len(bytes))

Drop(bytes, n) == SubSeq(bytes, n + 1, Len(bytes))
LastOf(bytes, n) == IF Len(bytes) > n THEN Drop(bytes, Len(bytes) - n) ELSE bytes

(***************************************************************************)
(* One turn of the loop of try_parse() per action, called from next().     *)
(***************************************************************************)
\* Mutant of NoHeader: what does not hold a header is of no use.
NoHeaderForgets ==
    /\ imu = "parse" /\ Headers(pending) = {}
    /\ pending' = <<>>
    /\ imu' = "recv"
    /\ UNCHANGED <<running, fd, sample, samples, reported, closer, stream, late>>

\* A header may begin in the last bytes.
NoHeader ==
    /\ imu = "parse" /\ Headers(pending) = {}
    /\ pending' = LastOf(pending, Len(Header) - 1)
    /\ imu' = "recv"
    /\ UNCHANGED <<running, fd, sample, samples, reported, closer, stream, late>>

PartOfFrame ==
    /\ imu = "parse" /\ Headers(pending) # {}
    /\ pending' = FromHeader(pending)
    /\ Len(pending') < FrameSize
    /\ imu' = "recv"
    /\ UNCHANGED <<running, fd, sample, samples, reported, closer, stream, late>>

\* Only the header of a bad frame is dropped: it may have been no header.
BadFrame ==
    /\ imu = "parse" /\ Headers(pending) # {}
    /\ LET bytes == FromHeader(pending) IN
         /\ Len(bytes) >= FrameSize
         /\ ~IsPlausible(SubSeq(bytes, 1, FrameSize))
         /\ pending' = Drop(bytes, Len(Header))
    /\ UNCHANGED <<running, imu, fd, sample, samples, reported, closer, stream, late>>

GoodFrame ==
    /\ imu = "parse" /\ Headers(pending) # {}
    /\ LET bytes == FromHeader(pending) IN
         /\ Len(bytes) >= FrameSize
         /\ IsPlausible(SubSeq(bytes, 1, FrameSize))
         /\ pending' = Drop(bytes, FrameSize)
         /\ sample' = SampleOf(SubSeq(bytes, 1, FrameSize))
    /\ imu' = "post"
    /\ UNCHANGED <<running, fd, samples, reported, closer, stream, late>>

-----------------------------------------------------------------------------
(* recv() in next(): a chunk, the read timeout, or the connection's end,   *)
(* which next() throws.  Bytes that never make a frame keep the thread in  *)
(* next(), where running is not read.                                      *)
Receive ==
    /\ imu = "recv"
    /\ \E n \in 1..MaxChunk : \E chunk \in [1..n -> Bytes] :
         /\ Len(stream) + n <= MaxBytes
         /\ pending' = pending \o chunk
         /\ stream' = stream \o chunk
    /\ imu' = "parse"
    /\ UNCHANGED <<running, fd, sample, samples, reported, closer, late>>

ReadTimesOut ==
    /\ imu = "recv"
    /\ imu' = "loop"
    /\ UNCHANGED <<running, fd, reported, closer, parserVars>>

\* The catch clause of readEthernetImu() is silent once close() was called.
Fail(where) ==
    /\ imu' = where
    /\ reported' = (reported \/ running)

ConnectionEnds ==
    /\ imu = "recv"
    /\ Fail("free")
    /\ UNCHANGED <<running, fd, closer, parserVars>>

-----------------------------------------------------------------------------
(* The constructor of XrealOneTcpImuSession: whatever fails after socket() *)
(* leaves through the destructor of the ScopedFd.                          *)
OpenSocket ==
    /\ imu = "create"
    /\ imu' = "connect" /\ fd' = "scoped"
    /\ UNCHANGED <<running, reported, closer, parserVars>>

NoSocket ==
    /\ imu = "create"
    /\ Fail("done")
    /\ UNCHANGED <<running, fd, closer, parserVars>>

Connect ==
    /\ imu = "connect"
    /\ imu' = "loop" /\ fd' = "owned"
    /\ UNCHANGED <<running, reported, closer, parserVars>>

NotConnected ==
    /\ imu = "connect"
    /\ fd' = "closed"
    /\ Fail("done")
    /\ UNCHANGED <<running, closer, parserVars>>

-----------------------------------------------------------------------------
(* The loop of readEthernetImu().                                          *)
Loop ==
    /\ imu = "loop"
    /\ imu' = IF running THEN "parse" ELSE "free"
    /\ UNCHANGED <<running, fd, reported, closer, parserVars>>

\* The listener may call close() from onImuSample, on this thread if the
\* executor runs in place: then nothing is joined.
Post ==
    /\ imu = "post"
    /\ samples' = Append(samples, sample) /\ sample' = NoSample
    /\ late' = IF closer = "closed" THEN late + 1 ELSE late
    /\ imu' = "loop"
    /\ \/ UNCHANGED <<running, closer>>
       \/ closer = "open" /\ closer' = "closed" /\ running' = FALSE
    /\ UNCHANGED <<fd, pending, reported, stream>>

\* closeXrealOneTcpImuSession() in the finally clause.
Free ==
    /\ imu = "free"
    /\ fd' = "closed" /\ pending' = <<>>
    /\ imu' = "done"
    /\ UNCHANGED <<running, sample, samples, reported, closer, stream, late>>

(***************************************************************************)
(* close(): the thread is given 1.2 s, which the 2 s of a connect outlast, *)
(* and bytes without a frame outlast as well.                              *)
(***************************************************************************)
Close ==
    /\ closer = "open"
    /\ closer' = "join" /\ running' = FALSE
    /\ UNCHANGED <<imu, fd, reported, parserVars>>

CloseReturns ==
    /\ closer = "join"
    /\ closer' = "closed"
    /\ UNCHANGED <<running, imu, fd, reported, parserVars>>

Next ==
    \/ OpenSocket \/ NoSocket \/ Connect \/ NotConnected
    \/ Loop \/ Post \/ Free
    \/ NoHeader \/ PartOfFrame \/ BadFrame \/ GoodFrame
    \/ Receive \/ ReadTimesOut \/ ConnectionEnds
    \/ Close \/ CloseReturns

Spec == Init /\ [][Next]_vars

-----------------------------------------------------------------------------
(***************************************************************************)
(* What the stream holds, whatever the chunks: a frame is accepted where a *)
(* header begins a plausible frame that no earlier accepted frame covers.  *)
(***************************************************************************)
Accepted(bytes) ==
    LET takes[p \in 0..Len(bytes)] ==
          /\ HeaderAt(bytes, p)
          /\ p + FrameSize - 1 <= Len(bytes)
          /\ IsPlausible(SubSeq(bytes, p, p + FrameSize - 1))
          /\ \A q \in 1..(p - 1) : q + FrameSize > p => ~takes[q]
    IN {p \in Headers(bytes) : takes[p]}

Parsed(bytes) ==
    LET starts == SetToSortSeq(Accepted(bytes), <)
    IN [i \in DOMAIN starts |->
          SampleOf(SubSeq(bytes, starts[i], starts[i] + FrameSize - 1))]

TypeOK ==
    /\ running \in BOOLEAN /\ reported \in BOOLEAN
    /\ imu \in ImuPcs
    /\ fd \in {"none", "scoped", "owned", "closed"}
    /\ closer \in {"open", "join", "closed"}
    /\ pending \in Seq(Bytes) /\ stream \in Seq(Bytes) /\ late \in Nat

\* However the stream is cut, the listener gets the frames of the stream, in
\* order and none twice, and before the thread waits for more bytes it has
\* delivered every frame that has arrived.
EveryFrameIsDelivered ==
    LET taken == IF imu = "post" THEN Append(samples, sample) ELSE samples
        there == Parsed(stream)
    IN /\ IsPrefix(taken, there)
       /\ imu = "recv" => taken = there

\* What waits to be parsed is less than a frame when the thread waits for more.
PendingIsBounded == imu = "recv" => Len(pending) < FrameSize

\* The socket is closed when the thread has ended, and while it is read it is
\* the native session's.
SocketIsClosed ==
    /\ imu = "done" => fd \in {"none", "closed"}
    /\ imu \in {"loop", "parse", "recv", "post", "free"} => fd = "owned"

\* A thread that ends by itself tells the listener; close() is silent about it.
EndIsReported == imu = "done" => (reported \/ ~running)

\* close() may return before the thread has ended; it then posts at most the
\* sample it is reading.
AtMostOneLateSample == late <= 1

\* The reader of an XREAL One delivers the frames of its stream and nothing
\* else, keeps less than a frame, closes its socket and reports its end.
SamplesAreParsed ==
    /\ TypeOK
    /\ EveryFrameIsDelivered
    /\ PendingIsBounded
    /\ SocketIsClosed
    /\ EndIsReported
    /\ AtMostOneLateSample
=============================================================================
