------------------------------ MODULE BeastUvc ------------------------------
(***************************************************************************)
(* The VITURE Beast camera (beast_uvc_jni.cpp, BeastCamera.kt): starting   *)
(* the isochronous ring, assembling JPEG frames from its packets, handing  *)
(* them to readFrame(), and stopping.                                      *)
(*                                                                         *)
(* The camera (external) sends frames of FrameLength packets; packets and  *)
(* whole transfers can fail.  A packet is known by its frame and its part: *)
(* part 1 carries the JPEG start marker, the last part the end marker and  *)
(* the EOF flag, the frame's parity is the FID, its number the PTS.        *)
(***************************************************************************)
EXTENDS Integers, Sequences

CONSTANTS
    FrameLength,        \* packets of a frame
    MaxFrames,          \* bound on the frames the camera sends
    PacketsPerTransfer, \* kPacketsPerTransfer, 32 in the code
    Transfers,          \* kTransfers, 5 in the code
    Capacity            \* packets that fit into the 8 MiB of "assembling"

\* What the module assumes of its constants.
BeastAssumption ==
    /\ FrameLength \in Nat \ {0} /\ MaxFrames \in Nat
    /\ PacketsPerTransfer \in Nat \ {0} /\ Transfers \in Nat \ {0}
    /\ Capacity \in Nat \ {0}

QueueSize == 2
Packet == [frame: 1..MaxFrames, part: 1..FrameLength]

VARIABLES
    held,        \* what start() has acquired and not given back
    start,       \* what it does next; "running", "failed" when it has ended
    hasPts,      \* the camera stamps its packets
    sent,        \* packets the camera has sent
    running,     \* running
    inFlight,    \* transfers submitted and not called back
    event,       \* where the thread that handles events is
    left,        \* packets left in the transfer being called back
    assembling,  \* the payloads assembled so far
    fid, pts,    \* of the last packet, -1 and 0 for none
    frameError,  \* frameError
    frames,      \* the frames ready for readFrame()
    reader,      \* where readJpegFrame() is
    taken,       \* the number of the frame it returned last
    closed,      \* BeastCameraSession.closed
    stop,        \* where stop() is
    silentLoss   \* data was lost without a packet saying so (history)

startVars  == <<held, start>>
cameraVars == <<hasPts, sent>>
ringVars   == <<running, inFlight, event, left>>
frameVars  == <<assembling, fid, pts, frameError, frames>>
readVars   == <<reader, taken>>
stopVars   == <<closed, stop>>
vars == <<startVars, cameraVars, ringVars, frameVars, readVars, stopVars,
          silentLoss>>

Steps == {"context", "handle", "claim", "format", "probe", "alt", "commit", "ring"}

Init ==
    /\ held = {} /\ start = "context"
    /\ hasPts \in BOOLEAN /\ sent = 0
    /\ running = FALSE /\ inFlight = 0 /\ event = "none" /\ left = 0
    /\ assembling = <<>> /\ fid = -1 /\ pts = 0 /\ frameError = FALSE
    /\ frames = <<>>
    /\ reader = "idle" /\ taken = 0
    /\ closed = FALSE /\ stop = "none"
    /\ silentLoss = FALSE

-----------------------------------------------------------------------------
(* start() *)

Acquire(resource, next) ==
    /\ start = resource
    /\ held' = held \cup {resource}
    /\ start' = next
    /\ UNCHANGED <<cameraVars, ringVars, frameVars, readVars, stopVars, silentLoss>>

InitContext == Acquire("context", "handle")
WrapSysDevice == Acquire("handle", "claim")
ClaimInterface == Acquire("claim", "format")

\* The negotiation holds nothing.
Negotiate(step, next) ==
    /\ start = step
    /\ start' = next
    /\ UNCHANGED <<held, cameraVars, ringVars, frameVars, readVars, stopVars, silentLoss>>

FindFormat == Negotiate("format", "probe")
Probe == Negotiate("probe", "alt")
SelectAlt == Negotiate("alt", "commit")
Commit == Negotiate("commit", "ring")

\* The transfers are allocated and submitted one after the other.
SubmitOne ==
    /\ start = "ring" /\ inFlight < Transfers
    /\ held' = held \cup {"ring"}
    /\ running' = TRUE /\ inFlight' = inFlight + 1
    /\ UNCHANGED <<start, cameraVars, event, left, frameVars, readVars, stopVars,
                   silentLoss>>

\* The event thread starts and the handle is returned.
Started ==
    /\ start = "ring" /\ inFlight = Transfers
    /\ start' = "running" /\ event' = "poll"
    /\ UNCHANGED <<held, cameraVars, running, inFlight, left, frameVars, readVars,
                   stopVars, silentLoss>>

\* The labels fail_running, fail_claim and fail: what each gives back.
GivenBack(step) ==
    CASE step \in {"context", "handle", "claim"} -> {"context", "handle"}
      [] step \in {"format", "probe", "alt", "commit"} -> {"claim", "context", "handle"}
      [] OTHER -> {"ring", "claim", "context", "handle"}

\* A step fails: all is given back and an exception thrown.
StartFails ==
    /\ start \in Steps
    /\ held' = held \ GivenBack(start)
    /\ start' = "failed"
    /\ running' = FALSE /\ inFlight' = 0
    /\ UNCHANGED <<cameraVars, event, left, frameVars, readVars, stopVars, silentLoss>>

-----------------------------------------------------------------------------
(* finishFrame() and consumePayload() *)

\* The packet the camera sends next.
NextPacket == [frame |-> sent \div FrameLength + 1, part |-> (sent % FrameLength) + 1]
CanSend(n) == sent + n <= MaxFrames * FrameLength

EndMarks(data) == {i \in DOMAIN data : data[i].part = FrameLength}

\* The frame is taken only with both its markers and without an error, cut
\* behind its last end marker; the queue keeps the newest two.
Complete(data, error) ==
    /\ ~error /\ data # <<>> /\ data[1].part = 1
    /\ EndMarks(data) # {}
Trimmed(data) ==
    SubSeq(data, 1, CHOOSE i \in EndMarks(data) : \A j \in EndMarks(data) : j <= i)
Room == IF Len(frames) >= QueueSize THEN Tail(frames) ELSE frames

FinishFrame(data, error) ==
    /\ frames' = IF Complete(data, error) THEN Append(Room, Trimmed(data)) ELSE frames
    /\ assembling' = <<>> /\ frameError' = FALSE

\* Mutant of Boundary: the time stamp is not compared.
BoundaryByFid(p) == fid >= 0 /\ p.frame % 2 # fid

\* A packet of another frame than the last one.
Boundary(p) ==
    \/ fid >= 0 /\ p.frame % 2 # fid
    \/ hasPts /\ pts # 0 /\ p.frame # pts

\* A good packet: a boundary without EOF drops what was assembled, the payload
\* is appended if it fits, EOF ends the frame.
ConsumePayload(p) ==
    LET kept  == IF Boundary(p) THEN <<>> ELSE assembling
        error == frameError /\ ~Boundary(p)
        data  == IF Len(kept) < Capacity THEN Append(kept, p) ELSE kept
    IN  /\ fid' = p.frame % 2
        /\ pts' = IF hasPts THEN p.frame ELSE pts
        /\ IF p.part = FrameLength
           THEN FinishFrame(data, error)
           ELSE assembling' = data /\ frameError' = error /\ UNCHANGED frames

-----------------------------------------------------------------------------
(* isoCallback(), on the thread that handles events *)

CallbackRest == UNCHANGED <<startVars, hasPts, running, readVars, stopVars>>

Took(n) == sent' = sent + n /\ left' = left - 1 /\ UNCHANGED <<inFlight, event>>

\* A transfer completes with its packets ...
TransferCompletes ==
    /\ event = "poll" /\ inFlight > 0 /\ left = 0
    /\ inFlight' = inFlight - 1
    /\ event' = "packets" /\ left' = PacketsPerTransfer
    /\ CallbackRest /\ UNCHANGED <<sent, frameVars, silentLoss>>

\* ... or fails as a whole, and nothing says what it would have carried.
TransferFails ==
    /\ event = "poll" /\ inFlight > 0
    /\ inFlight' = inFlight - 1
    /\ event' = "resubmit"
    /\ \E n \in 0..PacketsPerTransfer :
          CanSend(n) /\ sent' = sent + n /\ silentLoss' = (silentLoss \/ n > 0)
    /\ CallbackRest /\ UNCHANGED <<left, frameVars>>

GoodPacket ==
    /\ event = "packets" /\ left > 0 /\ CanSend(1)
    /\ ConsumePayload(NextPacket)
    /\ Took(1)
    /\ CallbackRest /\ UNCHANGED silentLoss

\* The time slot of the packet was not used.
EmptyPacket ==
    /\ event = "packets" /\ left > 0
    /\ Took(0)
    /\ CallbackRest /\ UNCHANGED <<frameVars, silentLoss>>

\* The packet's own status is an error.
LostPacket ==
    /\ event = "packets" /\ left > 0 /\ CanSend(1)
    /\ frameError' = TRUE
    /\ Took(1)
    /\ CallbackRest /\ UNCHANGED <<assembling, fid, pts, frames, silentLoss>>

\* The camera set the error bit of its header.
ErrorPacket ==
    /\ event = "packets" /\ left > 0 /\ CanSend(1)
    /\ assembling' = <<>> /\ frameError' = TRUE
    /\ Took(1)
    /\ CallbackRest /\ UNCHANGED <<fid, pts, frames, silentLoss>>

\* The header makes no sense: the packet is passed over.
MalformedPacket ==
    /\ event = "packets" /\ left > 0 /\ CanSend(1)
    /\ silentLoss' = TRUE
    /\ Took(1)
    /\ CallbackRest /\ UNCHANGED frameVars

PacketsDone ==
    /\ event = "packets" /\ left = 0
    /\ event' = "resubmit"
    /\ CallbackRest /\ UNCHANGED <<sent, inFlight, left, frameVars, silentLoss>>

\* The transfer is submitted again while running; nobody looks at the result.
Resubmit ==
    /\ event = "resubmit"
    /\ \/ running /\ inFlight' = inFlight + 1
       \/ UNCHANGED inFlight
    /\ event' = "poll"
    /\ CallbackRest /\ UNCHANGED <<sent, left, frameVars, silentLoss>>

\* The event thread looks at running between two polls.
EventsEnd ==
    /\ event = "poll" /\ ~running
    /\ event' = "ended"
    /\ CallbackRest /\ UNCHANGED <<sent, inFlight, left, frameVars, silentLoss>>

-----------------------------------------------------------------------------
(* readJpegFrame() and close() *)

ReadBegins ==
    /\ start = "running" /\ reader = "idle" /\ ~closed
    /\ reader' = "inside"
    /\ UNCHANGED <<startVars, cameraVars, ringVars, frameVars, taken, stopVars, silentLoss>>

\* readFrame() returns the oldest frame, or nothing in time.  A reader that is
\* still inside when stop() deletes the object has no defined way out.
ReadReturns ==
    /\ reader = "inside" /\ stop # "freed"
    /\ reader' = "idle"
    /\ IF frames = <<>> THEN UNCHANGED <<frames, taken>>
       ELSE taken' = frames[1][1].frame /\ frames' = Tail(frames)
    /\ UNCHANGED <<startVars, cameraVars, ringVars, assembling, fid, pts,
                   frameError, stopVars, silentLoss>>

StopBegins ==
    /\ start = "running" /\ ~closed
    /\ closed' = TRUE /\ running' = FALSE
    /\ stop' = "join"
    /\ UNCHANGED <<startVars, cameraVars, inFlight, event, left, frameVars,
                   readVars, silentLoss>>

\* The event thread is joined and the cancelled transfers are called back: the
\* kernel is assumed to give them back within the four polls.
StopJoins ==
    /\ stop = "join" /\ event = "ended"
    /\ inFlight' = 0
    /\ stop' = "free"
    /\ UNCHANGED <<startVars, cameraVars, running, event, left, frameVars, readVars,
                   closed, silentLoss>>

\* All is given back and the object deleted, whoever is inside readFrame().
StopFrees ==
    /\ stop = "free"
    /\ stop' = "freed" /\ held' = {}
    /\ UNCHANGED <<start, cameraVars, ringVars, frameVars, readVars, closed,
                   silentLoss>>

Callback ==
    \/ TransferCompletes \/ TransferFails
    \/ GoodPacket \/ EmptyPacket \/ LostPacket \/ ErrorPacket \/ MalformedPacket
    \/ PacketsDone \/ Resubmit \/ EventsEnd

Next ==
    \/ InitContext \/ WrapSysDevice \/ ClaimInterface
    \/ FindFormat \/ Probe \/ SelectAlt \/ Commit \/ SubmitOne \/ Started \/ StartFails
    \/ Callback
    \/ ReadBegins \/ ReadReturns
    \/ StopBegins \/ StopJoins \/ StopFrees

Spec == Init /\ [][Next]_vars

-----------------------------------------------------------------------------
(* Properties *)

\* Every variable stays in its type.
TypeOK ==
    /\ held \subseteq {"context", "handle", "claim", "ring"}
    /\ start \in Steps \cup {"running", "failed"}
    /\ hasPts \in BOOLEAN /\ sent \in 0..(MaxFrames * FrameLength)
    /\ running \in BOOLEAN /\ inFlight \in 0..Transfers
    /\ event \in {"none", "poll", "packets", "resubmit", "ended"}
    /\ left \in 0..PacketsPerTransfer
    /\ assembling \in Seq(Packet) /\ fid \in -1..1 /\ pts \in Nat
    /\ frameError \in BOOLEAN /\ frames \in Seq(Seq(Packet))
    /\ reader \in {"idle", "inside"} /\ taken \in Nat
    /\ closed \in BOOLEAN /\ stop \in {"none", "join", "free", "freed"}
    /\ silentLoss \in BOOLEAN

\* "Never concatenate the next JPEG onto the damaged one": of a camera that
\* stamps its packets no delivered frame has parts of two frames, whatever is
\* lost, and frames are delivered in order.
FramesAreNotMixed ==
    /\ \A k \in DOMAIN frames :
          hasPts => \A i \in DOMAIN frames[k] : frames[k][i].frame = frames[k][1].frame
    /\ \A k \in DOMAIN frames : taken < frames[k][1].frame
    /\ Len(frames) = 2 => frames[1][1].frame < frames[2][1].frame

\* As long as every loss of data shows in a packet's status or in the camera's
\* error bit, a delivered frame is a whole frame, FID alone or not.
FramesAreWhole ==
    ~silentLoss =>
        \A k \in DOMAIN frames :
            frames[k] = [i \in 1..FrameLength |->
                            [frame |-> frames[k][1].frame, part |-> i]]

\* What a step of start() has taken is among what its failure gives back.
HeldIsGivenBack ==
    /\ start \in Steps => held \subseteq GivenBack(start)
    /\ start = "failed" => held = {}

\* The events are handled once start() has ended, and the transfer being called
\* back is not in flight.
RingIsStarted ==
    /\ event = "none" <=> start # "running"
    /\ event \in {"packets", "resubmit"} => inFlight < Transfers

\* What is assembled has no end mark, and is of later frames than those that are
\* ready or taken; the camera is past these.
Current == NextPacket.frame
AssembledIsNewer ==
    /\ taken < Current
    /\ \A k \in DOMAIN frames : frames[k] # <<>> /\ frames[k][1].frame < Current
    /\ \A i \in DOMAIN assembling :
          /\ assembling[i].part # FrameLength
          /\ assembling[i].frame <= Current /\ taken < assembling[i].frame
          /\ hasPts => assembling[i].frame = pts
          /\ \A k \in DOMAIN frames : frames[k][1].frame < assembling[i].frame

\* What is assembled from a start marker on, with no loss seen or unseen, are the
\* parts of the frame the camera is at, up to the last one sent or what fits.
AssembledIsCurrent ==
    ~silentLoss /\ ~frameError /\ assembling # <<>> /\ assembling[1].part = 1 =>
        /\ Len(assembling) = sent % FrameLength \/ Len(assembling) >= Capacity
        /\ \A i \in DOMAIN assembling : assembling[i] = [frame |-> Current, part |-> i]

\* What a reader of the Beast's camera gets is a frame, not parts of several
\* and, unless a loss went unseen, all of it; a start() that failed holds
\* nothing, and the queue keeps its bound.
UvcInv ==
    /\ TypeOK /\ HeldIsGivenBack /\ RingIsStarted
    /\ Len(frames) <= QueueSize
    /\ AssembledIsNewer /\ FramesAreNotMixed
    /\ AssembledIsCurrent /\ FramesAreWhole
=============================================================================
