------------------------------- MODULE XrealEye -------------------------------
(***************************************************************************)
(* The camera of an XREAL One with an Eye (XrealOneEyeCameraSession): a    *)
(* control connection on which the camera is started and stopped, a video  *)
(* connection in whose bytes frames are found, a thread that reads frames  *)
(* and close() by another.                                                 *)
(*                                                                         *)
(* A frame on the wire is Mark, the low byte of its command, its size and  *)
(* its payload; the size takes one byte here and four in the code.  Of the *)
(* payload it matters whether HEVC is found in it, and whether its bytes   *)
(* look like the beginning of a frame.  Control frames are parsed by the   *)
(* same code and are whole here.                                           *)
(***************************************************************************)
EXTENDS Naturals, SequencesExt

CONSTANTS
    Bytes,       \* the bytes of payloads
    Mark,        \* the high byte of every command (0x27)
    Video,       \* the low byte of CAMERA_FRAME_COMMAND
    Other,       \* the low byte of another command
    Hevc,        \* the payloads in which findHevcAnnexBOffset() finds a start code
    MaxPayload,  \* the limit readFrame() puts on the size (MAX_VIDEO_PAYLOAD)
    MaxFrames,   \* bound on the frames the glasses send
    Tries        \* the control frames transact() looks at (24)

Payloads == UNION {[1..n -> Bytes] : n \in 0..MaxPayload}
EyeAssumption ==
    /\ Bytes \cup {Mark, Video, Other} \subseteq Nat
    /\ Mark \notin {Video, Other} /\ Video # Other /\ Hevc \subseteq Payloads
    /\ {MaxPayload, MaxFrames} \subseteq Nat /\ Tries \in Nat \ {0}

VARIABLES
    phase,     \* where the constructor or close() is
    sockets,   \* the sockets that are open
    sequence,  \* sequence
    tries,     \* the control frames transact() has looked at
    owed,      \* the request the glasses have and have not answered, if any
    acks,      \* control frames on their way
    streaming, \* the glasses send video
    closed,    \* closed
    reading,   \* a thread is in readHevcFrame()
    got,       \* what readFrame() has of a frame
    wire,      \* the bytes on the video connection
    sent,      \* the frames the glasses have sent (history)
    found,     \* the frames readFrame() has found (history)
    returned,  \* the frames readHevcFrame() has returned (history)
    torn,      \* a read ended in the middle of a frame (history)
    late       \* frames returned once closed was set (history)

controlVars == <<phase, sockets, sequence, tries, owed, acks>>
readerVars == <<reading, got, wire, found, returned, torn, late>>
vars == <<controlVars, streaming, closed, sent, readerVars>>

Nothing == [command |-> "none", sequence |-> 0]

Init ==
    /\ phase = "video" /\ sockets = {} /\ sequence = 1 /\ tries = 0
    /\ owed = Nothing /\ acks = <<>> /\ streaming = FALSE /\ closed = FALSE
    /\ reading = FALSE /\ got = <<>> /\ wire = <<>>
    /\ sent = <<>> /\ found = <<>> /\ returned = <<>> /\ torn = FALSE /\ late = 0

-----------------------------------------------------------------------------
(* The constructor: two connections, then transact(CAMERA_START_COMMAND).  *)
Connect(socket, at, next) ==
    /\ phase = at
    /\ sockets' = sockets \cup {socket}
    /\ phase' = next
    /\ UNCHANGED <<sequence, tries, owed, acks, streaming, closed, sent, readerVars>>

\* An exception in a field's initializer closes nothing.
ConnectFails ==
    /\ phase \in {"video", "control"}
    /\ phase' = "failed"
    /\ UNCHANGED <<sockets, sequence, tries, owed, acks, streaming, closed, sent, readerVars>>

Command == IF phase \in {"start", "awaitStart"} THEN "start" ELSE "stop"

\* Whether the request was acknowledged: a session that could not start closes
\* its sockets, one that is closed does so in any case.
Transacted(acknowledged) ==
    phase' = IF Command = "stop" THEN "closeSockets"
             ELSE IF acknowledged THEN "open" ELSE "abandon"

SendRequest ==
    /\ phase \in {"start", "stop"}
    /\ sequence' = sequence + 1 /\ tries' = 0
    /\ \/ /\ owed' = [command |-> Command, sequence |-> sequence]
          /\ phase' = IF Command = "start" THEN "awaitStart" ELSE "awaitStop"
       \/ Transacted(FALSE) /\ owed' \in {owed, [command |-> Command, sequence |-> sequence]}
    /\ UNCHANGED <<sockets, acks, streaming, closed, sent, readerVars>>

ReadControl ==
    /\ phase \in {"awaitStart", "awaitStop"} /\ acks # <<>>
    /\ acks' = Tail(acks)
    /\ LET frame == Head(acks)
           mine == frame.command = Command /\ frame.sequence = sequence - 1
       IN IF mine THEN Transacted(frame.ok) /\ UNCHANGED tries
          ELSE /\ tries' = tries + 1
               /\ IF tries' = Tries THEN Transacted(FALSE) ELSE UNCHANGED phase
    /\ UNCHANGED <<sockets, sequence, owed, streaming, closed, sent, readerVars>>

\* readFrame() returns null at a time-out, and at the end of the stream: what
\* is on its way then comes too late.
ControlEnds ==
    /\ phase \in {"awaitStart", "awaitStop"}
    /\ Transacted(FALSE)
    /\ UNCHANGED <<sockets, sequence, tries, owed, acks, streaming, closed, sent, readerVars>>

CloseSockets ==
    /\ phase \in {"abandon", "closeSockets"}
    /\ sockets' = {}
    /\ phase' = IF phase = "abandon" THEN "failed" ELSE "closed"
    /\ UNCHANGED <<sequence, tries, owed, acks, streaming, closed, sent, readerVars>>

Close ==
    /\ phase = "open"
    /\ closed' = TRUE
    /\ phase' = "stop"
    /\ UNCHANGED <<sockets, sequence, tries, owed, acks, streaming, sent, readerVars>>

-----------------------------------------------------------------------------
(* The glasses.  They do or refuse what they are asked, and tell so, at    *)
(* any time or never; other control frames may come before.                *)
Obey ==
    /\ owed # Nothing
    /\ owed' = Nothing
    /\ \/ streaming' = (owed.command = "start")
       \/ UNCHANGED streaming
    /\ \/ acks' = Append(acks, [command |-> owed.command, sequence |-> owed.sequence,
                                ok |-> streaming' = (owed.command = "start")])
       \/ UNCHANGED acks
    /\ UNCHANGED <<phase, sockets, sequence, tries, closed, sent, readerVars>>

Tell ==
    /\ phase \in {"awaitStart", "awaitStop"} /\ acks = <<>>
    /\ \/ acks' = <<[command |-> "other", sequence |-> sequence - 1, ok |-> TRUE]>>
       \/ acks' = <<[command |-> Command, sequence |-> sequence - 2, ok |-> TRUE]>>
    /\ UNCHANGED <<phase, sockets, sequence, tries, owed, streaming, closed, sent, readerVars>>

\* The bytes of a frame are in wire until they are read, be they here or still
\* on their way; so there need be no more than one.
SendFrame ==
    /\ streaming /\ "video" \in sockets /\ wire = <<>> /\ Len(sent) < MaxFrames
    /\ \E low \in {Video, Other}, payload \in Payloads :
         /\ wire' = <<Mark, low, Len(payload)>> \o payload
         /\ sent' = Append(sent, [command |-> low, payload |-> payload])
    /\ UNCHANGED <<controlVars, streaming, closed, reading, got, found, returned, torn, late>>

-----------------------------------------------------------------------------
(* readHevcFrame() and readFrame().                                        *)
ReadHevcFrame ==
    /\ phase \notin {"video", "control", "start", "awaitStart", "abandon", "failed"}
    /\ ~reading /\ ~closed
    /\ reading' = TRUE
    /\ UNCHANGED <<controlVars, streaming, closed, sent, got, wire, found, returned, torn, late>>

IsWhole(bytes) == Len(bytes) >= 3 /\ Len(bytes) = 3 + bytes[3]
FrameOf(bytes) == [command |-> bytes[2], payload |-> SubSeq(bytes, 4, Len(bytes))]
IsShown(frame) == frame.command = Video /\ frame.payload \in Hevc

\* Mutant of Taken: the next byte is taken for the beginning of a frame.
TakenUnmarked == Append(got, Head(wire))

\* What the next byte makes of the frame under way.
Taken == IF got = <<>> /\ Head(wire) # Mark THEN <<>> ELSE Append(got, Head(wire))

\* What the stream has buffered is read even from a socket that was closed.
Takes ==
    /\ reading /\ wire # <<>>
    /\ wire' = Tail(wire)
    /\ UNCHANGED <<controlVars, streaming, closed, sent>>

ReadByte ==
    /\ Takes
    /\ ~IsWhole(Taken) /\ (Len(Taken) = 3 => Taken[3] <= MaxPayload)
    /\ got' = Taken
    /\ UNCHANGED <<reading, found, returned, torn, late>>

\* require() throws to the caller.
InvalidSize ==
    /\ Takes
    /\ Len(Taken) = 3 /\ Taken[3] > MaxPayload
    /\ got' = <<>> /\ reading' = FALSE
    /\ UNCHANGED <<found, returned, torn, late>>

\* Frames of other commands, and without HEVC, are passed over.
LastByte ==
    /\ Takes
    /\ IsWhole(Taken) /\ Taken[3] <= MaxPayload
    /\ got' = <<>>
    /\ found' = Append(found, FrameOf(Taken))
    /\ IF IsShown(FrameOf(Taken))
       THEN /\ returned' = Append(returned, FrameOf(Taken))
            /\ reading' = FALSE
            /\ late' = IF closed THEN late + 1 ELSE late
       ELSE reading' = ~closed /\ UNCHANGED <<returned, late>>
    /\ UNCHANGED torn

\* A time-out, or the end of the connection: null, and what was read is lost.
ReadEnds ==
    /\ reading /\ "video" \in sockets
    /\ reading' = FALSE
    /\ torn' = (torn \/ got # <<>>)
    /\ got' = <<>>
    /\ UNCHANGED <<controlVars, streaming, closed, sent, wire, found, returned, late>>

\* read() throws on a socket that was closed.
SocketClosed ==
    /\ reading /\ "video" \notin sockets
    /\ reading' = FALSE /\ got' = <<>>
    /\ UNCHANGED <<controlVars, streaming, closed, sent, wire, found, returned, torn, late>>

Next ==
    \/ Connect("video", "video", "control") \/ Connect("control", "control", "start")
    \/ ConnectFails \/ SendRequest \/ ReadControl \/ ControlEnds \/ CloseSockets \/ Close
    \/ Obey \/ Tell \/ SendFrame
    \/ ReadHevcFrame \/ ReadByte \/ InvalidSize \/ LastByte \/ ReadEnds \/ SocketClosed

Spec == Init /\ [][Next]_vars

-----------------------------------------------------------------------------
TypeOK ==
    /\ phase \in {"video", "control", "start", "awaitStart", "open", "stop", "awaitStop",
                  "closeSockets", "closed", "abandon", "failed"}
    /\ sockets \subseteq {"video", "control"} /\ sequence \in 1..3 /\ tries \in 0..Tries
    /\ streaming \in BOOLEAN /\ closed \in BOOLEAN /\ reading \in BOOLEAN /\ torn \in BOOLEAN
    /\ got \in Seq(Nat) /\ wire \in Seq(Nat) /\ late \in Nat

\* As long as no read ends in the middle of a frame, the frames found are those
\* that were sent, none missing; and always the ones of them with HEVC are returned.
Shown(i) == {j \in 1..i : IsShown(found[j])}
FramesInOrder ==
    /\ ~torn => IsPrefix(found, sent)
    /\ Len(returned) = Cardinality(Shown(Len(found)))
    /\ \A i \in Shown(Len(found)) : returned[Cardinality(Shown(i))] = found[i]

\* When a read has ended in the middle of one, the rest of it is passed over: if
\* nothing in a frame looks like the beginning of one, all that is found has been
\* sent, in that order.  (If something does, a frame may be found that is none.)
Unmistakable(frame) == Mark \notin ToSet(frame.payload) \cup {Len(frame.payload)}
Resynchronizes ==
    (\A i \in DOMAIN sent : Unmistakable(sent[i])) =>
        \E place \in [DOMAIN found -> DOMAIN sent] :
            \A i \in DOMAIN found :
                /\ found[i] = sent[place[i]]
                /\ \A j \in DOMAIN found : i < j => place[i] < place[j]

\* A session that is open has a camera that was started; one that was closed, or
\* was not acknowledged, has no sockets; close() lets one more frame through.
OpenAndClosed ==
    /\ phase = "open" => streaming /\ sockets = {"video", "control"}
    /\ phase = "closed" => sockets = {}
    /\ phase = "failed" /\ sequence > 1 => sockets = {}
    /\ late <= 1

\* What an Eye camera session promises its reader.
EyeInv == TypeOK /\ FramesInOrder /\ Resynchronizes /\ OpenAndClosed
=============================================================================
