----------------------------- MODULE VitureBeast -----------------------------
(***************************************************************************)
(* A session with a VITURE Beast (VitureBeastSession): the calibration it  *)
(* reads before it is open, segment by segment, and the display commands,  *)
(* whose answers come back through three fields.  With the IMU on, threads *)
(* read all the time; without it the caller reads while it waits.  Nothing *)
(* in an answer names its request: only its kind is known, and of a        *)
(* calibration the packet and the segment.                                 *)
(*                                                                         *)
(* A session sends to all of its ports; one of them is that of the         *)
(* commands, and answers in order.  IMU reports touch no field and are no  *)
(* step here.  Who opens and closes the USB is in NativeUsbOwner.          *)
(***************************************************************************)
EXTENDS Naturals, SequencesExt

CONSTANTS
    MaxRequests,  \* bound on the requests sent
    Segments,     \* the segments of a calibration packet
    MaxReadings   \* bound on the calibrations that the glasses have in turn

VitureAssumption == {MaxRequests, MaxReadings} \subseteq Nat /\ Segments \in 1..255

VARIABLES
    imuEnabled,   \* imuEnabled
    phase,        \* where the constructor, or the caller of a display command, is
    native,       \* nativeMode, as the call has learnt it
    field,        \* nativeModeValue, displayModeValue, setDisplayStatus
    request,      \* the display request the caller waits for
    packet,       \* the calibration packet it reads
    assembled,    \* what it has of that: how many segments, their bytes, and the
                  \* sequence number and the total of the first
    calibration,  \* per packet the bytes that were read, if it was
    owed,         \* the requests the glasses have, in order
    inbox,        \* their answers that nobody has read
    nativeMode,   \* the mode of the glasses
    display,      \* their display mode
    stripped,     \* their calibration answers have no status byte
    reading,      \* the number of the calibration they have
    requests,     \* requests sent so far
    abandoned,    \* the display requests that were given up
    applied,      \* those that set the display (history)
    taken,        \* the answers taken, each with the request it was taken for (history)
    result        \* what the last display command returned

callerVars == <<phase, native, request, taken, abandoned, result>>
calibrationVars == <<packet, assembled, calibration>>
glassesVars == <<nativeMode, display, stripped, reading, applied>>
vars == <<imuEnabled, callerVars, calibrationVars, field, owed, inbox, glassesVars, requests>>

Kinds == {"native", "display", "status"}
Empty == [number |-> 0, value |-> "null"]
NoSegments == [segment |-> 0, bytes |-> <<>>, sequence |-> 0, total |-> 0]
NoRequest == [number |-> 0, kind |-> "none", value |-> "null", native |-> FALSE]

Init ==
    /\ imuEnabled \in BOOLEAN
    /\ phase = (IF imuEnabled THEN "calibrate" ELSE "idle")
    /\ native = FALSE /\ field = [k \in Kinds |-> Empty] /\ request = NoRequest
    /\ packet = 1 /\ assembled = NoSegments /\ calibration = [p \in 1..2 |-> <<>>]
    /\ owed = <<>> /\ inbox = <<>>
    /\ nativeMode = FALSE /\ display = "2d" /\ stripped \in BOOLEAN /\ reading = 0
    /\ requests = 0 /\ abandoned = {} /\ applied = {} /\ taken = <<>> /\ result = FALSE

-----------------------------------------------------------------------------
(* The glasses.  They answer in order, late or never, and refuse what they *)
(* like; a request for the mode they are not in has no answer.  Their user *)
(* may change the mode.                                                    *)
Threed(mode) == IF mode THEN "native 3d" ELSE "bypass 3d"

Data(p, r, s) == 16 * (p - 1) + 4 * r + s
Payload(p, s) ==
    LET segment == <<reading, Segments, 0, s, 0, Data(p, reading, s)>>
    IN IF stripped THEN segment ELSE <<0>> \o segment

Answers(asked, value) ==
    \/ inbox' = Append(inbox, [number |-> asked.number, kind |-> asked.kind, value |-> value])
    \/ UNCHANGED inbox

Serve ==
    /\ owed # <<>> /\ owed' = Tail(owed)
    /\ LET asked == Head(owed) IN
         \/ /\ asked.kind = "native"
            /\ Answers(asked, IF nativeMode THEN "native" ELSE "bypass")
            /\ UNCHANGED <<display, applied>>
         \/ /\ asked.kind = "display" /\ asked.native = nativeMode
            /\ Answers(asked, display)
            /\ UNCHANGED <<display, applied>>
         \/ /\ asked.kind = "status" /\ asked.native = nativeMode
            /\ Answers(asked, "done")
            /\ display' = asked.value /\ applied' = applied \cup {asked.number}
         \/ /\ asked.kind = "status"
            /\ Answers(asked, "refused")
            /\ UNCHANGED <<display, applied>>
         \/ /\ asked.kind = "calibration"
            /\ inbox' = Append(inbox, [number |-> asked.number, kind |-> asked.kind, packet |-> asked.packet,
                                       value |-> Payload(asked.packet, asked.segment)])
            /\ UNCHANGED <<display, applied>>
         \/ UNCHANGED <<inbox, display, applied>>
    /\ UNCHANGED <<imuEnabled, callerVars, calibrationVars, field, nativeMode, stripped,
                   reading, requests>>

ChangeMode ==
    /\ phase \notin {"calibrate", "awaitSegment"}
    /\ nativeMode' = ~nativeMode /\ display' = "2d"
    /\ UNCHANGED <<imuEnabled, callerVars, calibrationVars, field, owed, inbox, stripped,
                   reading, applied, requests>>

\* Another sequence number tells that the calibration is another.
NewReading ==
    /\ phase \in {"calibrate", "awaitSegment"} /\ reading < MaxReadings
    /\ reading' = reading + 1
    /\ UNCHANGED <<imuEnabled, callerVars, calibrationVars, field, owed, inbox, nativeMode,
                   display, stripped, applied, requests>>

-----------------------------------------------------------------------------
(* readFactoryCalibration(): two of the five packets, the first of which   *)
(* the session can do without.  A packet that was not read is empty.  The  *)
(* CRC of a packet is left out: what is assembled must be right without.   *)
PacketRead(bytes) ==
    /\ calibration' = [calibration EXCEPT ![packet] = bytes]
    /\ assembled' = NoSegments
    /\ packet' = 2
    /\ phase' = IF packet = 1 THEN "calibrate" ELSE "idle"

SendSegmentRequest ==
    /\ phase = "calibrate"
    /\ requests < MaxRequests /\ requests' = requests + 1
    /\ LET asked == [number |-> requests', kind |-> "calibration", packet |-> packet,
                     segment |-> assembled.segment]
       IN \/ owed' = Append(owed, asked) /\ phase' = "awaitSegment" /\ UNCHANGED calibrationVars
          \/ UNCHANGED owed /\ PacketRead(<<>>)
    /\ UNCHANGED <<imuEnabled, native, request, taken, abandoned, result, field, inbox,
                   glassesVars>>

Uint16(bytes, offset) == bytes[offset + 1] + 256 * bytes[offset + 2]
Fits(bytes, segment) ==
    /\ Len(bytes) >= 5
    /\ Uint16(bytes, 1) <= 1024 \/ Uint16(bytes, 1) = 65535
    /\ Uint16(bytes, 3) = segment

\* calibrationSegmentPayload(): without the first byte, if that may be a status and
\* the rest fits, or as it is.
IsStatus(bytes, segment) == Head(bytes) = 0 /\ Len(bytes) > 5 /\ Fits(Tail(bytes), segment)
HasSegment(bytes, segment) == IsStatus(bytes, segment) \/ Fits(bytes, segment)
SegmentOf(bytes, segment) == IF IsStatus(bytes, segment) THEN Tail(bytes) ELSE bytes

\* What has been read, with the bytes of one more segment.
Joined(bytes) ==
    [segment |-> assembled.segment + 1, bytes |-> assembled.bytes \o SubSeq(bytes, 6, Len(bytes)),
     sequence |-> bytes[1], total |-> Uint16(bytes, 1)]

\* A segment belongs to those before it by its sequence number and total.
Continues(segments) ==
    assembled.segment > 0 =>
        segments.sequence = assembled.sequence /\ segments.total = assembled.total

\* awaitCalibrationResponse(): answers to something else are passed over.
SegmentRead ==
    /\ phase = "awaitSegment" /\ inbox # <<>>
    /\ inbox' = Tail(inbox)
    /\ LET answer == Head(inbox)
           segments == Joined(SegmentOf(answer.value, assembled.segment))
       IN IF answer.packet # packet \/ ~HasSegment(answer.value, assembled.segment)
          THEN UNCHANGED <<phase, calibrationVars>>
          ELSE IF segments.total \in {0, 65535} \/ ~Continues(segments) THEN PacketRead(<<>>)
          ELSE IF segments.segment = segments.total THEN PacketRead(segments.bytes)
          ELSE assembled' = segments /\ phase' = "calibrate" /\ UNCHANGED <<packet, calibration>>
    /\ UNCHANGED <<imuEnabled, native, request, taken, abandoned, result, field, owed,
                   glassesVars, requests>>

SegmentTimesOut ==
    /\ phase = "awaitSegment"
    /\ PacketRead(<<>>)
    /\ UNCHANGED <<imuEnabled, native, request, taken, abandoned, result, field, owed, inbox,
                   glassesVars, requests>>

-----------------------------------------------------------------------------
(* queryDisplayProfile() and setDisplayProfile().  send() follows on the   *)
(* clearing of the field.  (That it fails and the request arrives all the  *)
(* same is like a time-out: so it is not a case of its own.)               *)
Return(ok) == phase' = "idle" /\ result' = ok

Send(kind, value, next) ==
    LET asked == [number |-> requests + 1, kind |-> kind, value |-> value, native |-> native] IN
    /\ requests < MaxRequests /\ requests' = requests + 1
    /\ request' = asked
    /\ \/ phase' = next /\ owed' = Append(owed, asked) /\ UNCHANGED <<abandoned, result>>
       \/ Return(FALSE) /\ abandoned' = abandoned \cup {requests'} /\ UNCHANGED owed
    /\ UNCHANGED <<imuEnabled, native, taken, calibrationVars, inbox, glassesVars>>

Cleared(kind) == field' = [field EXCEPT ![kind] = Empty]

QueryNativeMode ==
    /\ phase = "idle" /\ Cleared("native")
    /\ \E next \in {"setNative", "queryNative"} : Send("native", "null", next)

QueryDisplay ==
    /\ phase = "queryDisplay" /\ Cleared("display")
    /\ Send("display", "null", "awaitDisplay")

\* Mutant of SetDisplay: setDisplayStatus keeps what it holds.
SetDisplayUncleared ==
    /\ phase = "setDisplay" /\ UNCHANGED field
    /\ \E value \in {"2d", Threed(native)} : Send("status", value, "awaitStatus")

SetDisplay ==
    /\ phase = "setDisplay" /\ Cleared("status")
    /\ \E value \in {"2d", Threed(native)} : Send("status", value, "awaitStatus")

\* awaitResponse(): until the field is there, or 1.5 s have passed.
Awaited ==
    CASE phase \in {"setNative", "queryNative"} -> "native"
      [] phase = "awaitDisplay" -> "display"
      [] phase = "awaitStatus" -> "status"
      [] OTHER -> "none"
Waits == Awaited # "none" /\ field[Awaited] = Empty

\* That the field is there is seen before it is read; an answer that comes in
\* between might as well have come before.
AnswerSeen ==
    /\ Awaited # "none" /\ field[Awaited] # Empty
    /\ LET answer == field[Awaited] IN
         /\ taken' = Append(taken, [answer |-> answer.number, request |-> request.number])
         /\ native' = IF Awaited = "native" THEN answer.value = "native" ELSE native
         /\ CASE phase = "setNative" -> phase' = "setDisplay" /\ UNCHANGED result
              [] phase = "queryNative" -> phase' = "queryDisplay" /\ UNCHANGED result
              [] phase = "awaitDisplay" -> Return(answer.value \in {"2d", Threed(native)})
              [] OTHER -> Return(answer.value = "done")
    /\ UNCHANGED <<imuEnabled, request, abandoned, calibrationVars, field, owed, inbox,
                   glassesVars, requests>>

TimesOut ==
    /\ Waits
    /\ abandoned' = abandoned \cup {request.number}
    /\ Return(FALSE)
    /\ UNCHANGED <<imuEnabled, native, request, taken, calibrationVars, field, owed, inbox,
                   glassesVars, requests>>

\* handlePacket(), on a reading thread, or on the caller while it waits.  What
\* answers a calibration request is of a kind it does not know.
HandlePacket ==
    /\ inbox # <<>> /\ phase \notin {"calibrate", "awaitSegment"}
    /\ imuEnabled \/ Waits
    /\ inbox' = Tail(inbox)
    /\ LET answer == Head(inbox) IN
         field' = IF answer.kind \in Kinds
                  THEN [field EXCEPT ![answer.kind] =
                          [number |-> answer.number, value |-> answer.value]]
                  ELSE field
    /\ UNCHANGED <<imuEnabled, callerVars, calibrationVars, owed, glassesVars, requests>>

Next ==
    \/ Serve \/ ChangeMode \/ NewReading
    \/ SendSegmentRequest \/ SegmentRead \/ SegmentTimesOut
    \/ QueryNativeMode \/ QueryDisplay \/ SetDisplay \/ AnswerSeen \/ TimesOut \/ HandlePacket

Spec == Init /\ [][Next]_vars

-----------------------------------------------------------------------------
TypeOK ==
    /\ phase \in {"calibrate", "awaitSegment", "idle", "setNative", "queryNative",
                  "queryDisplay", "awaitDisplay", "setDisplay", "awaitStatus"}
    /\ DOMAIN field = Kinds /\ packet \in 1..2 /\ assembled.segment < Segments
    /\ requests \in 0..MaxRequests /\ abandoned \cup applied \subseteq 1..requests
    /\ result \in BOOLEAN /\ reading \in 0..MaxReadings

\* An answer is taken for its own request as long as none was given up.  One that
\* comes late may be taken for the next request of its kind, whose own answer is
\* then late itself; but none is taken twice.
Overtaken == {taken[i].request : i \in {j \in DOMAIN taken : taken[j].answer # taken[j].request}}
AnswersAreOwnOrLate ==
    \A i \in DOMAIN taken :
        /\ \/ taken[i].answer = taken[i].request
           \/ taken[i].answer < taken[i].request /\ taken[i].answer \in abandoned \cup Overtaken
        /\ \A j \in 1..(i - 1) : taken[j].answer < taken[i].answer

\* A display command that returns true has been answered; if it is
\* setDisplayProfile(), the request that the answer belongs to (its own, or an
\* earlier one whose answer came late) has set the display.
TrueIsAnswered ==
    phase = "idle" /\ result =>
        /\ Last(taken).request = request.number
        /\ request.kind = "status" => Last(taken).answer \in applied

\* A calibration packet is one the glasses had, whole, with its segments in
\* order, whatever came late and whether their answers have a status byte.
CalibrationIsWhole ==
    \A p \in 1..2 : calibration[p] # <<>> =>
        \E r \in 0..reading : calibration[p] = [s \in 1..Segments |-> Data(p, r, s - 1)]

\* What a Beast session makes of the answers it gets.
VitureInv == TypeOK /\ AnswersAreOwnOrLate /\ TrueIsAnswered /\ CalibrationIsWhole
=============================================================================
