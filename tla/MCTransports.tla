----------------------------- MODULE MCTransports -----------------------------
(***************************************************************************)
(* The parts of which only safety is checked, for TLC: the commands to     *)
(* USB glasses, the switch of an XREAL One's display and its IMU over TCP, *)
(* its camera and the network the process is bound to for them, the        *)
(* VITURE Beast and its camera, a camera on a Surface, who owns the USB of *)
(* a session, and libusb's handles and descriptors.  They share no state   *)
(* here, so a behaviour is one of one of them, which "part" chooses, and   *)
(* the others stay as they begin.                                          *)
(***************************************************************************)
EXTENDS XrealUsbCommand, TLC

CONSTANTS
    t1, t2, Threads, LastInterface, NoThread,                                 \* LibusbHandle
    MaxDescriptors, MaxCut,                                                   \* LibusbDescriptor
    Profiles, SendAttempts, MaxRounds, MaxCalls, MaxFaults, Null, Other,      \* XrealOneDp
    FrameLength, MaxFrames, PacketsPerTransfer, Transfers, Capacity,          \* BeastUvc
    FrameSize, MaxBytes, MaxChunk, NoSample,                                  \* XrealOneImu
    MaxOpens,                                                                 \* NativeUsbOwner
    MaxNetworks,                                                              \* NcmBinding
    MaxRuns, MaxCloses, Writers, None,                                        \* CameraSurfaceStream
    MaxPayload, MaxEyeFrames, Tries,                                          \* XrealEye
    MaxRequests, Segments, MaxReadings                                        \* VitureBeast

\* A stream of three kinds of byte.  A payload that begins with 0 is not
\* plausible, 1 2 is a plausible payload that looks like a header, 2 1 one that
\* ends like the beginning of one, and 0 1 one that is not plausible and does.
Bytes == 0..2
Header == <<1, 2>>
OneImuPayloads == [1..(FrameSize - 2) -> Bytes]
Plausible == {p \in OneImuPayloads : p[1] # 0}
Fresh == {p \in OneImuPayloads : p[2] # 0}
FiniteMagnetic == {p \in OneImuPayloads : p[2] # 1}

\* The Eye's payloads are of 0 and 1, which also are the video command and the mark;
\* 2 is another command, and a size that is too large.
EyeBytes == 0..1
EyeMark == 1
EyeVideo == 0
EyeOther == 2
Hevc == {<<0>>}

VARIABLES
    part,
    lock, claimed, autoDetach, attached, call, plugged, bound, disconnectClaim, lost,
    fromSysfs, numConfigs, buffer, cut,
    model, edid, input, inbox, connection, connected, answer, phase, step, attempt, wanted,
    lastEdid, lastInput, writeCount, writeConfirmed, rounds, calls, faults, switched,
    acquired, start, hasPts, sent, uvcRunning, inFlight, event, left, assembling, fid, pts,
    frameError, frames, frameReader, taken, closed, stop, silentLoss,
    imuRunning, imu, fd, imuPending, sample, samples, reported, imuCloser, stream, late,
    session, withImu, opening, owned, leaked, ownerRunning, alive, ownerReader, display,
    writeLock, gaveUp, touched, blamed, given, opens,
    processNetwork, glasses, networks, block, network, previous, entered, crossed,
    surfaceRunning, writer, thread, run, camera, surfaceCall, current, closes, early,
    lease, leased, again,
    eyePhase, sockets, sequence, tries, eyeOwed, acks, sending, eyeClosed, reading, got,
    video, eyeSent, found, returned, torn, lateFrames,
    imuEnabled, viturePhase, native, field, request, packet, assembled, calibration,
    vitureOwed, answers, nativeMode, vitureDisplay, stripped, calibrations, requests,
    abandoned, applied, answersTaken, vitureResult

Handle == INSTANCE LibusbHandle
Dp == INSTANCE XrealOneDp WITH result <- switched
Uvc == INSTANCE BeastUvc WITH held <- acquired, running <- uvcRunning, reader <- frameReader
Descriptor == INSTANCE LibusbDescriptor
OneImu == INSTANCE XrealOneImu WITH running <- imuRunning, pending <- imuPending,
            closer <- imuCloser
Owner == INSTANCE NativeUsbOwner WITH phase <- opening, held <- owned, left <- leaked,
            running <- ownerRunning, reader <- ownerReader
Binding == INSTANCE NcmBinding WITH bound <- processNetwork, pc <- block
Surface == INSTANCE CameraSurfaceStream WITH running <- surfaceRunning, reader <- camera,
            call <- surfaceCall
Eye == INSTANCE XrealEye WITH phase <- eyePhase, owed <- eyeOwed, streaming <- sending,
            closed <- eyeClosed, wire <- video, sent <- eyeSent, late <- lateFrames,
            Bytes <- EyeBytes, Mark <- EyeMark, Video <- EyeVideo, Other <- EyeOther,
            MaxFrames <- MaxEyeFrames
Viture == INSTANCE VitureBeast WITH phase <- viturePhase, owed <- vitureOwed,
            inbox <- answers, display <- vitureDisplay, reading <- calibrations,
            taken <- answersTaken, result <- vitureResult

ASSUME TransportsAssumption ==
    /\ Dp!DpAssumption /\ Uvc!BeastAssumption
    /\ OneImu!XrealOneImuAssumption /\ Owner!OwnerAssumption
    /\ Surface!SurfaceAssumption /\ Handle!HandleAssumption
    /\ Eye!EyeAssumption /\ Viture!VitureAssumption

handleVars == <<lock, claimed, autoDetach, attached, call, plugged, bound, disconnectClaim, lost>>
dpVars == <<model, edid, input, inbox, connection, connected, answer, phase, step, attempt,
            wanted, lastEdid, lastInput, writeCount, writeConfirmed, rounds, calls, faults,
            switched>>
uvcVars == <<acquired, start, hasPts, sent, uvcRunning, inFlight, event, left, assembling, fid,
             pts, frameError, frames, frameReader, taken, closed, stop, silentLoss>>
descriptorVars == <<fromSysfs, numConfigs, buffer, cut>>
oneImuVars == <<imuRunning, imu, fd, imuPending, sample, samples, reported, imuCloser, stream,
                late>>
ownerVars == <<session, withImu, opening, owned, leaked, ownerRunning, alive, ownerReader,
               display, writeLock, gaveUp, touched, blamed, given, opens>>
bindingVars == <<processNetwork, glasses, networks, block, network, previous, entered, crossed>>
surfaceVars == <<surfaceRunning, writer, thread, run, camera, surfaceCall, current, closes,
                 early, lease, leased, again>>
eyeVars == <<eyePhase, sockets, sequence, tries, eyeOwed, acks, sending, eyeClosed, reading,
             got, video, eyeSent, found, returned, torn, lateFrames>>
vitureVars == <<imuEnabled, viturePhase, native, field, request, packet, assembled, calibration,
                vitureOwed, answers, nativeMode, vitureDisplay, stripped, calibrations,
                requests, abandoned, applied, answersTaken, vitureResult>>
transportsVars == <<part, handleVars, vars, dpVars, uvcVars, descriptorVars, oneImuVars,
                    ownerVars, bindingVars, surfaceVars, eyeVars, vitureVars>>

\* Of the parts that are not chosen, one beginning is enough.
TransportsInit ==
    /\ part \in {"handle", "command", "dp", "uvc", "descriptor", "oneImu", "owner", "binding",
                "surface", "lease", "eye", "viture"}
    /\ Init /\ Handle!HandleInit /\ Dp!Init /\ Uvc!Init /\ Descriptor!Init
    /\ OneImu!Init /\ Owner!OwnerInit /\ Binding!BindingInit /\ Surface!SurfaceInit
    /\ Eye!Init /\ Viture!Init
    /\ part = "handle" \/ <<autoDetach, disconnectClaim, bound>> =
                            <<FALSE, FALSE, [i \in Handle!Interfaces |-> "none"]>>
    /\ part = "dp" \/ model = CHOOSE m \in Dp!Models : TRUE
    /\ part = "uvc" \/ ~hasPts
    /\ part = "descriptor" \/ (~fromSysfs /\ numConfigs = 1)
    /\ part = "owner" \/ (session = "xreal" /\ withImu)
    /\ part = "viture" \/ ~(imuEnabled \/ stripped)

TransportsNext ==
    \/ /\ part = "handle" /\ Handle!HandleNext
       /\ UNCHANGED <<part, vars, dpVars, uvcVars, descriptorVars, oneImuVars, ownerVars,
                   bindingVars, surfaceVars, eyeVars, vitureVars>>
    \/ /\ part = "command" /\ Next
       /\ UNCHANGED <<part, handleVars, dpVars, uvcVars, descriptorVars, oneImuVars, ownerVars,
                   bindingVars, surfaceVars, eyeVars, vitureVars>>
    \/ /\ part = "dp" /\ Dp!Next
       /\ UNCHANGED <<part, handleVars, vars, uvcVars, descriptorVars, oneImuVars, ownerVars,
                   bindingVars, surfaceVars, eyeVars, vitureVars>>
    \/ /\ part = "uvc" /\ Uvc!Next
       /\ UNCHANGED <<part, handleVars, vars, dpVars, descriptorVars, oneImuVars, ownerVars,
                   bindingVars, surfaceVars, eyeVars, vitureVars>>
    \/ /\ part = "descriptor" /\ Descriptor!Next
       /\ UNCHANGED <<part, handleVars, vars, dpVars, uvcVars, oneImuVars, ownerVars,
                   bindingVars, surfaceVars, eyeVars, vitureVars>>
    \/ /\ part = "oneImu" /\ OneImu!Next
       /\ UNCHANGED <<part, handleVars, vars, dpVars, uvcVars, descriptorVars, ownerVars,
                   bindingVars, surfaceVars, eyeVars, vitureVars>>
    \/ /\ part = "owner" /\ Owner!OwnerNext
       /\ UNCHANGED <<part, handleVars, vars, dpVars, uvcVars, descriptorVars, oneImuVars,
                   bindingVars, surfaceVars, eyeVars, vitureVars>>
    \/ /\ part = "binding" /\ Binding!BindingNext
       /\ UNCHANGED <<part, handleVars, vars, dpVars, uvcVars, descriptorVars, oneImuVars,
                   ownerVars, surfaceVars, eyeVars, vitureVars>>
    \/ /\ \/ part = "surface" /\ Surface!StreamNext
          \/ part = "lease" /\ Surface!LeaseNext
       /\ UNCHANGED <<part, handleVars, vars, dpVars, uvcVars, descriptorVars, oneImuVars,
                   ownerVars, bindingVars, eyeVars, vitureVars>>
    \/ /\ part = "eye" /\ Eye!Next
       /\ UNCHANGED <<part, handleVars, vars, dpVars, uvcVars, descriptorVars, oneImuVars,
                   ownerVars, bindingVars, surfaceVars, vitureVars>>
    \/ /\ part = "viture" /\ Viture!Next
       /\ UNCHANGED <<part, handleVars, vars, dpVars, uvcVars, descriptorVars, oneImuVars,
                   ownerVars, bindingVars, surfaceVars, eyeVars>>

TransportsSpec == TransportsInit /\ [][TransportsNext]_transportsVars

\* The threads of a handle are alike.
HandleThreads == {t1, t2}
Symmetry == Permutations(HandleThreads)

-----------------------------------------------------------------------------
(* Their properties; an invariant is looked at in the part it is of.       *)
(* Those of XrealUsbCommand have their names already.                      *)

\* verifyDpState(): an answer that comes late, on a connection that was given up, is
\* never taken for the answer to a later request; what the session has read of the
\* glasses is so, and stays so until it returns.
DpInv == part = "dp" => Dp!DpInv
\* setDisplayProfile() returns true only if the glasses have the EDID that was asked
\* for and, where the readback is required, the input mode; and it does when nothing
\* was lost, refused or late.
SwitchIsTruthful == part = "dp" => Dp!SwitchIsTruthful
\* isoCallback(): a frame delivered is of one JPEG and, unless its loss was not to be
\* seen, all of it; a start() that failed holds nothing.
UvcInv == part = "uvc" => Uvc!UvcInv
\* parse_configuration() and its siblings report what is in the buffer, whole and in
\* order, and all of it if the descriptors are well-formed.
DescriptorInv == part = "descriptor" => Descriptor!DescriptorInv
\* claim, release, reset and detach on one handle: what libusb records as claimed is
\* what the kernel has bound to usbfs, but where the code cannot know.
HandleInv == part = "handle" => Handle!HandleInv
\* try_parse(): the listener gets the frames of the stream, each once and in order,
\* however TCP cuts it; the socket is closed and the end reported.
SamplesAreParsed == part = "oneImu" => OneImu!SamplesAreParsed
\* close() of a session closes what its open opened, inside out and not under the
\* reader; what failed opens leave is what their step accounts for.
OwnerInv == part = "owner" => Owner!OwnerInv
\* withBoundNetwork(): as long as blocks are nested the process is bound as it was
\* before them, whatever networks come and go.
BindingInv == part = "binding" => Binding!BindingInv
\* ArGlassCameraSurfaceStream: every run that close() would not wait for has a close()
\* to account for it, a stream that is running has a run that will stop it, no camera
\* is left open by a close() that waited, and a camera is lent to one writer more only
\* for each that was closed twice.
SurfaceInv == part \in {"surface", "lease"} => Surface!SurfaceInv
\* readHevcFrame(): frames are those that were sent, in order, and after a read that
\* ended in the middle of one at least those; a session not open has no sockets.
EyeInv == part = "eye" => Eye!EyeInv
\* awaitResponse() and readLongCalibrationPacket(): an answer is taken for its own
\* request unless one was given up, and a calibration packet is whole.
VitureInv == part = "viture" => Viture!VitureInv
=============================================================================
