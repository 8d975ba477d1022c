SPECIFICATION TransportsSpec
CONSTANTS
    t1 = t1
    t2 = t2
    Threads <- HandleThreads
    LastInterface = 1
    NoThread = NoThread
    MaxDescriptors = 4
    MaxCut = 2
    Callers = {c1, c2}
    Commands = {k1}
    EntryPoints = {"mcu", "timed", "imu"}
    NoReply = NoReply
    Nobody = Nobody
    Starter = Starter
    MaxId = 2
    MaxWire = 1
    Profiles = {p2d, p3d}
    SendAttempts = 3
    MaxRounds = 3
    MaxCalls = 2
    MaxFaults = 3
    Null = Null
    Other = Other
    FrameLength = 3
    MaxFrames = 4
    PacketsPerTransfer = 4
    Transfers = 2
    Capacity = 3
    FrameSize = 4
    MaxBytes = 8
    MaxChunk = 3
    NoSample = NoSample
    MaxOpens = 3
    MaxNetworks = 3
    MaxRuns = 2
    MaxCloses = 2
    Writers = {w1, w2, w3}
    None = None
    MaxPayload = 1
    MaxEyeFrames = 2
    Tries = 2
    MaxRequests = 5
    Segments = 2
    MaxReadings = 1
SYMMETRY Symmetry
INVARIANTS NoTransferAfterRelease CommandInv DpInv SwitchIsTruthful
    UvcInv DescriptorInv HandleInv SamplesAreParsed OwnerInv
    BindingInv SurfaceInv EyeInv VitureInv
PROPERTIES OfferedReplyIsReturned ImplementsChannel
CHECK_DEADLOCK FALSE
