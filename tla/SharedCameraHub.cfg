SPECIFICATION FairSpec
CONSTANTS
    Writers = {w1, w2}
    MaxReaders = 2
    MaxFrames = 2
    MaxCloses = 2
    QueueSize = 2
    MaxEmptyReads = 1
INVARIANTS HubInv FramesInOrder
PROPERTIES NothingIsLeftOver
CHECK_DEADLOCK FALSE
