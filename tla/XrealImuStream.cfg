SPECIFICATION FairSpec
CONSTANTS
    Urbs = 2
    QueueSize = 2
    MaxReports = 4
    MaxStarts = 2
    MaxSinks = 1
INVARIANTS ImuInv
PROPERTIES CloseTerminates UnplugEndsStream
CHECK_DEADLOCK FALSE
