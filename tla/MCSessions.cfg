SPECIFICATION SessionsSpec
CONSTANTS
    HandshakeCalls = 10
    Parts = 3
    Knots = 36
    MaxStarts = 3
    MaxSamples = 3
    d1 = d1
    d2 = d2
    d3 = d3
    Glasses <- CompositeAndSimple
    NoGlasses = NoGlasses
    NoDevice = NoDevice
    MaxRequests = 2
    MaxDetaches = 2
INVARIANTS PermissionInv SessionInv AtwInv
PROPERTIES EveryRequestEnds ThreadsEnd CloseEndsEverything StartIsAnswered
CHECK_DEADLOCK FALSE
