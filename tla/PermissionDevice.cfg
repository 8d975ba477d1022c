SPECIFICATION Spec
CONSTANTS
    d1 = d1
    d2 = d2
    d3 = d3
    Glasses <- TwoSimple
    NoGlasses = NoGlasses
    NoDevice = NoDevice
    MaxRequests = 2
    MaxDetaches = 0
INVARIANT ResultsNameTarget
CHECK_DEADLOCK FALSE
