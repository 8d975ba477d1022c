SPECIFICATION Spec
CONSTANTS
    Profiles = {p2d, p3d}
    SendAttempts = 3
    MaxRounds = 3
    MaxCalls = 2
    MaxFaults = 4
    Null = Null
    Other = Other
INVARIANT VerifiedIsApplied
CHECK_DEADLOCK FALSE
