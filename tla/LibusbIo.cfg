SPECIFICATION FairSpec
CONSTANTS
    Threads = {c1, u1}
    Users = {u1}
    c1 = c1
    u1 = u1
    Nobody = Nobody
    Timeouts = {0, 1}
    MaxTime = 1
    MaxSubmits = 2
    CallbackCloses = FALSE
INVARIANTS IoInv
PROPERTIES ImplementsTransfer TransfersEnd CallsReturn
CHECK_DEADLOCK FALSE
