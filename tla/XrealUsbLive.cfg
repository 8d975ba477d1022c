SPECIFICATION FairSpec
CONSTANTS
    Callers = {c1, c2}
    Commands = {k1}
    EntryPoints = {"timed", "imu"}
    NoReply = NoReply
    Nobody = Nobody
    Starter = Starter
    MaxId = 2
    MaxWire = 1
PROPERTIES NobodyIsStuck
CHECK_DEADLOCK FALSE
