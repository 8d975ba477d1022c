SPECIFICATION Spec
CONSTANTS
    Callers = {c1}
    Commands = {k1}
    EntryPoints = {"mcu", "timed", "imu"}
    NoReply = NoReply
    Nobody = Nobody
    Starter = Starter
    MaxId = 1
    MaxWire = 1
INVARIANT CloseJoinsReader
CHECK_DEADLOCK FALSE
