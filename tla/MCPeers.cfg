SPECIFICATION FairSpec
CONSTANTS
    Addr = {a, b}
    Site = {s, t}
    None = None
    MaxId = 2
    QueueSize = 1
    MaxFaults = 1
INVARIANTS
    SessionsApart
    OneSessionPerAddress
PROPERTIES
    HeardUnlessHalfDead
    WindsDown
CHECK_DEADLOCK FALSE
