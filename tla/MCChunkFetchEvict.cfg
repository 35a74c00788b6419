CONSTANTS
    t1 = t1
    t2 = t2
    t3 = t3
    Task = {t1, t2, t3}
    Data <- Contents
    Size <- Lengths
    Program <- Programs
    Payload <- Payloads
    Loaded <- LoadedFiles
    MaxSize = 3
    BatchSize = 2
    MaxFaults = 0
SPECIFICATION Spec
INVARIANT WokenFindsChunks
CHECK_DEADLOCK FALSE
