CONSTANTS
    t1 = t1
    t2 = t2
    t3 = t3
    Task = {t1, t2}
    Data <- Contents
    Size <- Lengths
    Program <- Programs
    Payload <- Payloads
    Loaded <- LoadedFiles
    MaxSize = 5
    BatchSize = 2
    MaxFaults = 1
SPECIFICATION FairSpec
PROPERTY EveryWaitEnds
CHECK_DEADLOCK FALSE
