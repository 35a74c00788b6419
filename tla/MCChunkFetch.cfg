CONSTANTS
    t1 = t1
    t2 = t2
    t3 = t3
    Task = {t1, t2, t3}
    Data <- Contents
    Size <- Lengths
    Program <- Programs
    Payload <- Payloads
    Loaded <- LoadedFiles
    MaxSize = 3
    BatchSize = 2
    MaxFaults = 1
SPECIFICATION FairSpec
INVARIANTS
    YieldsPayload
    CacheIntegrity
    NothingUnprefetched
PROPERTIES
    ImplementsSingleFlight
    EndsOrBehindFailure
CHECK_DEADLOCK FALSE
