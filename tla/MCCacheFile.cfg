CONSTANTS
    a = a
    b = b
    Data <- Contents
    Size <- Lengths
    Limits = {2, 3}
    MaxCrashes = 2
    MaxErrors = 1
    MaxRot = 1
SPECIFICATION FairSpec
INVARIANTS
    FileNeverTorn
    DirtyNotForgotten
    CacheSound
PROPERTIES
    RestoresRecency
    DirtyReachesDisk
CHECK_DEADLOCK FALSE
