CONSTANTS
    WorldSize = 5
    AuxSize = 1
    BlockSize = 2
    Limit = 2
SPECIFICATION FairSpec
INVARIANTS
    TypeOK
    EveryBlockAccounted
    WindowKeptFull
    WorldIntact
PROPERTY DownloadEnds
