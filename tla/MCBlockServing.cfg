CONSTANTS
    Worlds <- MCWorlds
    LevelNames <- MCLevelNames
    RequestHeaders <- MCRequestHeaders
    OtherPackets <- MCOtherPackets
    Multiplier = 110
    BlockSize = 96
    Capacity = 1
    MaxFailures = 1
SPECIFICATION FairSpec
INVARIANTS
    BlocksRight
    WorldAsAnnounced
    NoneOverlooked
PROPERTY RequestsAnswered
