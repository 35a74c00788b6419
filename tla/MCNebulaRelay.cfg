CONSTANTS
    p1 = p1
    p2 = p2
    Peer = {p1, p2}
    Piece <- Pieces
    Script <- Scripts
    Capacity = 1
    MaxFaults = 2
SPECIFICATION FairSpec
INVARIANTS
    FramesValid
    MessagesIntact
    StreamsMatched
    AcceptLoopAlive
    SendersAwaited
PROPERTIES
    AllDelivered
    WaitEndsOrClientGone
CHECK_DEADLOCK FALSE
