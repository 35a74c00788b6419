CONSTANTS
    p1 = p1
    p2 = p2
    Peer = {p1}
    Piece <- Pieces
    Script <- Scripts
    Capacity = 1
    MaxFaults = 1
SPECIFICATION Spec
INVARIANT MessagesWhole
CHECK_DEADLOCK FALSE
