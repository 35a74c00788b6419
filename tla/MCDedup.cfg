CONSTANTS
    Inputs <- MCInputs
    MIN_CHUNK_SIZE = 1
    MAX_CHUNK_SIZE = 3
    CHUNK_MASK = 4
    OFFSET = 31
    MULT = 37
    WINDOW_SIZE = 2
    Modulus = 256
    MIN_CHUNKS_IN_LIST = 2
    MAX_CHUNKS_IN_LIST = 3
    MINIMIZE_THRESHOLD = 3
    Marked <- MCMarked
    MAX_BLOCK_SIZE = 4
    Kinds = {"global", "factory", "dyson"}
SPECIFICATION PacketSpec
INVARIANTS
    RoundTrip
    SizesBounded
    HashIsOfWindow
    PacketRoundTrip
CHECK_DEADLOCK FALSE
