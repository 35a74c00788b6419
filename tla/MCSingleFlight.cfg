CONSTANTS
    Task = {t1, t2, t3}
    Key = {k1, k2, k3}
SYMMETRY Symmetry
SPECIFICATION Spec
INVARIANTS
    OneFetchPerChunk
    PendingNotCached
    NoWaitCycle
    WaitedChunkAccounted
    PanicNeedsEviction
PROPERTY ReleasedOnlyByInsertion
CHECK_DEADLOCK FALSE
