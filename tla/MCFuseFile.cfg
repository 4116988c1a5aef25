SPECIFICATION Spec
CONSTANTS
    Threads = {t1, t2}
    Files = {f1, f2}
    Names = {n1, n2}
    NoThread = NoThread
    ChunkSize = 2
    MaxSize = 3
    Sizes = {0, 3}
    WriteOffsets = {1, 2}
    ReadOffsets = {0}
    MaxWrites = 2
    MaxEvents = 1
INVARIANTS
    TypeOK
    UnstoredStaysDirty
    ClosedIsStored
    CacheIsCurrent
    NobodyStuck
SYMMETRY Symmetry
CHECK_DEADLOCK FALSE
