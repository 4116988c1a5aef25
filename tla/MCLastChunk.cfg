SPECIFICATION Spec
CONSTANTS
    ChunkSize = 4
    MaxSize = 6
    Sizes = {0, 3, 4, 6}
    UpdateSizes = {2, 4}
    MaxKey = 5
INVARIANT LastChunkIsNotVerified
CHECK_DEADLOCK FALSE
