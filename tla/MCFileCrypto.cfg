SPECIFICATION Spec
CONSTANTS
    ChunkSize = 4
    MaxSize = 6
    Sizes = {0, 3, 4, 6}
    UpdateSizes = {2, 4}
    MaxKey = 4
INVARIANTS
    TypeOK
    FilenodeShape
    KeysAreFresh
    FlushedChunksVerify
    IdleFilenodeIsStored
PROPERTIES
    UntouchedChunksSurvive
CHECK_DEADLOCK FALSE
