SPECIFICATION ReaderSpec
CONSTANTS
    Short = {a, b}
    Long = {c, d, e}
    Names <- MCNames
    RecLen <- MCRecLen
    NoName = NoName
    Capacity = 2
    MaxId = 9
INVARIANTS
    TypeOK
    BucketsShape
    FailedLookupIsMissing
    
    LoadsOldOrNew
    LoadsAreAtomic

    
SYMMETRY NameSymmetry
