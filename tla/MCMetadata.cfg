SPECIFICATION Spec
CONSTANTS
    Ops = {o1}
    Kinds = {"read", "update", "encrypt", "decrypt"}
    MaxTime = 2
    MaxWrites = 4
    MaxWriters = 2
INVARIANTS
    TypeOK
    LocksReleased
PROPERTIES
    StoresBuildOnTheLatest

