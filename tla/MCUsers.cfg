SPECIFICATION Spec
CONSTANTS
    Clients = {c1, c2}
    Names = {n1, n2}
    Keys = {k1}
    MaxUuid = 2
    MaxWriters = 2
    MaxFailures = 2
INVARIANTS
    TypeOK
    UsersHaveProfiles
    AcknowledgedIsStored
    IdsAreNotReused
    LockGivenBack
SYMMETRY Symmetry
