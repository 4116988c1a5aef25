SPECIFICATION FairSpec
CONSTANTS
    Ops = {o1, o2}
    Kinds = {"read", "encrypt"}
    MaxTime = 1
    MaxWrites = 3
    MaxWriters = 2
PROPERTIES
    VersionsGrow
    OperationsEnd
