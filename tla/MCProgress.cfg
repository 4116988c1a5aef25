SPECIFICATION FairSpec
CONSTANTS
    Clients = {c1, c2, c3}
    Dirs = {d1, d2, d3}
    Names = {a}
    Kinds = {"hardlink", "create", "rename"}
    MaxUuid = 1
    MaxLinks = 3
    MaxFailures = 0
PROPERTIES
    OperationsEnd
CHECK_DEADLOCK FALSE
