SPECIFICATION Spec
CONSTANTS
    Clients = {c1, c2}
    Dirs = {d1, d2}
    Names = {a}
    Kinds = {"create", "mkdir", "symlink", "remove", "hardlink", "rename"}
    MaxUuid = 2
    MaxLinks = 2
    MaxFailures = 2
INVARIANTS
    TypeOK
    EntriesHaveFiles
    SymlinksHaveTargets
PROPERTIES
    EntriesSurvive
SYMMETRY Symmetry
CHECK_DEADLOCK FALSE
