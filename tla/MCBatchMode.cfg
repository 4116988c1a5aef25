SPECIFICATION FairSpec
CONSTANTS
    Objects = {o1}
    MaxWrites = 3
    MaxFailures = 1
INVARIANTS
    TypeOK
    NothingForgotten
    ReadsLatest
PROPERTIES
    ThreadsEnd
CHECK_DEADLOCK FALSE
