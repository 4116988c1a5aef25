SPECIFICATION Spec
CONSTANTS
    Ops = {o1, o2}
    Kinds = {"encrypt", "decrypt"}
    MaxTime = 1
    MaxWrites = 4
    MaxWriters = 2
INVARIANT DeferredFlushIsOnTheWay

