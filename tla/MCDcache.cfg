SPECIFICATION Spec
CONSTANTS
    d0 = d0
    d1 = d1
    f1 = f1
    f2 = f2
    a = a
    b = b
    None = None
    Dirs = {d0, d1}
    Files = {f1, f2}
    Names = {a, b}
    Root = d0
    Volume <- MCVolume
    MaxDentries = 4
    MaxEvents = 3
INVARIANTS
    TypeOK
    TreeIsSound
    ToldChildrenAgree
