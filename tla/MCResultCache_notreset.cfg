SPECIFICATION Spec
CONSTANTS
    None = None
    t1 = t1
    t2 = t2
    a = a
    b = b
    long = long
    Threads = {t1, t2}
    Jobs = {a}
    IdLength <- Lengths
    EndsIn <- Ends
    HexIds = {a}
    Size <- Sizes
    MaxFiles = 1
    MaxBytes = None
    MaxClock = 0
    MaxRequests = 2
    Kills = 0
    Resets = 1
SYMMETRY Alike
INVARIANTS
    FoldersExist
