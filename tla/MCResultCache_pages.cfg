SPECIFICATION Spec
CONSTANTS
    None = None
    t1 = t1
    t2 = t2
    a = a
    b = b
    long = long
    Threads = {t1, t2}
    Jobs = {a, long}
    IdLength <- Lengths
    EndsIn <- Ends
    HexIds = {a}
    Size <- Sizes
    MaxFiles = 1
    MaxBytes = 3
    MaxClock = 1
    MaxRequests = 4
    Kills = 1
    Resets = 1
SYMMETRY Alike
INVARIANTS
    TypeOK WholeReport OwnReport EvictionCostsNoAnswer BoundedByTrims NoPartLeft
