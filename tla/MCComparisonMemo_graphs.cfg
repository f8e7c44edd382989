SPECIFICATION Spec
CONSTANTS
    None = None
    Gone = Gone
    t1 = t1
    t2 = t2
    small = small
    large = large
    Threads = {t1, t2}
    Pairs = {1}
    Contents = {small, large}
    Weigh <- Weights
    MaxWeight = 3
    MaxRequests = 3
    MaxChanges = 2
    Resets = 1
SYMMETRY Alike
INVARIANTS
    TypeOK WithinBound OwnComparison ResetForgets
