SPECIFICATION Spec
CONSTANTS
    None = None
    f1 = f1
    f2 = f2
    f3 = f3
    Files = {f1, f2, f3}
    ParallelUploads = 2
CHECK_DEADLOCK FALSE
INVARIANT
    NothingLeftBehind
