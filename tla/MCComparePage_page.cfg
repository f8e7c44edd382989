SPECIFICATION Spec
CONSTANTS
    None = None
    Blocks = {"x", "y", "z"}
    Graph <- Functions
    Cycles <- CyclesOf
    LoopAnswers <- AnswersOf
    Partner <- Matches
    Place <- Layout
    Fit <- Fits
    Middle = 4
    Pans = {2}
    Points = {0, 4}
    MaxScale = 4
    MaxOffset = 12
    MaxInputs = 5
CHECK_DEADLOCK FALSE
INVARIANTS
    Decorated InStep FittedOnScreen EdgesFollowBlocks CombinedDrawnOnce
PROPERTIES
    SyncKeepsOffset
