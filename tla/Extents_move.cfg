CONSTANTS
    MaxBlocks = 3
    RootMax = 1
    LeafMax = 3
    MaxZeroout = 0
    PBlocks = 3
    Values = {"user"}
    MaxIO = 0
    MaxSpan = 3
    IOSpans = {}
    FailOps = {}
    SplitMiddle = FALSE
    MoveHoles = TRUE
    Width = 16
SPECIFICATION Spec
CHECK_DEADLOCK FALSE
INVARIANTS MoveReportsLength
