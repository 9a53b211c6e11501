CONSTANTS
    MaxBlocks = 4
    RootMax = 2
    LeafMax = 3
    MaxZeroout = 2
    PBlocks = 4
    Values = {"user"}
    MaxIO = 1
    MaxSpan = 2
    IOSpans = {2}
    FailOps = {"write", "endio", "falloc", "zero", "move"}
    SplitMiddle = FALSE
    MoveHoles = FALSE
    Width = 16
SPECIFICATION Spec
CHECK_DEADLOCK FALSE
INVARIANTS TreeValid BlocksExact NothingWrittenBeyondSize 
