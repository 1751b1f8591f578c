SPECIFICATION FairSpec
CONSTANTS
    Procs = {p1, p2}
    MaxLines = 3
    MaxInits = 1
    MaxGen = 1
    CheckEvery = 2
    BufferLen = 2
    Size = 1
    OpenFails = TRUE
    FailFiles = {1}
    Kinds = {"log"}
INVARIANTS
    LossBound
    ReadsInOrder
PROPERTY
    CallsReturn
CHECK_DEADLOCK FALSE
