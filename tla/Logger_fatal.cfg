SPECIFICATION Spec
CONSTANTS
    Procs = {p1}
    MaxLines = 2
    MaxInits = 0
    MaxGen = 1
    CheckEvery = 2
    BufferLen = 2
    Size = 1
    OpenFails = FALSE
    FailFiles = {}
    Kinds = {"log", "fatal"}
INVARIANT FatalExits
CHECK_DEADLOCK FALSE
