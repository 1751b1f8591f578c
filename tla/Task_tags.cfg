SPECIFICATION Spec
CONSTANTS
    MaxTasks = 2
    Kinds = {"tcp", "ws", "http", "api"}
    IdModulus = 2
    Protected = TRUE
    MayPanic = FALSE
INVARIANTS LinesTagged
CHECK_DEADLOCK FALSE
