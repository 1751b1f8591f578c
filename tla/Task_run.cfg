SPECIFICATION PartSpec
CONSTANTS
    MaxTasks = 2
    Kinds = {"tcp", "ws", "http", "api"}
    IdModulus = 1
    Protected = TRUE
    MayPanic = TRUE
    t1 = t1
    t2 = t2
    s1 = s1
    s2 = s2
    Types = {t1, t2}
    Servers = {s1, s2}
    Slots = {1, 2}
    TimersProtected = TRUE
INVARIANTS PoolSound RunOutcome UntaggedCauses SingletonExclusive
PROPERTIES RunReturns TimerAlive
CHECK_DEADLOCK FALSE
