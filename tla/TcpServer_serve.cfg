SPECIFICATION PartSpec
CONSTANTS
    s1 = s1
    Stoppers = {s1}
    MaxConns = 2
    MaxRequests = 1
    KeepAliveFails = TRUE
    g1 = g1
    g2 = g2
    NoSender = NoSender
    Senders = {g1, g2}
    MaxPackets = 3
    Sizes = {0, 1, 3}
    DefaultPacketSize = 2
    HeadModulus = 4
    Users = {g1, g2}
    Capacity = 2
    Increment = 2
    MaxAsk = 3
    MaxTick = 4
    MaxGiven = 9
INVARIANTS HookOrder StopDrains PanicCauses WholePackets RateKept BurstBound
PROPERTIES StopReturns SendsComplete
CHECK_DEADLOCK FALSE
