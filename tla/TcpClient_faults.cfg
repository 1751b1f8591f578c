SPECIFICATION FairSpec
CONSTANTS
    p1 = p1
    p2 = p2
    a1 = a1
    a2 = a2
    NoReq = NoReq
    Clients = {p1, p2}
    Addrs = {a1, a2}
    Kinds = {"twoWay", "oneWay"}
    MaxCalls = 2
    MaxConns = 2
    MaxBadConnRetries = 2
    Limits = {0, 1}
    OneWayReplies = FALSE
    SocketOptionsFail = TRUE
PROPERTIES CallReturns ImplementsOwnership
CHECK_DEADLOCK FALSE
