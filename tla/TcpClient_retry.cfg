SPECIFICATION Spec
CONSTANTS
    p1 = p1
    p2 = p2
    a1 = a1
    NoReq = NoReq
    Clients = {p1, p2}
    Addrs = {a1}
    Kinds = {"twoWay", "oneWay"}
    MaxCalls = 3
    MaxConns = 3
    MaxBadConnRetries = 2
    Limits = {2}
    OneWayReplies = TRUE
    SocketOptionsFail = FALSE
INVARIANTS ExclusiveOwnership UsableConnections OpenBound OwnResponse RetryBound
SYMMETRY Symmetry
CHECK_DEADLOCK FALSE
