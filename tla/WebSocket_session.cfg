SPECIFICATION FairSpec
CONSTANTS
    p = p
    q = q
    r = r
    w = w
    c = c
    Protocols = {p, q}
    NoProtocol = NoProtocol
    Offers <- MCOffers
    Configured <- MCConfigured
    Readers = {r}
    Writers = {w}
    Closers = {c}
    NoOne = NoOne
    Frames <- MCFrames
    MaxControl = 1
    MaxEvents = 4
INVARIANTS
    HandshakeAgrees
    Intact
    OutboundWhole
CHECK_DEADLOCK FALSE
PROPERTY CallsReturn
