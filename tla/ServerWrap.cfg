SPECIFICATION FairSpec
CONSTANTS
    w1 = w1
    w2 = w2
    p1 = p1
    m = m
    Workers = {w1, w2}
    Pushers = {p1}
    Main = m
    AcceptResults = {"ok", "accept_failed", "peer_gone"}
    MaxQueue = 0
    MaxConnId = 1
    MaxConn = 2
    MaxReq = 1
    MaxPush = 1
    MaxStart = 2
CHECK_DEADLOCK FALSE
INVARIANTS
    TableSafe
PROPERTIES
    PushReturns
    LoopEnds
