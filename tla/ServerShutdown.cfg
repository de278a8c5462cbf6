SPECIFICATION FairSpec
CONSTANTS
    w1 = w1
    w2 = w2
    p1 = p1
    m = m
    Workers = {w1, w2}
    Pushers = {p1}
    Main = m
    AcceptResults = {"ok"}
    MaxQueue = 2
    MaxConnId = 1
    MaxConn = 1
    MaxReq = 1
    MaxPush = 0
    MaxStart = 1
CHECK_DEADLOCK FALSE
PROPERTIES
    ShutdownReturns
