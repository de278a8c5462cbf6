SPECIFICATION FairSpec
CONSTANTS
    s1 = s1
    s2 = s2
    w1 = w1
    Servers = {s1, s2}
    Workers = {w1}
    NoServer = noserver
    MaxQueue = 0
    Client = client
    Hosts = {s1}
    Strangers = {x}
    MaxCall = 3
CHECK_DEADLOCK FALSE
INVARIANTS
    TypeOK
    OneJobPerServer
    ListedWhileAtWork
    RefusedBound
    RolesWhole
    AtMostOneMore
    CleanExit
PROPERTIES
    StopReturns
    Found
