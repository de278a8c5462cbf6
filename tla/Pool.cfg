SPECIFICATION FairSpec
CONSTANTS
    w1 = w1
    w2 = w2
    w3 = w3
    Workers = {w1, w2, w3}
    MaxQueue = 1
    MaxPush = 4
CHECK_DEADLOCK FALSE
INVARIANTS
    TypeOK
    StartedInOrder
    NoMissedJob
    ExitSeen
PROPERTIES
    JobsStart
    ImplementsPool
