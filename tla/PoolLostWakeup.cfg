SPECIFICATION FairSpec
CONSTANTS
    w1 = w1
    w2 = w2
    Workers = {w1, w2}
    MaxQueue = 1
    MaxPush = 1
CHECK_DEADLOCK FALSE
PROPERTIES
    UninitReturns
