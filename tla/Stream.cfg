SPECIFICATION FairSpec
CONSTANTS
    Header = 2
    Lengths = {0, 2}
    Room = 5
    MaxPkg = 3
CHECK_DEADLOCK FALSE
INVARIANTS
    TypeOK
    WritesAccounted
    QueueSize
PROPERTIES
    CallbacksCome
    
    
