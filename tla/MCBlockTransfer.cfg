CONSTANTS
    Order <- MCOrder
    Distance <- MCDistance
    MaxDistance = 2
    Increment = 1
    CullDistance = 1
    MaxSimulSends = 1
    MaxTotalSends = 1
    OnDisk = {"b0", "b1"}
    InMemory = {"b0", "b1"}
    GenDistance = 0
    Nodes = {"n"}
    Ranges = {"near", "far"}
    MaxMoves = 2
SPECIFICATION FairSpec
INVARIANTS
    TypeOK
    
PROPERTIES
    DroppedChangeIsMadeUpFor
    
CHECK_DEADLOCK FALSE
