CONSTANTS
    Order <- MCOrder
    Distance <- MCDistance
    MaxDistance = 2
    Increment = 1
    CullDistance = 1
    MaxSimulSends = 1
    MaxTotalSends = 1
    OnDisk = {"b0", "b1"}
    InMemory = {}
    GenDistance = 0
    Nodes = {"n"}
    Ranges = {"near"}
    MaxMoves = 1
SPECIFICATION Spec
INVARIANTS
    SentNeedNotBeSentAgain
CHECK_DEADLOCK FALSE
