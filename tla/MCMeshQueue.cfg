SPECIFICATION FairSpec
CONSTANTS
    Block = {b1, b2}
    Worker = {w1, w2}
    NoBlock = NoBlock
    Urgencies = {TRUE, FALSE}
    MaxChanges = 3
INVARIANTS
    TypeOK
    OneThreadPerBlock
    AcksCarried
    BlocksStayLoaded
    UrgentIsQueued
    EachQueueInOrder
    OnlyOvertakenMeshesAreOld
PROPERTIES EventuallyAcked
CHECK_DEADLOCK FALSE
