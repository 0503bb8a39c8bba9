SPECIFICATION Spec
CONSTANTS
    Block = {b1}
    Worker = {w1}
    NoBlock = NoBlock
    Urgencies = {TRUE, FALSE}
    MaxChanges = 2
INVARIANTS
    MeshUpToDate
CHECK_DEADLOCK FALSE
