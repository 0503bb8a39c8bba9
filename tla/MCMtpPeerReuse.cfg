SPECIFICATION Spec
CONSTANTS
    Id = {p1}
    NoId = NoId
    Address = {a1}
    NoAddress = NoAddress
    IdsReused = TRUE
    MaxPeers = 2
    MaxEvents = 0
    MaxCommands = 0
INVARIANTS
    ClientDoesNotExistYet
CHECK_DEADLOCK FALSE
