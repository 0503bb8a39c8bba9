SPECIFICATION Spec
CONSTANTS
    Id = {p1, p2}
    NoId = NoId
    Address = {a1, a2}
    NoAddress = NoAddress
    IdsReused = FALSE
    MaxPeers = 2
    MaxEvents = 1
    MaxCommands = 1
SYMMETRY Symmetry
INVARIANTS
    TypeOK
    NoUseAfterFree
    FreedWhenForgotten
    OneAddressOnePeer
    ClientsFollowPeers
CHECK_DEADLOCK FALSE
