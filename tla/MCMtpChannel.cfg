SPECIFICATION Spec
CONSTANTS
    SeqnumMax = 13
    SeqnumInitial = 10
    MaxReliableWindow = 7
    WindowSizes = {2, 4}
    MaxRequeued = 2
    MaxChunks = 2
    MaxAhead = 6
    MaxAge = 7
    MaxSubmitted = 12
    Lossy = FALSE
INVARIANTS
    TypeOK
    InOrder
    AckedIsHeld
    WindowTellsNewFromOld
    NothingForgotten
PROPERTIES
    ImplementsFifo
CHECK_DEADLOCK FALSE
