SPECIFICATION FairSpec
CONSTANTS
    SeqnumMax = 13
    SeqnumInitial = 12
    MaxReliableWindow = 7
    WindowSizes = {1, 4}
    MaxRequeued = 1
    MaxChunks = 4
    MaxAhead = 6
    MaxAge = 6
    MaxSubmitted = 4
    Lossy = TRUE
PROPERTIES
    ImplementsFairFifo
    EventuallyDrained
CHECK_DEADLOCK FALSE
