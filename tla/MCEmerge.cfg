CONSTANTS
    Block = {"b1", "b2", "b3"}
    Chunk = {"c1", "c2"}
    ChunkOf <- MCChunkOf
    NumThreads = 2
    Peer = {"p"}
    NoPeer = "none"
    OnDisk = {}
    OverLimit = {"b3"}
    AtMapgenLimit = {}
    QLimitTotal = 3
    QLimitDiskonly = 2
    QLimitGenerate = 1
    CallbacksAsk = TRUE
    Unloadable = {"b2"}
    MaxRequests = 2
SPECIFICATION FairSpec
INVARIANTS
    TypeOK
    CallbacksOnce
    BooksAgree
    OneMakerPerChunk
PROPERTIES
    EveryCallbackRuns
    WantedIsMade
    StopEndsUnlessModsAsk
CHECK_DEADLOCK FALSE
