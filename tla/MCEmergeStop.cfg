CONSTANTS
    Block = {"b1"}
    Chunk = {"c1"}
    ChunkOf <- MCChunkOf
    NumThreads = 1
    Peer = {"p"}
    NoPeer = "none"
    OnDisk = {}
    OverLimit = {}
    AtMapgenLimit = {}
    QLimitTotal = 3
    QLimitDiskonly = 2
    QLimitGenerate = 1
    CallbacksAsk = TRUE
    Unloadable = {}
    MaxRequests = 2
SPECIFICATION FairSpec
PROPERTIES
    StopEnds
CHECK_DEADLOCK FALSE
