SPECIFICATION FairSpec
CONSTANTS
    Conn = {"c1", "c2"}
    NoConn = "none"
    Name = {"n1", "n2"}
    Casts <- MCCasts
    Registered = {"n1"}
    MayBypass = {}
    MaxUsers = 1
    MaxAttempts <- MCAttempts
    Patient = TRUE
INVARIANTS
    TypeOK
    JoinedWithinLimit
    PlayersFollowClients
    
PROPERTIES
    EveryRequestIsAnswered
CHECK_DEADLOCK FALSE
