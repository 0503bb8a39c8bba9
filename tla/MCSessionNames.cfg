SPECIFICATION Spec
CONSTANTS
    Conn = {c1, c2, c3}
    NoConn = NoConn
    Name = {n1}
    Casts <- MCSameName
    Registered = {n1}
    MayBypass = {}
    MaxUsers = 3
    MaxAttempts <- MCOneAttempt
    Patient = TRUE
SYMMETRY Symmetry
INVARIANTS
    OnePlayerPerName
CHECK_DEADLOCK FALSE
