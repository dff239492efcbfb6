CONSTANTS
    c1 = c1
    c2 = c2
    c3 = c3
    NoConn = NoConn
    Conns <- TwoConns
    MaxClients = 2
    MaxFds = 3
    Backlog = 1
    Letters <- OneLetter
    Requests <- Talk
    InCap = 4
    Resets = FALSE
SPECIFICATION Spec
SYMMETRY Symmetry
INVARIANTS
    TypeOK
    NoBlockingRecv
    SocketsExact
    OwnName
    LeaveIsHeard
    RostersNested
PROPERTY Refines
