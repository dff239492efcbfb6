CONSTANTS
    c1 = c1
    c2 = c2
    c3 = c3
    NoConn = NoConn
    Conns <- ThreeConns
    MaxClients = 2
    MaxFds = 2
    Backlog = 1
    Letters <- OneLetter
    Requests <- Names
    InCap = 3
    Resets = TRUE
SPECIFICATION Spec
SYMMETRY Symmetry
INVARIANTS
    NoBlockingRecv
    SocketsExact
    LeaveIsHeard
    RostersNested
