CONSTANTS
    c1 = c1
    c2 = c2
    c3 = c3
    p1 = p1
    p2 = p2
    NoConn = NoConn
    Conns <- ThreeConns
    Clients <- TwoClients
    MaxClients = 2
    MaxFds = 3
    Backlog = 1
    Letters <- OneLetter
    Requests <- OneName
    InCap = 3
    SendBuf = 2
    MaxActs = 4
    Resets = TRUE
SPECIFICATION MCSpec
INVARIANTS
    SysTypeOK
    RosterExact
PROPERTY JoinIsListed
