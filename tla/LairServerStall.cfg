CONSTANTS
    c1 = c1
    c2 = c2
    c3 = c3
    NoConn = NoConn
    Conns <- TwoConns
    MaxClients = 2
    MaxFds = 3
    Backlog = 1
    Letters <- OneLetter
    Requests <- Names
    InCap = 3
    Resets = FALSE
SPECIFICATION ServerFairSpec
PROPERTY SendReturns
