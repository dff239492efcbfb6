CONSTANTS
    c1 = c1
    c2 = c2
    c3 = c3
    NoConn = NoConn
    Conns <- TwoConns
    MaxClients = 2
    MaxFds = 3
    Backlog = 2
    Letters <- OneLetter
    Requests <- Names
    InCap = 3
    Resets = TRUE
SPECIFICATION Spec
INVARIANT NeverKilled
