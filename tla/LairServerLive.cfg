CONSTANTS
    c1 = c1
    c2 = c2
    c3 = c3
    NoConn = NoConn
    Conns <- TwoConns
    MaxClients = 1
    MaxFds = 2
    Backlog = 2
    Letters <- OneLetter
    Requests <- Arrivals
    InCap = 3
    Resets = TRUE
SPECIFICATION FairSpec
PROPERTIES
    PendingIsServed
    GoneIsDropped
    InterruptStops
