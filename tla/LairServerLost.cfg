CONSTANTS
    c1 = c1
    c2 = c2
    c3 = c3
    NoConn = NoConn
    Conns <- TwoConns
    MaxClients = 1
    MaxFds = 2
    Backlog = 2
    Letters <- OneLetter
    Requests <- Talk
    InCap = 4
    Resets = FALSE
SPECIFICATION Spec
PROPERTY NoChatIsLost
