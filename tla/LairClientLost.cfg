CONSTANTS
    MaxFds = 2
    Feed <- TwoUsers
    InCap = 7
    MaxName = 1
    MaxCount = 2
SPECIFICATION Spec
INVARIANT ConnectedHasSocket
