SPECIFICATION Spec
CHECK_DEADLOCK FALSE
CONSTANTS
    MaxSizes <- MCSizes
    Ints <- MCInts
    Strings <- MCStrings
    Blocks <- MCBlocks
    MAX_STRING_CHARS = 2
    MaxReads = 2
    CMD_HASH_SIZE = 2
    HashString <- Cmd_HashString
    Names <- MCNames
    Funcs = {f, g}
    NULL = NULL
    MAX_CMD_TOKENS = 2
    MAX_CMD_LENGTH = 7
    MAX_CMD_BUFFER = 11
    MaxInput = 6
    Bare <- MCBare
    Quoted <- MCQuoted
    Gaps <- MCGaps
    Commands <- MCCommands
    MaxWords = 3
    MaxQueued = 2
    Handles = {h1, h2}
    INVALID = INVALID
    CONNECT_TIMEOUT_SEC = 3
    MaxTries = 3
INVARIANTS
    MsgTypeOK ReadBack OverrunOnlyWide
    TableIsMap
    RunsWhatWasTyped TokensFit BufferHoldsLines
    ConnTypeOK AttemptClean
PROPERTY AttemptEnds
