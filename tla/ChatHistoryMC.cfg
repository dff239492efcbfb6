CONSTANTS
    MAX_CHAT_MESSAGES = 4
    Senders = {1}
    Texts <- TwoTexts
    Sizes <- Windows
    MaxArrivals = 5
SPECIFICATION Spec
INVARIANTS
    TypeOK
    LogIsRecent
    TopIsReached
    GapsBehindLong
