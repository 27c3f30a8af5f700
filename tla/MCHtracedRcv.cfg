SPECIFICATION FairSpec
CONSTANTS
    Adders = {a1, a2, a3}
    Flushers = {f1}
    BufLen = 3
    SendThreshold = 1
    FlushInterval = 1
    MaxSendTries = 2
    MaxTicks = 2
    NoOne = NoOne
INVARIANTS NothingLost
PROPERTIES SentBufferIsPrivate FlushSends CallsReturn
