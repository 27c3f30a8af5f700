SPECIFICATION Spec
CONSTANTS
    Adders = {a1, a2}
    Flushers = {f1}
    BufLen = 1
    SendThreshold = 1
    FlushInterval = 1
    MaxSendTries = 2
    MaxTicks = 1
    NoOne = NoOne
INVARIANTS CopiesWithLockAndSpace
