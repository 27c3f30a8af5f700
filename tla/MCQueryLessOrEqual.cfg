CONSTANTS
    HalfRange = 4
    NumShards = 2
    SpanIds = {1, 2, 3, 4, 6, 7}
    Times <- mcTimes
    Descriptions = {0, 1}
    Nil = Nil
    BadVal = BadVal
    Written <- mcWritten
    Preds <- mcLessOrEqual
    ContainsRel <- mcContainsRel
    Lims = {2}
    Limits <- mcLimits
    LimRange = 32
    MaxWrites = 1
    MaxPages = 1
SPECIFICATION ReadSpec
INVARIANTS
    LessOrEqualComplete
CHECK_DEADLOCK FALSE
