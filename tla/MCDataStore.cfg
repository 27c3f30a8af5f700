CONSTANTS
    HalfRange = 2
    NumShards = 2
    SpanIds = {1, 2}
    Times <- mcTimes
    Descriptions = {0}
    Nil = Nil
    h1 = h1
    h2 = h2
    Handlers <- mcHandlers
    Requests <- mcRequests
    BufferSize = 1
    MaxRequests = 2
    MaxRestarts = 1
SPECIFICATION FairSpec
INVARIANTS
    TypeOK
    IndexMatchesData
    NoWriteAfterClose
    LatestAcceptedWins
PROPERTIES
    AcceptedIsDecided
    CloseFinishes
CHECK_DEADLOCK FALSE
