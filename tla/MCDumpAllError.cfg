CONSTANTS
    MaxId = 5
    Ids = {0, 1, 2, 4}
    Lim = 2
    ChanSize = 1
    MaxWrites = 0
SPECIFICATION Spec
INVARIANTS
    SuccessMeansAll
CHECK_DEADLOCK FALSE
