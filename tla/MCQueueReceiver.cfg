SPECIFICATION Spec
CONSTANTS
    Kinds = {"zipkin", "hbase", "flume"}
    Spans = {s1, s2, s3}
    Workers = {w1, w2}
    Capacity = 2
    BatchSize = 2
    MAX_ERRORS = 2
    MaxFails = 2
INVARIANTS NothingLost CloseDelivers
SYMMETRY Symmetry
CHECK_DEADLOCK FALSE
