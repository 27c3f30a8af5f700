SPECIFICATION Spec
CONSTANTS
    Spans = {s1, s2, s3, s4}
    deque = 3
    maxToSendAtATime = 2
    Period = 2
    MaxFlushes = 2
    MaxDeaths = 1
    Closers = {c1, c2}
    array = 2
    WriteV = 1
    NoOne = NoOne
    Newline = Newline
    Kinds = {"zipkin", "hbase", "flume"}
    QueueSpans = {s1, s2}
    Workers = {w1}
    Capacity = 2
    BatchSize = 2
    MAX_ERRORS = 2
    MaxFails = 2
    MaxId = 5
    Ids = {0, 1, 2, 4}
    Lim = 2
    ChanSize = 1
    MaxWrites = 1
INVARIANTS ExactlyOnePlace CloseCompletes FilesExact
PROPERTIES AcceptedIsDelivered EverythingEnds
CHECK_DEADLOCK FALSE
