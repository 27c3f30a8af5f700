CONSTANTS
  NoData = NoData
  NoFn = NoFn
  Fns = {a, b}
  Values = {v, w}
  MaxOps = 5
  Roots = {p, q}
  Derived = {r}
  Users = {u}
  Results = {w}
  MaxCalls = 3
  Requests = {r1, r2}
  MaxThrows = 1
  Root = 2
  Guids = {1}
  Namespaces = {"", "v"}
  MaxSteps = 3
  MaxDepth = 2
  Animated = {e1, e2}
  MaxQueueOps = 4
  Numbers = {0, 1, 2}
  Size = 3
  Nodes = {1, 2, 3}
  Hole = Hole
  Wait = 3
  Jump = 4
  MaxTimed = 4
  MaxTime = 8
  ParseYears = {4, 99, 1900, 1969, 1970, 2000}
  DayYears = {2000, 2009}
SPECIFICATION Spec
INVARIANTS BatchExact Derivation OneAnswer Bookkeeping QueuesInOrder Algorithms TimersExact
PROPERTIES IsPromise Answered
CHECK_DEADLOCK FALSE
