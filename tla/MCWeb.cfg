CONSTANTS
  Parts = {"events", "model", "collection", "history", "pages", "tree", "canvas",
           "modal", "tooltip", "scroll", "collapse", "carousel", "tab", "buttons", "criteria", "viewer"}
  Objs = {o}
  Listeners = {l}
  Handlers = {f, g}
  NoArg = NoArg
  MaxEventOps = 4
  MaxDepth = 2
  Attrs = {"id", "a"}
  AttrValues = {1}
  Unset = 0
  Rejected <- mcRejected
  MaxModelOps = 3
  Members = {m1, m2, m3}
  MemberIds = {1, 2}
  NewModel = NewModel
  MaxSetOps = 3
  Hashes = {"", "/about", "about", "search", "x"}
  Strip <- mcStrip
  Routes <- mcRoutes
  Tests <- mcTests
  MaxMoves = 3
  Spans = 3
  Lim = 2
  Preds = {"begin", "duration", "spanid", "description"}
  PredOp <- mcPredOp
  PredValue <- mcPredValue
  PredSpans <- mcPredSpans
  MaxViews = 2
  MaxClicks = 4
  SpanIds = {1, 2, 3}
  AskedTimes = {0, 320}
  MINIMUM_TIME_SPAN = 96
  MaxNodes = 6
  MaxTimeOps = 2
  MaxTreeOps = 5
  Buttons = {a, b}
  Here = Here
  Far = Far
  Outside = Outside
  MaxMouse = 9
  MaxModals = 4
  MaxTips = 7
  Panels = {1, 2, 3}
  N = 3
  MaxCalls = 5
  Tabs = {t1, t2, t3}
  First = t1
  Radios = {r1, r2}
  Menus = {n1, n2}
  MaxWidgetClicks = 5
  Height = 4
  MaxScrolls = 6
  LastDate = 2
  MaxInt64 = 4
  LastTime = 2
  Width = 700
SPECIFICATION Spec
INVARIANTS Delivery ChangeTracking Indexed RightPage SearchPages Canvas ClickOnce WidgetsSettle
PROPERTY ChosenOnly
CHECK_DEADLOCK FALSE
