SPECIFICATION Spec
CONSTANTS
  c1 = c1
  c2 = c2
  t1 = t1
  t2 = t2
  p1 = p1
  p2 = p2
  chat1 = chat1
  search1 = search1
  Consumers = {c1}
  Stable = {c1}
  NoConsumer = NoConsumer
  Routes <- OneRoute
  Tokens = {t1, t2}
  Requests = {p1, p2}
  RawRoutes <- OneRoute
  MalformedRoutes <- OneRoute
  MaxAlerts = 2
  MaxIngests = 2
  MaxBatch = 1
  StreamMaxLen = 1
  ReadCount = 2
  PendingCount = 1
  DrainCount = 2
  MaxRetries = 2
  MaxStops = 0
  MaxFaults = 1
  Outcomes = {"ok", "fail", "failShown", "blocked", "noTarget"}
SYMMETRY RequestSymmetry
CHECK_DEADLOCK FALSE
INVARIANTS
  NoSilentLoss
  NoUncausedRepeat
  LedgerTruthful
