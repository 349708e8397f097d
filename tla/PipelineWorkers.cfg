SPECIFICATION FairSpec
CONSTANTS
  c1 = c1
  c2 = c2
  t1 = t1
  t2 = t2
  p1 = p1
  p2 = p2
  chat1 = chat1
  search1 = search1
  Consumers = {c1, c2}
  Stable = {c1}
  NoConsumer = NoConsumer
  Routes <- OneRoute
  Tokens = {t1}
  Requests = {p1}
  RawRoutes = {}
  MalformedRoutes = {}
  MaxAlerts = 1
  MaxIngests = 1
  MaxBatch = 2
  StreamMaxLen = 9
  ReadCount = 2
  PendingCount = 1
  DrainCount = 2
  MaxRetries = 2
  MaxStops = 1
  MaxFaults = 1
  Outcomes = {"ok", "fail"}
CHECK_DEADLOCK FALSE
PROPERTIES
  EveryClaimResolved
  EveryAlertSettles
  SettledForGood
INVARIANTS
  RetryBound
  AttemptBound
