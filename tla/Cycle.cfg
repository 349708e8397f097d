SPECIFICATION Spec
CONSTANTS
  u1 = u1
  u2 = u2
  s1 = s1
  s2 = s2
  s3 = s3
  t1 = t1
  Users = {u1, u2}
  Searches = {s1, s2, s3}
  Tokens = {t1}
  Owner <- Owners
  Limited = {s2}
  Prices = {0, 1, 2, 4}
  OldPrices = {0, 4}
  MaxBatch = 1
  Outcomes = {"ok", "fail", "malformed", "blocked"}
  MaxFaults = 1
  MaxCycles = 2
  NoSearch = NoSearch
INVARIANTS
  ClaimAccounted
  AlertedStaysClaimed
  RepeatedDropHasCause
PROPERTIES
  NoDropSwallowed
CHECK_DEADLOCK FALSE
