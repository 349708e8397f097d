\* Two callers, two sets of search parameters, a cache with room for one.
SPECIFICATION FairSpec
CONSTANTS
  Callers = {c1, c2}
  Keys = {k1, k2}
  Threshold = 2
  MaxFailures = 3
  MaxEntries = 1
INVARIANTS
  OneProbe
  CacheConsistent
PROPERTIES
  Recovers
