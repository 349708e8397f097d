SPECIFICATION LimiterFairSpec
CONSTANTS
  BaseDelay = 4
  MaxDelay = 40
  CooldownDur = 64
  CooldownCap = 128
  Window = 40
  JitterSigns <- Signs
  FetchTimes = {0, 1}
  Gaps = {41}
  MaxChallenges = 6
INVARIANTS
  CooldownRespected
  PanicNeedsEarlyWake
PROPERTIES
  BackoffRecovers
