SPECIFICATION MCSpec
CONSTANTS
  t1 = t1
  t2 = t2
  w1 = w1
  None = None
  NoWorker = NoWorker
  Tokens = {t1, t2}
  Workers = {w1}
  Entries = {1, 2}
  Pages <- ItemPages
  Unowned = {}
  StreamMaxLen = 1
  Watermark = 1
  BackfillLimit = 1
  ReadCount = 2
  MaxRetries = 2
  MaxAttempts = 2
  ResetBelow = 2
  MaxFaults = 1
CHECK_DEADLOCK FALSE
INVARIANT PendingAccounted
PROPERTIES BacklogSound
