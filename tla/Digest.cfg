CHECK_DEADLOCK FALSE
SPECIFICATION FairDelivery
CONSTANTS
  MaxItems = 2
  MaxPending = 1
  MaxFaults = 1
  Endpoints = {e1, e2}
  MaxMessageLen = 5
  MaxPushLen = 5
  SepLen = 1
  LineLen = 2
  TelegramMaxRetries = 1
  MaxTroubles = 2
  HeaderLen = 1
  ItemLen = 2
  BatchItems = {2}
  AlertLens = {1, 3, 5}
  DailyLen = 8
  Jobs = {"digest", "daily", "alert"}
  DayLen = 4
  Days = 2
  MaxMishaps = 1
INVARIANTS
  NothingLost
  RepeatsExplained
  SentWhole
PROPERTIES
  EveryItemLeaves
