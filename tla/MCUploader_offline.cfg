CONSTANTS
  MaxFrames = 2
  OldFrames = 0
  QueueMax = 1
  MaxStore = 2
  OfflineAfter = 2
  ReplayEvery = 1
  KeepProvisional = TRUE
  CacheSettings = {}
  Settled = {"down"}
  MaxRestarts = 0
SPECIFICATION FairSpec
CHECK_DEADLOCK FALSE
PROPERTY OfflineQueueSpills
