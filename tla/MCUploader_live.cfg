CONSTANTS
  MaxFrames = 2
  OldFrames = 1
  QueueMax = 1
  MaxStore = 2
  OfflineAfter = 2
  ReplayEvery = 2
  KeepProvisional = TRUE
  CacheSettings = {}
  Settled = {"up", "asym", "resting"}
  MaxRestarts = 0
SPECIFICATION FairSpec
CHECK_DEADLOCK FALSE
PROPERTIES BacklogDrains AsymmetricLinkTrips OfflineEnds
