CONSTANTS
  MaxFrames = 2
  OldFrames = 0
  QueueMax = 1
  MaxStore = 2
  OfflineAfter = 2
  ReplayEvery = 1
  KeepProvisional = TRUE
  CacheSettings = {FALSE}
  Settled = {}
  MaxRestarts = 0
SPECIFICATION Spec
CHECK_DEADLOCK FALSE
INVARIANT CorrectedOnceAnchored
