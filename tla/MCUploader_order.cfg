CONSTANTS
  MaxFrames = 3
  OldFrames = 0
  QueueMax = 2
  MaxStore = 2
  OfflineAfter = 1
  ReplayEvery = 1
  KeepProvisional = FALSE
  CacheSettings = {FALSE}
  Settled = {}
  MaxRestarts = 0
SPECIFICATION Spec
CHECK_DEADLOCK FALSE
INVARIANTS TypeOK CaptureOrder OldestFirst
