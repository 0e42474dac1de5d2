CONSTANTS
  MaxFrames = 2
  OldFrames = 0
  QueueMax = 1
  MaxStore = 2
  OfflineAfter = 2
  ReplayEvery = 2
  KeepProvisional = FALSE
  CacheSettings = {FALSE}
  Settled = {}
  MaxRestarts = 1
SPECIFICATION Spec
CHECK_DEADLOCK FALSE
INVARIANTS FramesAccounted UploadedIsDelivered ProvisionalKeptBack
PROPERTY ImplementsFrameDelivery
