CONSTANTS
  f1 = f1
  Threads = {"uploader"}
  Frames = {f1}
  RefreshS = 1
  MaxTime = 3
  MaxSlips = 0
  MaxStarts = 3
SPECIFICATION Spec
INVARIANT EveryProvisionalOfBootExact
CHECK_DEADLOCK FALSE
