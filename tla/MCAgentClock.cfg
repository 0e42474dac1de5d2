CONSTANTS
  f1 = f1
  Threads = {"main", "uploader"}
  Frames = {f1}
  RefreshS = 1
  MaxTime = 3
  MaxSlips = 1
  MaxStarts = 2
SPECIFICATION Spec
INVARIANTS TypeOK AnchoredTimeRight RestampedRight CorrectedOnce AnchoringCostsOneFrame StrandedExplained
CHECK_DEADLOCK FALSE
