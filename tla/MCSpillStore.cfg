CONSTANTS
  Ulids = {1, 2, 3}
  MaxStore = 1
  MaxDowns = 1
SPECIFICATION Spec
CHECK_DEADLOCK FALSE
INVARIANTS TypeOK StampedWhileThere IndexIsDisk BoundedAgain NoStaleStamps
PROPERTY ImplementsFrameStore
