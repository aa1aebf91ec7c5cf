SPECIFICATION Spec
CONSTANTS
  MaxAttempts = 1
  MaxFrames = 5
  MaxShots = 1
  MaxGates = 0
  MaxDrops = 1
  MaxCrashes = 0
INVARIANTS NoPartOverwritten
CHECK_DEADLOCK FALSE
