SPECIFICATION FairSpec
CONSTANTS
  MaxAttempts = 2
  MaxFrames = 3
  MaxShots = 1
  MaxGates = 1
  MaxDrops = 2
  MaxCrashes = 1
INVARIANTS OneEnd NothingLostOrDoubled TrueEnding
PROPERTIES TurnLands GateShows
CHECK_DEADLOCK FALSE
