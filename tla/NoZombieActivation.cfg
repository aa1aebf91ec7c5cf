SPECIFICATION Spec
CONSTANTS
  r1 = r1
  r2 = r2
  r3 = r3
  p1 = p1
  a = a
  b = b
  Runs = {r1, r2}
  Profiles = {p1}
  NoProfile = NoProfile
  NoRun = NoRun
  ProfileOf <- MCProfileOf
  Bodies = {a, b}
  NoBody = NoBody
  MaxGates = 2
  MaxCrashes = 2
  RejectedRow = {}
  DbFaults = FALSE
SYMMETRY Permuted
INVARIANTS NoZombieActivation
CHECK_DEADLOCK FALSE
