SPECIFICATION Spec
CONSTANTS
  c1 = c1
  c2 = c2
  s1 = s1
  s2 = s2
  Cars = {c1, c2}
  Slots = {s1, s2}
  SrpSources = {srp}
  LinkSource = link
  AggSource = agg
  NoSource = NoSource
  Floor = 2
  Percent = 34
  MaxScans = 3
  MaxCrashes = 1
SYMMETRY Permuted
PROPERTIES NoTwinsMade SeenStaysLive RetiredWasAbsent
CHECK_DEADLOCK FALSE
