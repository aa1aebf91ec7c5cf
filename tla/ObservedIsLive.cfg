SPECIFICATION Spec
CONSTANTS
  c1 = c1
  c2 = c2
  s1 = s1
  s2 = s2
  Cars = {c1}
  Slots = {s1}
  SrpSources = {srp}
  LinkSource = link
  AggSource = agg
  NoSource = NoSource
  Floor = 2
  Percent = 34
  MaxScans = 4
  MaxCrashes = 0
PROPERTIES ObservedIsLive
CHECK_DEADLOCK FALSE
