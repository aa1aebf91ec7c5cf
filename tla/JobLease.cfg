SPECIFICATION FairSpec
CONSTANTS
  Procs = {p1, p2}
  Jobs = {j1}
  Lease = 2
  Free = Free
  Gone = Gone
  MaxFires = 3
  MaxThrows = 1
  MaxCrashes = 2
INVARIANTS OneInLease NoDoubleRun BlockerNotLeaked
PROPERTIES FiresCatchUp
CHECK_DEADLOCK FALSE
