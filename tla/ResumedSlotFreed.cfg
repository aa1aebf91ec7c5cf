SPECIFICATION SchedulerSpec
CONSTANTS
  A = A
  B = B
  Listed <- MCListed
  Cap = 1
  MaxRuns = 3
  MaxReboots = 1
INVARIANTS ResumedSlotFreed
CHECK_DEADLOCK FALSE
