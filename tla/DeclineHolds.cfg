SPECIFICATION Spec
CONSTANTS
  NumDealers = 2
  MaxRuns = 2
  MaxAnswers = 3
  MaxCrashes = 1
PROPERTIES DeclineHolds
CHECK_DEADLOCK FALSE
