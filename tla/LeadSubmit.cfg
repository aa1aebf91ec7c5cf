SPECIFICATION Spec
CONSTANTS
  NumDealers = 2
  MaxRuns = 2
  MaxAnswers = 3
  MaxCrashes = 1
INVARIANTS OneMailPerApproval RowsTruthful
PROPERTIES RecordedStaysUntouched
CHECK_DEADLOCK FALSE
