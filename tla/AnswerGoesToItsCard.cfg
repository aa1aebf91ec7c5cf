SPECIFICATION Spec
CONSTANTS
  NumDealers = 2
  MaxRuns = 2
  MaxAnswers = 3
  MaxCrashes = 0
PROPERTIES AnswerGoesToItsCard
CHECK_DEADLOCK FALSE
