SPECIFICATION LimiterFairSpec
CONSTANTS
    CallCount = 4
    InFlightCap = 1
    DailyCap = 2
    MaxRetries = 1
    Interval = 1
    MaxBackoff = 1
    DayLength = 2
    LastSubmit = 2
    MaxTime = 3
INVARIANTS PermitsKept BudgetKept
PROPERTIES CallsSettle
CHECK_DEADLOCK FALSE
