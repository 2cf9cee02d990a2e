SPECIFICATION RestateFairSpec
CONSTANTS
    LastMonth = 2
    Trading = {1, 2}
    MaxRuns = 2
    MaxCalls = 2
    Budgets <- Alternatives
CHECK_DEADLOCK FALSE
INVARIANTS
    MovedMonthsAreFrozen
    AskedIsApplied
    UndisturbedTrailIsExact
PROPERTIES
    RestatementsSettle
