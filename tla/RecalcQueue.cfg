SPECIFICATION FairSpec
CONSTANTS
    r1 = r1
    r2 = r2
    w1 = w1
    w2 = w2
    k1 = k1
    Requests = {r1, r2}
    Keys = {k1}
    NoKey = NoKey
    KeyOf <- OneKey
    Workers = {w1, w2}
    NoRow = NoRow
    MaxAttempts = 2
    MaxFaults = 1
CHECK_DEADLOCK FALSE
INVARIANTS
    OutcomeIsOfLatestLease
    KeyHeldByOutstandingWork
    HealthyJobRunsAlone
PROPERTIES
    ImplementsFencedLease
    EveryJobSettles
