SPECIFICATION FairSpec
CONSTANTS
    o1 = o1
    a1 = a1
    x1 = x1
    s1 = s1
    p1 = p1
    p2 = p2
    Deliveries = {o1, a1, x1, s1}
    TopicOf <- MCTopicOf
    Poison = {o1}
    Processes = {p1, p2}
    MaxCopies = 2
    Traffic <- MCTraffic
    BatchSize = 1
    MaxFaults = 1
    None = None
CHECK_DEADLOCK FALSE
INVARIANTS
    PayloadOnlyWhilePending
    ComplianceNeverLapses
    HealthyDeliveryHandledOnce
PROPERTIES
    ImplementsFencedLease
    AcknowledgedIsHandled
