SPECIFICATION Spec
CONSTANTS
    d1 = d1
    d2 = d2
    d3 = d3
    d4 = d4
    c1 = c1
    c2 = c2
    s1 = s1
    s2 = s2
    v1 = v1
    v2 = v2
    NoOne = NoOne
    NoShip = NoShip
    Orders = {1, 2, 3}
    Shoppers = {c1, c2}
    Ships = {s1, s2}
    Requests = {d1, d2, d3, d4}
    Readers = {d1, d2, d3, d4}
    Deliveries = {d1, d2, d3, d4}
    Term = 1
    MaxDay = 2
    Variants = {v1, v2}
    Prices = {1, 2}
    MaxClock = 4
    MaxCrashes = 1
    Stories <- MCStories
CHECK_DEADLOCK FALSE
INVARIANTS
    ErasedStaysErased
    SummariesAgree
    CatalogueCatchesUp
PROPERTIES
    SourceClockNeverRunsBack
