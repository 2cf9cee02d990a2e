SPECIFICATION Spec
CONSTANTS
    c1 = c1
    c2 = c2
    p1 = p1
    p2 = p2
    s1 = s1
    s2 = s2
    shipstation = shipstation
    shopify = shopify
    l1 = l1
    l2 = l2
    r1 = r1
    r2 = r2
    Creds = {c1, c2}
    NoCred = NoCred
    Processes = {p1}
    NoProcess = NoProcess
    MaxFailures = 4
    MaxDay = 3
    Slots = {s1}
    Look = 1
    DeepLook = 3
    Cadence = 2
    FirstLook = 1
    Sources = {shipstation, shopify}
    FirstSource = shipstation
    Labels = {l1, l2}
    Readers = {r1, r2}
    NoReader = NoReader
    Parcels = {1, 2}
    Items <- MCItems
    Bills = {b1}
    NoLabel = NoLabel
    Stories <- MCStories
INVARIANTS
    OutagesAreAlerted
    StaleProfitIsSeen
    CarrierCostIsChosen
PROPERTY
    DueDaysArrive
CHECK_DEADLOCK FALSE
