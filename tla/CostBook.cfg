SPECIFICATION Spec
CONSTANTS
    None = None
    single = single
    pack = pack
    case = case
    LastInstant = 2
    MaxDepth = 8
    Variants = {single, pack, case}
    Priced = {single}
    OpeningCost = 1
    Mappable <- Circular
    Drawn <- Nested
    Detectable <- Nested
    Quantities = {2}
    DetectedQuantity = 3
    Costs = {1, 2}
    Workers = {w1, w2}
    Requests = {r1}
    Budgets <- Alternatives
SYMMETRY Symmetry
CHECK_DEADLOCK FALSE
INVARIANTS
    PackHistoryIsDerived
    DerivedCostsReachHistory
    SoleWriterKeepsHead
PROPERTIES
    DirectCostsSurvive
