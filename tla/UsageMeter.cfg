SPECIFICATION MeterSpec
CONSTANTS
    o1 = o1
    o2 = o2
    o3 = o3
    o4 = o4
    o5 = o5
    again = again
    Orders = {o1, o2, o3, o4, o5}
    Deliveries = {o1, o2, o3, o4, o5, again}
    OrderOf <- MCOrderOf
    SoftLimit = 0
    HardLimit = 5
    Batch = 3
    Cap = 6
    Slips = {2}
    MaxFaults = 2
SYMMETRY Symmetry
CHECK_DEADLOCK FALSE
INVARIANTS
    ChargesAreExactBeforeWarning
    BilledIsCharged
