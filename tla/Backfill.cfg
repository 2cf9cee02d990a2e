SPECIFICATION FairSpec
CONSTANTS
    Runs = {r1, r2}
    Processes = {p1, p2}
    LastPage = 3
    Limited = {p1}
    MaxOrders = 2
    Scopes = {all, few}
    InitialScopes = all
    Fulfillments = {all}
    MaxUninstalls = 1
    MaxGrants = 1
    MaxFaults = 2
    None = None
CHECK_DEADLOCK FALSE
INVARIANTS
    ResumePointIsSound
    CompleteMeansImported
    HealthyImportRunsAlone
    HealthyCapacityIsWhole
PROPERTIES
    RunsEnd
