SPECIFICATION Spec
CONSTANTS
    r1 = r1
    r2 = r2
    Requests = {r1, r2}
    Stories <- MCStories
INVARIANTS
    BillingModeIsAnswered
    GapIsNotHidden
PROPERTY
    AccountSettles
CHECK_DEADLOCK FALSE
