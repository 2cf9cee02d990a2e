SPECIFICATION Spec
CONSTANTS
    a = a
    b = b
    NoName = NoName
    NoOne = NoName
    Requests = {a, b}
    Stories <- MCReturns
    Ticks = 4
    ClocksChange = 25
    MonthDays = 5
    MinCohort = 1
    Checkpoints <- MCCheckpoints
    JudgedDay = 4
    MaxOrders = 6
    LongSeries = 3
    WeekDays = 2
    PriceOf <- MCPrices
    YearPriceOf <- MCYearPrices
    Trailing = 2
    Trend = 2
    Forecast = 3
    WeekLength = 2
    ManyDays = 2
    ManyObservations = 4
    SomeObservations = 2
    LookBack = 8
    CacheBudget = 3
    PeriodLimit = 1
    VatCountries <- MCVat
    HomeCountry = "US"
INVARIANTS
    ProductsAgreeWithHeadline
CHECK_DEADLOCK FALSE
