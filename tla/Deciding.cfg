SPECIFICATION RoutingSpec
CONSTANTS
    t1 = t1
    None = None
    MaxInstant = 14
    DayLength = 4
    LocalOf <- Zone
    GapSearch = 2
    SearchDays = 3
    Task = {t1}
    Target = {1, 2, 3, 4}
    Configured = {1, 2, 3, 4}
    Surface = {1, 2}
    AdapterOf <- Adapters
    Supported = {1, 2, 3, 4}
    TargetsOf <- Accounts
    ReserveOf <- Reserves
    Forecast <- Forecasts
    PolicyReserve = 20
    UnknownQuotaAllowed = FALSE
    BranchesAllowed = TRUE
    Enabled = {1}
    PeriodEnd = 3
    Risk <- ReadOnly
    AffinityOf <- Weekdays
    Deadline <- Unhurried
    Patching = {}
    PatchRuntime = FALSE
    Pattern <- Patterns
    Exception <- Exceptions
    Backoff = {None, 5}
    Percent = {0, 50}
    CircuitRows <- OpenCircuits
    ProbeRows <- Probes
    QuotaRows <- Quotas
    MaxClock = 3
    MaxChanges = 2
    Setup <- Setups
INVARIANTS NextEligibleIsFirst
PROPERTIES PaidWorkIsExact  
