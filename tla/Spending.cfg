SPECIFICATION ApiSpec
CONSTANTS
    i1 = i1  t1 = t1  c1 = c1  c2 = c2  r1 = r1  r2 = r2  p1 = p1
    d1 = d1  u1 = u1  u2 = u2
    None = None
    Instance = {i1}
    Task = {t1}
    Claim = {c1}
    Run = {r1}
    Project = {p1}
    Pool = {}
    ProjectOf <- OneProject
    PoolsOf <- NoPools
    AdapterOf <- AllApi
    DependsOn <- Independent
    Edit = {}
    Limit <- NoLimits
    Supervisor = {}
    Command = {"emergency_stop"}
    MaxActive = 1
    LeaderTtl = 1
    ClaimTtl = 1
    LeaseTtl = 1
    MaxLag = 0
    MaxClock = 2
    MaxGeneration = 1
    MaxVersion = 1
    Direct = {d1}
    Caller = {u1, u2}
    Revision <- Periods
    Wanted <- Requests
    Rate <- RisingPrice
    DirectTtl = 1
    MaxUsage = 2
SYMMETRY Interchangeable
INVARIANTS NeverOvercommitted JournalIsLinear HeldReservationsHaveHolders
PROPERTIES DispatchedIsRetained
