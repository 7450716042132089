SPECIFICATION QuotaSpec
CONSTANTS
    i1 = i1  t1 = t1  t2 = t2  c1 = c1  c2 = c2  r1 = r1
    p1 = p1  p2 = p2  five_hour = five_hour  weekly = weekly
    None = None
    Instance = {i1}
    Task = {t1, t2}
    Claim = {c1, c2}
    Run = {r1}
    Project = {p1, p2}
    Pool = {}
    ProjectOf <- OwnProject
    PoolsOf <- NoPools
    AdapterOf <- AllCodex
    DependsOn <- Independent
    Edit = {}
    Limit <- NoLimits
    Supervisor = {"worker"}
    Command = {"emergency_stop"}
    MaxActive = 2
    LeaderTtl = 3
    ClaimTtl = 2
    LeaseTtl = 2
    MaxLag = 0
    MaxClock = 4
    MaxGeneration = 1
    MaxVersion = 1
    Surface = {five_hour, weekly}
    SurfacesOf <- OneAccount
    Forecast <- OneEach
    Manual <- Entered
    Relief <- OneMore
    MaxOverrides = 1
    Output <- Printed
    Expected <- Lanes
    Reserve = 1
    Validity = 1
SYMMETRY Interchangeable
INVARIANTS  WorkIsReserved
PROPERTIES NeverOverReserved 
