SPECIFICATION FairSpec
CONSTANTS
    i1 = i1  i2 = i2  t1 = t1  t2 = t2  t3 = t3  c1 = c1  c2 = c2  c3 = c3
    r1 = r1  r2 = r2  r3 = r3  p1 = p1  p2 = p2  qA = qA  qB = qB
    None = None
    Instance = {i1}
    Task = {t1, t2}
    Claim = {c1, c2}
    Run = {r1}
    Project = {p1}
    Pool = {}
    ProjectOf <- OneProject
    PoolsOf <- NoPools
    AdapterOf <- AllFake
    DependsOn <- Independent
    Edit <- BothEdges
    Limit <- OneSlot
    Supervisor = {}
    Command = {}
    MaxActive = 1
    LeaderTtl = 1
    ClaimTtl = 1
    LeaseTtl = 1
    MaxLag = 0
    MaxClock = 3
    MaxGeneration = 1
    MaxVersion = 1
 
PROPERTIES ClaimsResolve InFlightResolves
