SPECIFICATION Spec
CONSTANTS
    i1 = i1  i2 = i2  t1 = t1  t2 = t2  t3 = t3  c1 = c1  c2 = c2  c3 = c3
    r1 = r1  r2 = r2  r3 = r3  p1 = p1  p2 = p2  qA = qA  qB = qB
    None = None
    Instance = {i1}
    Task = {t1, t2, t3}
    Claim = {c1, c2, c3}
    Run = {r1, r2}
    Project = {p1, p2}
    Pool = {qA, qB}
    ProjectOf <- SharedProject
    PoolsOf <- SharedPools
    AdapterOf <- AllFake
    DependsOn <- Independent
    Edit = {}
    Limit <- OneAndTwoSlots
    Supervisor = {}
    Command = {}
    MaxActive = 2
    LeaderTtl = 1
    ClaimTtl = 1
    LeaseTtl = 1
    MaxLag = 0
    MaxClock = 2
    MaxGeneration = 1
    MaxVersion = 1
SYMMETRY Interchangeable
INVARIANTS TypeOK LocksMatchHolders LocksExclusive
PROPERTY ImplementsLockService
