SPECIFICATION DispatchSpec
CONSTANTS
    i1 = i1  t1 = t1  t2 = t2  c1 = c1  c2 = c2  c3 = c3
    r1 = r1  r2 = r2  r3 = r3  p1 = p1  o1 = o1  k1 = k1
    None = None
    Instance = {i1}
    Task = {t1}
    Claim = {c1, c2}
    Run = {r1, r2, r3}
    Project = {p1}
    Pool = {}
    ProjectOf <- OneProject
    PoolsOf <- NoPools
    AdapterOf <- AllCodex
    DependsOn <- Independent
    Edit = {}
    Limit <- NoLimits
    Supervisor = {"worker"}
    Command = {}
    MaxActive = 1
    LeaderTtl = 3
    ClaimTtl = 1
    LeaseTtl = 1
    MaxLag = 0
    MaxClock = 4
    MaxGeneration = 1
    MaxVersion = 1
    Invocation = {o1}
    RiskClass = {1, 3}
    Target = {k1}
    TargetOf <- OneTarget
    RetryLimit = {0, 1}
    Threshold = 1
    Cooldown = 1
    BaseDelay = 2
    MaxDelay = 2
    Jitter <- NoJitter
    Asked = {"readiness"}
SYMMETRY Interchangeable
INVARIANTS EachRetryIsPaid OneExecutor
PROPERTIES BackoffRespected WakeIsFirstChance
