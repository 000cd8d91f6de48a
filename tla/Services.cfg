CONSTANTS
    Parts = {"managers", "policies", "report", "acceptance", "registry", "captures", "hooks",
             "lineage", "delivery", "codec", "bundle",
             "recorders", "rejections"}
    Adapters = {a1, a2, a3}
    Namespaces = {n1, n2}
    Policies = {p1, p2}
    NamespaceLimit = 1
    CyclicAdapters = TRUE
    MaxManagers = 4
    Exprs = {"e1", "e2"}
    Hashes = {"h1"}
    HashOf <- MCHashOf
    MaxCandidates = 2
    TTL = 1
    MaxRecords = 3
    MaxTime = 1
    MaxCallers = 1
    CacheKeys = {"x", "y", "z"}
    Jobs = {"j1", "j2"}
    JobOf <- MCJobOf
    CacheLimit = 2
    CacheTTL = 2
    CacheTime = 4
    Threads = {"t1", "t2"}
    MaxCalls = 3
    Funcs = {"f1", "f2"}
    MaxFrames = 3
    MaxChanges = 1
    Plans = {"p", "q"}
    ArtifactIds = {"a", "b", "c"}
    Published = {"a", "b"}
    Unacceptable = {"c"}
    Uses <- MCUses
    MaxArtifacts = 1
    MaxPlans = 1
    Recorded = {"a", "b"}
    MaxBytes = 4
    MaxFaults = 1
    MaxAttempts = 2
    Recordings = {"r1", "r2"}
    RecKinds = {"compile", "typed", "cache"}
    Subjects = {"s1", "s2"}
    ChainLength = 2
    MaxFailures = 1
    Amounts = {0, 1, 2, 3}
    MaxAmount = 3
    DefaultBudgets <- MCDefaultBudgets
    ReportKeys = {1, 2, 3}
    MaxCount = 2
    MaxOffered = 3
    ExpectedTests = 2
    Lenient = {"live"}
    Defects = 2
SPECIFICATION Spec
CHECK_DEADLOCK FALSE
INVARIANTS
    ManagersSafe
    IndexesAgree
    HooksSafe
    DeliverySafe
    DecodesWhatWasEncoded
    BundleSafe
    VerdictsAreProven
PROPERTIES
    CarrierSettledOnce
    KeptWhileFresh
