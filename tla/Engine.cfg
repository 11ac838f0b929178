SPECIFICATION Spec
CONSTANTS
    WalPages = 3
    PageSize = 3
    EntrySizes = {1, 2, 4}
    MaxSeq = 3
    CKeys = {k1, k2, k3}
    CSizes = {1, 2}
    CConfigs <- MCConfigs
    CleanupInterval = 2
    MaxCacheTime = 1
    MaxCacheOps = 4
    GThreads = {t1, t2}
    GKeys = {k1, k2, k3}
    GAddrs = {a1, a2, a3}
    GCapacity = 2
    PThreads = {t1, t2}
    Strings = {k1, k2, k3}
    MaxStrings = 1
    MaxRefs = 2
    LTxns = {t1, t2}
    MaxLines = 2
    MaxTime = 1
    MaxRecovery = 1
    MaxCompleted = 1
    MaxCached = 2
    Expiry = 0
    RetryPolicies <- MCPolicies
    IntMax = 127
    DThreads = {t1, t2}
    LibNames = {"l1"}
    CollNames = {"users", "permissions"}
    Template = {"c1"}
    MaxDocs = 5
    MaxDocRequests = 4
    QFields = {k1, k2}
    CountThreshold = 2
    SlowThreshold = 1
    ForgetBelow = 2
    Durations = {2}
    MaxTracked = 2
    MaxSweeps = 1
    MFields = {k1, k2}
    MThreads = {t1, t2}
    FirstCapacity = 1
    SizeModulus = 8
    Sizes = {1, 3}
    Hooks = {"h"}
    MaxHooks = 2
    MaxTracks = 2
    MaxReports = 2
    Searches <- MCSearches
    Bracketed <- MCBracketed
    QIntMax = 7
    VThreads = {t1, t2}
    SchemaNames = {"schemas", "c"}
    JsonSchemas <- MCSchemas
    VDocuments <- MCVDocuments
    RuleTexts <- MCRules
    LengthOf <- MCLength
    Matching <- MCMatching
    MaxSchemas = 2
    MaxSchemaRequests = 3
    HThreads = {t1, t2}
    HNames = {"i", "j"}
    HFields = {"f", "g"}
    HDocs <- MCDocs
    HashOf <- MCHash
    DefaultBuckets = 2
    MaxBuckets = 4
    MaxCreated = 2
    MaxHashOps = 4
    BThreads = {t1, t2}
    Environments = {"none", "short", "set"}
    BPaths <- MCBootPaths
    MaxStarts = 2
    MaxBootFailures = 1
    MaxBootLogins = 2
    JThreads = {t1, t2}
    ScriptNames = {"s", "long", "longcut"}
    SavedAs <- MCSaved
    Plans <- MCPlans
    ForeignDocs <- MCForeign
    Grants <- MCGrants
    MaxJsCalls = 3
    MaxScripts = 2
CHECK_DEADLOCK FALSE
SYMMETRY Symmetry
INVARIANTS
    
    StringPoolSound
    RetrySound
    TrackingSound
    
    BootstrapSound
    
PROPERTIES
    ListCacheSound
    GenericCacheSound
    
    
    
    
