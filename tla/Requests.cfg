SPECIFICATION Spec
CONSTANTS
    SUsers = {u1}
    SAdmins = {u1}
    SFractional = {}
    SThreads = {t1, t2}
    MaxTokens = 2
    MaxSessions = 2
    MaxClock = 2
    MaxPassword = 1
    MaxRequests = 4
    TokenLife = 1
    CacheTTL = 2
    CacheMax = 1
    UpdateGap = 1
    Accounts = {"u1", "u2", "u3"}
    RoleIds = {"adm", "r1", "r2"}
    AdminRole = "adm"
    Names = {"n3"}
    RoleNames = {"x"}
    AThreads = {t1, t2}
    MaxAsked = 2
    Services = {s1, s2}
    FailureThreshold = 2
    ResetTimeout = 1
    HalfOpenRequests = 1
    RateLimit = 2
    BreakerLife = 2
    RateLife = 1
    MaxRateTime = 3
    MaxRecords = 4
    CThreads = {t1, t2}
    Conns = {c1, c2}
    MaxRegistered = 1
    MaxHeld = 1
    NoConn = NoConn
    EClients = {c1, c2}
    MaxEpollConns = 1
    MaxParts = 2
    QThreads = {t1, t2}
    QPool = 1
    QMemory = 1
    QLimit = 2
    MaxQueueOps = 4
    HRequests <- MCHttp
    Dotted = {"app.js", "login.html", "openapi.json", "admin.html", "index.html"}
    Files <- MCFiles
    Empty <- MCEmpty
    Cors <- MCCors
    OwnHeaders = {0, 40, 4000}
    MaxKeepAlive = 2
    MaxRouteSlots = 50
    MaxSent = 3
    Inputs <- MCInputs
    MaxPuts = 2
    MaxInstances = 2
    JTexts <- MCTexts
    JKeys <- MCKeys
    JPieces <- MCPieces
    JIntMax = 127
    Figures = 100
    MaxDepth = 4
    MaxString = 5
    Imbalance = 1
    MaxEdits = 2
    MaxTexts = 2
    MThreads = {t1, t2}
    Durations = {1}
    Infinite = 99
    MetricLoads <- MCLoads
    HistoryLength = 1
    LibraryNames = {"default", "other"}
    LibraryTypes = {"a", "b"}
    MaxConnections = 2
    MaxObserved = 1
    MaxServed = 1
    MaxSnapshots = 2
    MaxMetricDocs = 2
    MaxExports = 2
    KThreads = {t1, t2}
    KUsers = {"b'"}
    NeedEscape = {"b'"}
    ForeignTexts <- MCForeignTexts
    CodedBytes <- MCBytes
    CodedTexts <- MCCoded
    KPasswords <- MCPasswords
    HashBits = 4
    AccessLife = 0
    RefreshLife = 1
    MaxTokenTime = 2
    MaxPairs = 1
    MaxPresented = 2
CHECK_DEADLOCK FALSE
SYMMETRY Symmetry
INVARIANTS
    EpollSound
    QueueSound
    
    
    
    TokensSound
PROPERTIES
    
    AccessSound
    
    ConnectionsSound
