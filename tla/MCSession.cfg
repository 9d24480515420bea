SPECIFICATION Spec
CONSTANTS
    Threads = {t1, t2}
    Handles = {h1, h2, h3, h4, h5}
    Configs <- AllConfigs
    NumSlots = 2
    CountModulus = 3
    MultiThread = TRUE
    SessionCache = TRUE
    LoginInit = TRUE
    RecoveryLevel = 2
    UseStore = TRUE
    Results = {"ok", "error", "session", "device"}
    NoThread = NoThread
    NoHandle = NoHandle
SYMMETRY Symmetry
INVARIANTS
    TypeOK
    ActivityExact
    SessionExclusive
    SessionsLive
    ParentKeepsNothing
PROPERTY
    SessionsKept
CHECK_DEADLOCK FALSE
