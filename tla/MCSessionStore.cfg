SPECIFICATION FairSpec
CONSTANTS
    Threads = {t1}
    Handles = {h1, h2}
    Configs <- ChildOnly
    NumSlots = 1
    CountModulus = 4
    MultiThread = TRUE
    SessionCache = TRUE
    LoginInit = FALSE
    RecoveryLevel = 2
    UseStore = TRUE
    Results = {"ok", "error", "session", "device"}
    NoThread = NoThread
    NoHandle = NoHandle
CHECK_DEADLOCK FALSE
PROPERTIES
    RecoveryEnds
