SPECIFICATION FairSpec
CONSTANTS
    Threads = {t1, t2}
    Handles = {h1, h2}
    Configs <- ChildOnly
    NumSlots = 1
    CountModulus = 4
    MultiThread = TRUE
    SessionCache = TRUE
    LoginInit = FALSE
    RecoveryLevel = 0
    UseStore = FALSE
    Results = {"ok", "error", "session", "device"}
    NoThread = NoThread
    NoHandle = NoHandle
PROPERTIES
    RecoveryEnds
