SPECIFICATION Spec
CONSTANTS
    Threads = {t1, t2}
    Handles = {h1, h2, h3}
    Configs <- SkipOnly
    NumSlots = 1
    CountModulus = 4
    MultiThread = TRUE
    SessionCache = TRUE
    LoginInit = FALSE
    RecoveryLevel = 2
    UseStore = FALSE
    Results = {"ok", "error", "session", "device"}
    NoThread = NoThread
    NoHandle = NoHandle
PROPERTY
    FiniClosesCached
