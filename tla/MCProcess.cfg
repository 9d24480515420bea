SPECIFICATION Spec
CONSTANTS
    Procs = {p0, p1, p2}
    Root = p0
    Ctxs = {c1, c2}
    NoProc = NoProc
    IntermediateProcesses = 1
    CheckFinalize = TRUE
    LoginInit = FALSE
    Commands = {"forks", "keeps"}
    MaxInits = 3
    MaxRunning = 2
SYMMETRY Symmetry
INVARIANTS
    TypeOK
    OwnConnection
    HandleOfThisConnection
    EngineFollowsProviders
PROPERTY
    CallsKeepConnection
CHECK_DEADLOCK FALSE
