SPECIFICATION Spec
CONSTANTS
    Callers = {c1, c2}
    MaxSessions = 1
    CacheLimit = 0
    MaxId = 1
    MaxJobs = 2
    MaxClock = 1
    MaxCrashes = 0
    Asks = {"tools"}
    Posts = {"user", "assistant"}
    Brings = {TRUE}
    CompressTools = TRUE
    DiskFails = TRUE
    Parks = FALSE
INVARIANT SInv
INVARIANT RemovedStaysRemoved
INVARIANT Durable
INVARIANT OneGeneration
PROPERTY FullContextRestores
PROPERTY TurnSettles
CHECK_DEADLOCK FALSE
