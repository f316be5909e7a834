SPECIFICATION Spec
CONSTANTS
    Callers = {c1}
    MaxSessions = 2
    CacheLimit = 1
    MaxId = 2
    MaxJobs = 2
    MaxClock = 0
    MaxCrashes = 1
    Asks = {"question"}
    Posts = {"user"}
    Brings = {FALSE}
    CompressTools = FALSE
    DiskFails = FALSE
    Parks = TRUE
PROPERTY WaitingIsKept
CHECK_DEADLOCK FALSE
