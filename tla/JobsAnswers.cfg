SPECIFICATION FairSpec
CONSTANTS
    Tasks = {p, s}
    Streaming = {s}
    WithCallback = {p}
    Releases = {r}
    Clones = {k}
    MaxPieces = 0
    Signalled = FALSE
    Spurious = FALSE
    NoTask = NoTask
PROPERTY Answered
PROPERTY OpsApplied
INVARIANT FifoStart
INVARIANT SessionOpsFirst
CHECK_DEADLOCK FALSE
