SPECIFICATION FairSpec
CONSTANTS
    Tasks = {p, s}
    Streaming = {s}
    WithCallback = {p}
    Releases = {}
    Clones = {}
    MaxPieces = 1
    Signalled = TRUE
    Spurious = FALSE
    NoTask = NoTask
PROPERTY StartedIsAnswered
PROPERTY WorkerEnds
CHECK_DEADLOCK FALSE
