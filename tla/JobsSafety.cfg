SPECIFICATION Spec
CONSTANTS
    Tasks = {p, s}
    Streaming = {s}
    WithCallback = {p, s}
    Releases = {}
    Clones = {}
    MaxPieces = 2
    Signalled = TRUE
    Spurious = TRUE
    NoTask = NoTask
INVARIANT JobsInvariant
INVARIANT CompletedStreamIsWhole
INVARIANT StreamEndsAfterCallback
INVARIANT UnfinishedTracked
PROPERTY KeepsService
CHECK_DEADLOCK FALSE
