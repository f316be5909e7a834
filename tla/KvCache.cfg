SPECIFICATION Spec
CONSTANTS
    Sessions = {a, b, c}
    NoSession = NoSession
    Vocabulary = {1, 2}
    Sampled = {}
    Prompts <- BarePrompts
    MaxBytes = 15
    MaxCtx = 3
    BatchSize = 1
    MemoryLimit = 4
    DiskGc = FALSE
    DiskLimit = 0
    Hybrid = FALSE
    Faults = TRUE
    Kills = TRUE
CHECK_DEADLOCK FALSE
INVARIANT ParkedMatchesState
INVARIANT MemoryWithinLimit
INVARIANT StoreInv
PROPERTY KeepsOwnConversations
PROPERTY OthersStayParked
PROPERTY ReleaseForgets
