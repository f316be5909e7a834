SPECIFICATION Spec
CONSTANTS
    Sessions = {a, b}
    NoSession = NoSession
    Vocabulary = {1, 2}
    Sampled = {1}
    Prompts <- LongPrompts
    MaxBytes = 15
    MaxCtx = 4
    BatchSize = 2
    MemoryLimit = 0
    DiskGc = FALSE
    DiskLimit = 0
    Hybrid = TRUE
    Faults = TRUE
    Kills = FALSE
CHECK_DEADLOCK FALSE
INVARIANT CacheMirrorsContext
INVARIANT TurnSeesPrompt
INVARIANT ContextFits
PROPERTY FailedTurnLeavesPrefix
