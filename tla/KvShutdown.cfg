SPECIFICATION FairSpec
CONSTANTS
    Sessions = {a, b}
    NoSession = NoSession
    Vocabulary = {1, 2}
    Sampled = {1}
    Prompts <- SmallPrompts
    MaxBytes = 15
    MaxCtx = 3
    BatchSize = 2
    MemoryLimit = 4
    DiskGc = TRUE
    DiskLimit = 4
    Hybrid = FALSE
    Faults = FALSE
    Kills = FALSE
CHECK_DEADLOCK FALSE
INVARIANT ShutdownSavesAll
PROPERTY FilesExpireByAge
PROPERTY CallsReturn
