SPECIFICATION Spec
CONSTANTS
    Sessions = {a}
    NoSession = NoSession
    Vocabulary = {1, 2}
    Sampled = {1}
    Prompts <- OnePrompt
    MaxBytes = 15
    MaxCtx = 3
    BatchSize = 2
    MemoryLimit = 0
    DiskGc = FALSE
    DiskLimit = 0
    Hybrid = FALSE
    Faults = FALSE
    Kills = FALSE
CHECK_DEADLOCK FALSE
INVARIANT SamplesPrompt
