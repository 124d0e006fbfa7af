\* Two batches of two conversations on two servers, search and sandbox calls
\* under one token.
SPECIFICATION Spec
CONSTANTS
    s1 = s1
    s2 = s2
    Servers = {s1, s2}
    Callers <- MCCallers
    RateLimit = 1
    BatchSize = 2
    NBatches = 2
    CacheSize = 2
    PromptLength = 2
    ResponseLength = 3
    ConfiguredModelLen = 6
    Prompts <- MCShortPrompts
    MaxAssistantTurns = 0
    MaxUserTurns = 1
    MaxParallelCalls = 1
    NumWorkers = 1
    MaxGenerated = 2
    MaxToolTokens = 1
\* The worker really stops after the last batch.
CHECK_DEADLOCK FALSE
INVARIANTS
    BatchSurvives
