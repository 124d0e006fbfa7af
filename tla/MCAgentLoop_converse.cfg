\* Two batches of two conversations on two servers, two calls of search and
\* sandbox at a time under one token.
SPECIFICATION Spec
CONSTANTS
    s1 = s1
    s2 = s2
    Servers = {s1, s2}
    Callers <- MCCallers
    RateLimit = 1
    BatchSize = 2
    NBatches = 2
    CacheSize = 2
    PromptLength = 2
    ResponseLength = 3
    ConfiguredModelLen = 0
    Prompts <- MCPrompts
    MaxAssistantTurns = 0
    MaxUserTurns = 1
    MaxParallelCalls = 2
    NumWorkers = 1
    MaxGenerated = 1
    MaxToolTokens = 2
\* The worker really stops after the last batch.
CHECK_DEADLOCK FALSE
INVARIANTS
    AgentTypeOK
    RateIsRespected
    TokensAreConserved
    ModelHasTheLastWord
    RoomToGenerate
    NothingIsLeft
    EachServerHasItsShare
PROPERTIES
    StaysWithServer
    BatchesEnd
