\* Every supported configuration; three steps, two crashes.
CONSTANTS
    Configs <- MCConfigs
    TotalTrainingSteps = 3
    CriticWarmup = 2
    SaveFreq = 1
    TestFreq = 2
    MaxGenBatches = 2
    MaxCrashes = 2
SPECIFICATION Spec
CHECK_DEADLOCK FALSE
INVARIANTS
    GenerationIsOnPolicy
    MemoryIsShared
    TrainingStreamIsKept
