\* A resumed LoRA job whose engine starts with a dummy base model.
CONSTANTS
    Configs <- MCDummyBase
    TotalTrainingSteps = 2
    CriticWarmup = 1
    SaveFreq = 1
    TestFreq = 2
    MaxGenBatches = 2
    MaxCrashes = 1
SPECIFICATION Spec
CHECK_DEADLOCK FALSE
INVARIANTS
    GenerationIsOnPolicy
