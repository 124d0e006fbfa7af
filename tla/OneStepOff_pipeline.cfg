SPECIFICATION FairSpec
CONSTANTS
    TotalEpochs = 3
    BatchesPerEpoch = 3
    TotalTrainingSteps = 10
    CriticWarmup = 3
    SaveFreq = 2
    TestFreq = 2
    MaxCrashes = 3
INVARIANTS
    TypeOK
    OneStepBehind
    LittleIsSkipped
    LittleWorkIsLost
PROPERTIES
    ImplementsPipeline
    Termination
