SPECIFICATION RestartSpec
CONSTANTS
    Prompts = {p1, p2, p3, p4, p5, p6, p7, p8}
    Group = {p1, p2, p3, p4}
    NExplore = 2
    MaxOffSteps = 1
    Strategy = "max_variance"
    GenBatchSize = 2
    TrainBatchSize = 1
    NCommit = 2
    NExploreEffective = 2
    NGpus = 2
    Lower = 1
    Upper = 0
    ExcludeAt = 3
    MaxNumGenBatches = 3
    TotalEpochs = 1
    TotalTrainingSteps = 5
    SaveFreq = 1
    MaxCrashes = 2
SYMMETRY Symmetry
INVARIANTS
    OnePlace
    StalenessIsBounded
    LittleIsRepeated
PROPERTIES
    CheckpointAdvances
