SPECIFICATION FairSpec
CONSTANTS
    Prompts = {p1, p2, p3, p4}
    Group = {p1, p2, p3}
    NExplore = 2
    MaxOffSteps = 0
    Strategy = "random"
    GenBatchSize = 2
    TrainBatchSize = 1
    NCommit = 2
    NExploreEffective = 2
    NGpus = 2
    Lower = 1
    Upper = 1
    ExcludeAt = 2
    MaxNumGenBatches = 0
    TotalEpochs = 2
    TotalTrainingSteps = 3
    SaveFreq = 0
PROPERTIES
    ImplementsLifecycle
    Termination
