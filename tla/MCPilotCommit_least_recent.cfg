SPECIFICATION Spec
CONSTANTS
    Prompts = {p1, p2, p3, p4, p5, p6, p7, p8}
    Group = {p1, p2, p3, p4}
    NExplore = 2
    MaxOffSteps = 1
    Strategy = "least_recent"
    GenBatchSize = 2
    TrainBatchSize = 1
    NCommit = 2
    NExploreEffective = 2
    NGpus = 2
    Lower = 1
    Upper = 1
    ExcludeAt = 2
    MaxNumGenBatches = 3
    TotalEpochs = 2
    TotalTrainingSteps = 3
    SaveFreq = 0
SYMMETRY Symmetry
INVARIANTS
    LeastRecentFirst
