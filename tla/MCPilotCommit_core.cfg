SPECIFICATION Spec
CONSTANTS
    Prompts = {p1, p2, p3, p4, p5, p6, p7, p8}
    Group = {p1, p2, p3, p4}
    NExplore = 2
    MaxOffSteps = 0
    Strategy = "random"
    GenBatchSize = 2
    TrainBatchSize = 4
    NCommit = 1
    NExploreEffective = 2
    NGpus = 2
    Lower = 1
    Upper = 1
    ExcludeAt = 2
    MaxNumGenBatches = 4
    TotalEpochs = 2
    TotalTrainingSteps = 2
    SaveFreq = 0
SYMMETRY Symmetry
INVARIANTS
    TypeOK
    FullBatchIsDistinct
    BatchIsCounted
    RolloutsAreEven
    RoundsAreBounded
    ExclusionTakesEffect
