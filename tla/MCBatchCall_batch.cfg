\* Every batch of at most six rows of one to three tokens, for two ranks.
SPECIFICATION Spec
CONSTANTS
    Ranks = 2
    MaxRows = 6
    TokenCounts = {1, 2, 3}
    MaxTokenLen = 5
    MicroBatchSize = 2
    MaxParallel = 2
INVARIANTS
    ResultFollowsBatch
    AssertionsHold
    RanksKeepStep
    MicroBatchesNearlyFit
    RanksAreBalanced
    CollectUndoesDispatch
