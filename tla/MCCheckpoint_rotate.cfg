SPECIFICATION Spec
CONSTANTS
    Ranks = {r0, r1}
    Rank0 = r0
    Roles <- ActorAndCritic
    MaxToKeep <- KeepLimits
    KeepActor = 2
    KeepCritic = 3
    SaveFreq = 2
    TotalSteps = 7
    MaxCrashes = 2
INVARIANTS
    TrackedIsComplete
    OnlyTruncationBreaks
    LittleIsLost
    RotationKeepsUp
