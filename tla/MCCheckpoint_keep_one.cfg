SPECIFICATION Spec
CONSTANTS
    Ranks = {r0, r1}
    Rank0 = r0
    Roles <- ActorAndCritic
    MaxToKeep <- KeepLimits
    KeepActor = 1
    KeepCritic = 1
    SaveFreq = 2
    TotalSteps = 7
    MaxCrashes = 2
INVARIANTS
    TrackedIsComplete
