SPECIFICATION FairSpec
CONSTANTS
    Product = {p1, p2}
    Job = {j1, j2}
    Worker = {w1, w2}
    NoJob = NoJob
    MaxAttempts = 2
    LockTtl = 1
    KeepCompleted = 1
    KeepDead = 1
    Horizon = 1
    MaxAbandons = 1
INVARIANTS
    OneActiveJobPerTarget
    NoConcurrentSync
    RetryBudget
PROPERTIES
    ImplementsSerialSync
    PendingSettles
