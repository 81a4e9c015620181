SPECIFICATION FairSpec
CONSTANTS
    Product = {p1}
    Job = {j1}
    Worker = {w1}
    NoJob = NoJob
    MaxAttempts = 2
    LockTtl = 2
    KeepCompleted = 1
    KeepDead = 1
    Horizon = 1
    MaxAbandons = 1
PROPERTY StuckJobsAreReclaimed
