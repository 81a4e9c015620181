SPECIFICATION FairSpec
CONSTANTS
    NCve = 2
    Old = {1}
    Exploited = {1}
    Replica = {r1, r2}
    VulnCheck = TRUE
    BatchSize = 1
    MaxTime = 1
    MaxFailures = 1
PROPERTIES
    NoRegression
    KevIsMarked
    MirrorCatchesUp
