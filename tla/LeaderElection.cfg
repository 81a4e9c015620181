SPECIFICATION FairElectorSpec
CONSTANTS
    Node = {n1, n2}
    Nobody = Nobody
    Ttl = 3
    MaxCuts = 2
INVARIANTS
    OneFreshLeader
PROPERTIES
    LockIsNotStolen
    LeadershipIsRegained
    StaleLeaderStepsDown
