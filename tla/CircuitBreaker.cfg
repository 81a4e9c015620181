SPECIFICATION FairSpec
CONSTANTS
    Caller = {c1, c2, c3, g1}
    Guarded = {g1}
    Threshold = 3
    Recovery = 2
PROPERTIES
    OpenLastsRecovery
    BreakerRecovers
