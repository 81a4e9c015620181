SPECIFICATION FairSpec
CONSTANTS
    Caller = {g1, g2}
    Guarded = {g1, g2}
    Threshold = 3
    Recovery = 2
PROPERTIES
    BreakerRecovers
