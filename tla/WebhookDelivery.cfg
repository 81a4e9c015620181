SPECIFICATION FairSpec
CONSTANTS
    Delivery = {d1}
    Task = {t1, t2, t3}
    NoDelivery = NoDelivery
    MaxAttempts = 3
    Lock = 1
    Backoff <- ShortBackoff
    Keep = 1
INVARIANTS
    TypeOK
    PostsWithinBudget
    FreshClaimIsExclusive
PROPERTIES
    ImplementsBoundedDelivery
    DeliverySettles
