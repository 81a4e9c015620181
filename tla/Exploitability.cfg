SPECIFICATION Spec
CONSTANTS
    Cve = {1, 2}
    Lazy = {l1}
    Intel = {i1}
    Sync = {s1}
    Page = 1
    BatchSize = 2
    DailyLimit = 2
    StaleDays = 2
    MaxEvents = 2
    MaxRequests = 1
INVARIANTS
    TypeOK
    IntelIsItsOwn
PROPERTIES
    StaleIsRefreshed
    ScoresCatchUp
