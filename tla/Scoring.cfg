SPECIFICATION MCSpec
CONSTANTS
    none = none
    log = log
    log4j = log4j
    apache = apache
    Part <- MCPart
    Depth = 2
    Slug <- MCSlug
    NoSlug = none
    Within <- MCWithin
    Entry <- MCEntry
    Product <- MCProduct
    Installed <- MCInstalled
    Boundary <- MCBoundary
    Epss <- MCEpss
    Cvss <- MCCvss
    Age <- MCAge
    Today <- MCToday
    DueDate <- MCDueDate
    Replica = {n1, n2}
    Finding = {f1, f2}
    HotFinding = {f1}
    KevFinding = {f1}
    Mttr = {45}
    DaySteps = 2
    Grace = 1
    MaxSteps = 4
    MaxChanges = 1
INVARIANTS
    CompareIsAnOrder
    RangeIsAnInterval
    SplitRangeIsWhole
    ScoreIsMonotone
    ScoresAgreeOffTheEdges
    SlaViewsAgree
    RiskScoreIsAPercentage
    NoUnexplainedGap
CHECK_DEADLOCK FALSE
