SPECIFICATION Spec
CONSTANTS
    c1 = c1
    c2 = c2
    g = g
    Product = {p1, p2}
    HasCpe = {p1, p2}
    Cve = {c1, c2}
    Other = {g}
    Old = {c2}
    Pages <- MCPages
    MaxPages = 2
    Query = {q1, q2}
    Search = {s1}
    Capacity = 4
    RefillRate = 1
    Cost = 2
    CacheTtl = 2
    MaxTime = 3
INVARIANTS
    TypeOK
    GovernedBudget
    CirclAnswerHasFindings
SYMMETRY
    Symmetry
CHECK_DEADLOCK FALSE
