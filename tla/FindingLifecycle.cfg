SPECIFICATION FairSpec
CONSTANTS
    p1 = p1
    c1 = c1
    Finding = {1, 2}
    Product <- MCProduct
    Cve <- MCCve
    ProductOf <- MCProductOf
    CveOf <- MCCveOf
    Acceptance = {1, 2}
    User = {u1, u2}
    Nobody = Nobody
    Request = {1, 2, 3, 4}
    PatchStatus = {"open", "in_review", "closed"}
    MaxDay = 2
INVARIANTS
    SegregationOfDuties
    StatusIsOnRecord
PROPERTIES
    ApprovalsRunOut
CHECK_DEADLOCK FALSE
