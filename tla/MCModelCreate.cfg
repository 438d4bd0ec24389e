SPECIFICATION Spec
CONSTANTS
    j1 = j1
    j2 = j2
    p1 = p1
    p2 = p2
    d0 = d0
    d1 = d1
    Jobs = {j1, j2}
    Plans = {p1, p2}
    Digests = {d0, d1}
    Product <- MCProduct
    Satisfying <- MCSatisfying
    None = None
    Unread = Unread
    MaxChanges = 1
    MaxFaults = 1
    MaxCrashes = 1
INVARIANTS
    CreateInvariant
    SuccessIsDeployed
PROPERTIES
    AbortIsHeeded
CHECK_DEADLOCK FALSE
