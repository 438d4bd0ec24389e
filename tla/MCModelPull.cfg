SPECIFICATION Spec
CONSTANTS
    j1 = j1
    j2 = j2
    d1 = d1
    d2 = d2
    Jobs = {j1, j2}
    Digests = {d1, d2}
    Upstream = d2
    None = None
    Unread = Unread
    MaxChanges = 1
    MaxFaults = 1
    MaxCrashes = 1
INVARIANTS
    PullInvariant
PROPERTIES
    UnverifiedWasCancelled
    PullEnds
CHECK_DEADLOCK FALSE
