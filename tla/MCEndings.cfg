\* Two jobs, a fault and a crash; a remote command outlives the channel it was sent on.
SPECIFICATION SceneSpec
CONSTANTS
    None = None
    Unread = Unread
    j1 = j1
    j2 = j2
    p1 = p1
    p2 = p2
    d0 = d0
    d1 = d1
    Jobs = {j1, j2}
    Plans = {p1, p2}
    Digests = {d0, d1}
    Product <- MCProduct
    Satisfying <- MCSatisfying
    MaxChanges = 0
    MaxFaults = 1
    MaxCrashes = 1
    Digest = "confirmed"
    OtherDigest = "other"
    Detached = TRUE
    MaxForeign = 1
INVARIANTS
    SceneInvariant
PROPERTIES
    VerdictIsTrue
    JobEnds
CHECK_DEADLOCK FALSE
