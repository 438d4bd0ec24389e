SPECIFICATION FairSpec
CONSTANTS
    j1 = j1
    j2 = j2
    t1 = t1
    t2 = t2
    i1 = i1
    i2 = i2
    i3 = i3
    Jobs = {j1, j2}
    Targets = {t1, t2}
    Images = {i1, i2, i3}
    TargetOf <- TwoTargets
    CandidateOf <- NextImage
    FirstTarget = t1
    Detached = FALSE
    MaxFaults <- OnlyOne
    MaxCrashes <- OnlyOne
PROPERTIES
    UpdateEnds
CHECK_DEADLOCK FALSE
