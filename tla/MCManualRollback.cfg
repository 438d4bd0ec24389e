\* Two requests; alone, or with others on the host and commands that live on.
SPECIFICATION FairSpec
CONSTANTS
    j1 = j1
    j2 = j2
    Jobs = {j1, j2}
    Previous = previous
    Updated = updated
    MaxFaults <- MCFaults
    MaxCrashes <- MCCrashes
INVARIANTS
    RollbackInvariant
PROPERTIES
    OutcomeIsVerified
    RollbackIsAtomic
    RollbackEnds
CHECK_DEADLOCK FALSE
