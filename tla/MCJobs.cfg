SPECIFICATION Spec
CONSTANTS
    j1 = j1
    j2 = j2
    j3 = j3
    t1 = t1
    c1 = c1
    c2 = c2
    Jobs = {j1, j2, j3}
    Targets = {t1}
    Clients = {c1, c2}
    NoCall = NoCall
    TargetOf <- MCTargetOf
    Mutating <- MCMutating
    MaxEvents = 3
SYMMETRY MCSymmetry
INVARIANTS
    MutationLock
    JournalMatchesRow
    TimesMatchState
PROPERTIES
    TerminalIsFinal
    ActsAtOnce
CHECK_DEADLOCK FALSE
