\* An event of progress, two interruptions, a source opened anew and a failed request;
\* three requests of the dashboard at a time; three audit events on pages of one, a
\* retention of one tick and purges of two batches; two log streams, three chunks of output
\* and a list of two.
SPECIFICATION SceneSpec
CONSTANTS
    None = None
    All = All
    MaxEvents = 1
    MaxBreaks = 2
    Refuses = TRUE
    MaxReopens = 1
    MaxFailedReads = 1
    Target = {t1, t2}
    MaxRebinds = 1
    MaxRequests = 3
    Action = {"login", "job"}
    PageSize = 1
    BatchSize = 1
    MaxBatches = 2
    Retention = 1
    MaxTime = 2
    MaxRecorded = 3
    Stream = {s1, s2}
    MaxChunks = 3
    MaxEntries = 2
INVARIANTS
    PanelInvariant
    DashboardInvariant
    AuditInvariant
    LogsInvariant
PROPERTIES
    DeliversLikeFeed
    PurgesOldestFirst
    OnlyAbandonedEarly
CHECK_DEADLOCK FALSE
