\* Two requests at a time, two addresses and a session; windows and sessions of two
\* ticks, and a limit of two failures: a bucket fills, expires and fills again.  Two endpoints,
\* a host key that changes and four requests of the page.  Bodies of two lines in two
\* chunks, which arrive in segments of any length.
SPECIFICATION SceneSpec
CONSTANTS
    q1 = q1
    q2 = q2
    s1 = s1
    e1 = e1
    e2 = e2
    k1 = k1
    k2 = k2
    x1 = x1
    x2 = x2
    c1 = c1
    c2 = c2
    Endpoint = {e1, e2}
    HostKey = {k1, k2}
    Container = {x1, x2}
    Home <- MCHome
    Call = {c1, c2}
    MaxKeys = 1
    MaxAsks = 4
    Request = {q1, q2}
    Address = {"here", "there"}
    SessionId = {s1}
    Account = {"alice", "bob"}
    None = None
    MaxFailures = 2
    WindowLength = 2
    SessionTtl = 2
    MaxTime = 4
    Byte = {"CR", "LF", "h", "H", "{", "}", "0", "1", "2", "3", "4", "5", "6", "7", "8", "9"}
    Bodies <- MCBodies
    MaxLine = 2
    MaxChunks = 2
SYMMETRY Symmetry
INVARIANTS
    LimiterBound
    HostInvariant
    ExchangeInvariant
PROPERTIES
    OneAdministrator
    Lifetimes
CHECK_DEADLOCK FALSE
