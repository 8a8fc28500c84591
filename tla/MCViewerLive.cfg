\* One stream and two filters; the store fails, the server crashes or
\* refuses the stream.
SPECIFICATION Spec
CONSTANTS
    r1 = r1
    r2 = r2
    s1 = s1
    s2 = s2
    all = all
    posts = posts
    NoFilter = all
    NoStream = NoStream
    NoConn = NoConn
    Requests <- MCRequests
    Streams <- OneStream
    StreamOf <- OneStreamOf
    Filters <- MCFilters
    Passes <- MCPasses
    Conns = {c1, c2}
    Fetches = {f1, f2}
    SendCap = 2
    WireCap = 1
    PageLimit = 2
    Faults = {"store", "crash", "refuse"}
    UserActs = {"filter", "clear"}
CHECK_DEADLOCK FALSE
PROPERTIES SettledShowsNew
