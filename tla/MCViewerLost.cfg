\* One request, no faults, and a user who only watches.
SPECIFICATION Spec
CONSTANTS
    r1 = r1
    r2 = r2
    s1 = s1
    s2 = s2
    all = all
    posts = posts
    NoFilter = all
    NoStream = NoStream
    NoConn = NoConn
    Requests <- OneRequest
    Streams <- OneStream
    StreamOf <- OnlyStreamOf
    Filters <- OneFilter
    Passes <- OnePasses
    Conns = {c1, c2}
    Fetches = {f1, f2}
    SendCap = 2
    WireCap = 1
    PageLimit = 2
    Faults = {}
    UserActs = {}
CHECK_DEADLOCK FALSE
INVARIANTS StoredIsShown
