\* Two requests of one stream and a second one to switch to; store, network and
\* server fail.
SPECIFICATION Spec
CONSTANTS
    r1 = r1
    r2 = r2
    s1 = s1
    s2 = s2
    all = all
    posts = posts
    NoFilter = all
    NoStream = NoStream
    NoConn = NoConn
    Requests <- MCRequests
    Streams <- MCStreams
    StreamOf <- OneStreamOf
    Filters <- OneFilter
    Passes <- TwoPasses
    Conns = {c1, c2}
    Fetches = {f1, f2, f3}
    SendCap = 1
    WireCap = 1
    PageLimit = 1
    Faults = {"store", "break", "crash"}
    UserActs = {"switch"}
SYMMETRY Alike
CHECK_DEADLOCK FALSE
INVARIANTS TypeOK ShownWasStored ShownAtMostTwice
PROPERTIES LiveIsOfPage
