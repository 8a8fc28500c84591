\* Two requests on one stream, every channel with room for one, and a network
\* that breaks.
SPECIFICATION Spec
CONSTANTS
    r1 = r1
    r2 = r2
    s1 = s1
    NoStream = NoStream
    NoConn = NoConn
    NoRequest = NoRequest
    Requests <- TwoRequests
    Streams <- OneStream
    StreamOf <- TwoStreamOf
    Listened = s1
    Conns = {c1, c2}
    SendCap = 1
    WireCap = 1
    EventsCap = 1
    QueueCap = 1
    MaxDelay = 2
    PageLimit = 1
    Faults = {"break", "refuse"}
CHECK_DEADLOCK FALSE
INVARIANTS TypeOK ForwardedOnce DroppedIsNot
PROPERTIES ImplementsRelay BroadcastEnds HungUpIsForgotten ReaderGoesOn QueueIsWorkedOff
