\* The account side, part by part; statements and mails fail.
SPECIFICATION PartsSpec
CONSTANTS
    r1 = r1
    r2 = r2
    x = x
    y = y
    n1 = n1
    n2 = n2
    MaxTime = 6
    Faults = {"store", "mail"}
    Clients = {i1}
    Capacity = 2
    Cost = 2
    Refill = 1
    Idle = 4
    Keys = {k1}
    MaxPerHour <- MCMaxPerHour
    Hour = 1
    Emails = {k1}
    Accounts = {o1, o2}
    Nobody = Nobody
    Requesters = {g1, g2}
    Clickers = {b1, b2}
    LinkLife = 1
    MaxLinks = 3
    Owners = {k1}
    TokenIds = {o1, o2}
    NoToken = NoToken
    Calls = {g1, g2}
    Lives = {0, 2}
    TouchGap = 1
    Logins = {g1, g2}
    NoLogin = NoLogin
    Ports = {port}
    NoPort = NoPort
    Tabs = {b1, b2}
    AccessGrace = 1
    PastDueGrace = 1
    Users = {o1, o2}
    NoUser = NoUser
    Names <- MCNames
    Legacy <- MCLegacy
    EndpointIds = {p1, p2}
    NoId = NoId
    Creators = {g1, g2}
    Readers = {d1}
    SessionLife = 1
    Captured <- MCCaptured
    Secrets <- MCSecrets
    Absent = Absent
    Forged = Forged
    HeadersOf <- MCHeadersOf
    SignedAt <- MCSignedAt
    MaxAge = 1
    Configurable = {"stripe", "generic"}
    Writers = {w1}
SYMMETRY Alike
CHECK_DEADLOCK FALSE
INVARIANTS
    AccessTypeOK HourBound LinkSignsInOnce NewestLinkIsOpen AddressIsOneAccount
    LateIsRefused LastUsedIsFresh TokenOfOwnTab
    OverrunIsBounded ReadByOwner VerifiedWasSigned SignedIsVerified
PROPERTIES ImplementsQuota
