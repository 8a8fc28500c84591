\* Two deliveries in flight and no failures.
SPECIFICATION Spec
CONSTANTS
    AccessGrace = 1
    PastDueGrace = 2
    MonthDays = 2
    YearDays = 4
    Retention = 2
    MaxDay = 4
    RetryWindow = 1
    Faults = {}
    Handlers = {h1, h2}
    Users <- MCUsers
    Ids <- MCIds
    References = {}
    Payloads <- RenewalPayloads
    Payload <- Renewal
CHECK_DEADLOCK FALSE
INVARIANTS PeriodKnown
PROPERTIES NoReplayOverSettled ClaimIsDecided
