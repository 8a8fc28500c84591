\* One delivery at a time; a store statement may fail.
SPECIFICATION Spec
CONSTANTS
    AccessGrace = 1
    PastDueGrace = 2
    MonthDays = 2
    YearDays = 4
    Retention = 2
    MaxDay = 4
    RetryWindow = 1
    Faults = {"store"}
    Handlers = {h1}
    Users <- MCUsers
    Ids <- MCIds
    References = {}
    Payloads <- RenewalPayloads
    Payload <- Renewal
CHECK_DEADLOCK FALSE
INVARIANTS AckedWasHandled
