\* One delivery at a time and no failures.
SPECIFICATION Spec
CONSTANTS
    AccessGrace = 1
    PastDueGrace = 2
    MonthDays = 2
    YearDays = 4
    Retention = 2
    MaxDay = 4
    RetryWindow = 1
    Faults = {}
    Handlers = {h1}
    Users <- MCUsers
    Ids <- MCIds
    References = {}
    Payloads <- ChargeAndDisablePayloads
    Payload <- ChargeAndDisable
CHECK_DEADLOCK FALSE
PROPERTIES NoReplayOverSettledCustomer
