\* One verify request at a time; the server may crash.
SPECIFICATION BillingSpec
CONSTANTS
    AccessGrace = 1
    PastDueGrace = 2
    MonthDays = 2
    YearDays = 4
    Retention = 1
    MaxDay = 3
    RetryWindow = 0
    Faults = {"crash"}
    Handlers = {h1}
    Callers = {v1}
    Cancellers = {}
    Users <- MCUsers
    Ids <- MCIds
    References <- FirstReference
    Transaction <- FirstPayment
    SubscriptionCodes <- MCCodes
    Payloads <- EventPayloads
    Payload <- Events
CHECK_DEADLOCK FALSE
INVARIANTS AnsweredIsGranted
