\* A delivery, two verify requests and a cancel request in flight.
SPECIFICATION BillingSpec
CONSTANTS
    AccessGrace = 1
    PastDueGrace = 2
    MonthDays = 2
    YearDays = 4
    Retention = 1
    MaxDay = 3
    RetryWindow = 0
    Faults = {"store", "provider", "crash"}
    Handlers = {h1}
    Callers = {v1, v2}
    Cancellers = {c1}
    Users <- MCUsers
    Ids <- MCIds
    References <- FirstReference
    Transaction <- FirstPayment
    SubscriptionCodes <- MCCodes
    Payloads <- EventPayloads
    Payload <- Events
SYMMETRY Requests
CHECK_DEADLOCK FALSE
INVARIANTS BillingTypeOK EntitledPlan CancelledIsStopped
PROPERTIES AppliedOnce GrantsAreSpaced
