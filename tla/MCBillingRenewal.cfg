\* Two payments of one customer, one request at a time and no failures.
SPECIFICATION BillingSpec
CONSTANTS
    AccessGrace = 1
    PastDueGrace = 2
    MonthDays = 2
    YearDays = 4
    Retention = 2
    MaxDay = 4
    RetryWindow = 1
    Faults = {}
    Handlers = {h1}
    Callers = {v1}
    Cancellers = {}
    Users <- MCUsers
    Ids <- MCIds
    References <- MCReferences
    Transaction <- TwoPayments
    SubscriptionCodes <- MCCodes
    Payloads <- ChargePayloads
    Payload <- Charges
CHECK_DEADLOCK FALSE
PROPERTIES RenewalKeepsDays
