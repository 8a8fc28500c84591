\* Two deliveries in flight, failing statements, lost replies and server crashes.
SPECIFICATION Spec
CONSTANTS
    AccessGrace = 1
    PastDueGrace = 2
    MonthDays = 2
    YearDays = 4
    Retention = 2
    MaxDay = 4
    RetryWindow = 1
    Faults = {"store", "lost", "crash"}
    Handlers = {h1, h2}
    Users <- MCUsers
    Ids <- MCIds
    References = {}
    Payloads <- TrialPayloads
    Payload <- Trial
SYMMETRY Goroutines
CHECK_DEADLOCK FALSE
INVARIANTS TypeOK ProcessedWasApplied EntitledPlan
PROPERTIES AppliedOnce ImplementsLedger
