SPECIFICATION Spec
CONSTANTS
    None = None
    p1 = p1
    p2 = p2
    Pairs = {p1}
    Handlers = {h1}
    Sweep = Sweep
    Requests = {m1}
    Quantities = {0, 3}
    Reservations = {1}
    SafetyBuffer <- MCSafetyBuffer
    MaxAttempts = 2
    RetryBatchSize = 2
    Observed = {p1}
    MaxCrashes = 1
CONSTRAINT TwoAtOnce
INVARIANTS
    TypeOK
    UnflaggedIsConfirmed
    DoneIsUpToDate
    StaleIsOwned
    PublishedWithinResult
    PublishedRestsOnConfirmed
    AbandonedIsExhausted
PROPERTIES
    StaleNeverRaises
