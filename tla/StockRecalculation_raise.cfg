SPECIFICATION Spec
CONSTANTS
    None = None
    p1 = p1
    p2 = p2
    Pairs = {p1}
    Handlers = {h1}
    Sweep = Sweep
    Requests = {}
    Quantities = {2, 4}
    Reservations = {1, 2}
    SafetyBuffer <- MCSafetyBuffer
    MaxAttempts = 2
    RetryBatchSize = 2
    Observed = {}
    MaxCrashes = 1
PROPERTY StaleNeverRaisesAtAll
