SPECIFICATION FairSpec
CONSTANTS
    None = None
    p1 = p1
    p2 = p2
    Pairs = {p1, p2}
    Handlers = {h1}
    Sweep = Sweep
    Requests = {}
    Quantities = {0}
    Reservations = {0}
    SafetyBuffer <- MCSafetyBuffer
    MaxAttempts = 2
    RetryBatchSize = 1
    Observed = {}
    MaxCrashes = 0
PROPERTIES EveryPendingEnds BusyPairsAbandon
