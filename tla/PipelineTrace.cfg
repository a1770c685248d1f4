SPECIFICATION TraceSpec
CONSTANTS
    Pairs = {p1, p2}
    Traced = {p1}
    Quantities = {1, 2, 3}
    MaxCalls = 2
    None = None
    BatchSize = 2
    MaxRows = 3
    MaxFaults = 1
    RecentLimit = 3
    MaxEvents = 2
CONSTRAINT Bounded
INVARIANTS
    TraceTypeOK
    TopicEndsAtPublished
    CalculationHasItsRow
    StockHasItsEvent
    OrderPreserved
PROPERTIES
    EveryRowSent
    PublishedInOrder
