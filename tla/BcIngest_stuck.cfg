SPECIFICATION FairSpec
CONSTANTS
    LastOffset = 2
    Malformed <- MCMalformed
    Consumers = {c1}
    NoMessage = NoMessage
    NoConsumer = NoConsumer
    MaxFaults = 1
CHECK_DEADLOCK FALSE
PROPERTY RecordedIsDecided
