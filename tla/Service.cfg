SPECIFICATION FairServiceSpec
CONSTANTS
    LastOffset = 2
    Malformed <- MCMalformed
    Consumers = {c1, c2}
    NoMessage = NoMessage
    NoConsumer = NoConsumer
    MaxFaults = 2
    Instances = {c1, c2}
    Topics = {bc, ec}
    BcTopic = bc
    LeaderAttempts = 2
CHECK_DEADLOCK FALSE
INVARIANTS
    ServiceTypeOK
    AppliedAtMostOnce
    InboxTellsTheTruth
    PendingIsHeld
    CommittedIsRecorded
    SubscribesToReadyTopics
PROPERTIES
    EveryMessageDecided
