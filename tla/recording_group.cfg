\* Two consumers sharing two partitions, a redelivered event and every kind of
\* poison message, two failures, crashes or rebalances.
CONSTANTS
    Consumers = {"c1", "c2"}
    Partitions = {"p1", "p2"}
    Messages <- MCMessages
    Kind <- MCKind
    AssociateId <- MCAssociateId
    WireTaskType <- MCWireTaskType
    CompletedAt <- MCCompletedAt
    ActualSeconds <- MCActualSeconds
    NoAssociate = ""
    Logs <- PoisonLogs
    StandardSeconds = {0, 8}
    IdleGapCapSeconds = 5
    MaxHandlerAttempts = 2
    MaxFaults = 2
    TicksPerSecond = 2
SPECIFICATION FairSpec
INVARIANTS TypeOK NoMessageLost RecordedTogether AnnouncedOnce
PROPERTIES ImplementsScoreOnce EventuallySettled
