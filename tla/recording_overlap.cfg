\* Two consumers, tasks of one associate on two partitions, nothing fails.
CONSTANTS
    Consumers = {"c1", "c2"}
    Partitions = {"p1", "p2"}
    Messages <- MCMessages
    Kind <- MCKind
    AssociateId <- MCAssociateId
    WireTaskType <- MCWireTaskType
    CompletedAt <- MCCompletedAt
    ActualSeconds <- MCActualSeconds
    NoAssociate = ""
    Logs <- SplitLogs
    StandardSeconds = {0}
    IdleGapCapSeconds = 5
    MaxHandlerAttempts = 2
    MaxFaults = 0
    TicksPerSecond = 2
SPECIFICATION Spec
INVARIANTS GapsDisjoint
