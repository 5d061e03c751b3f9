\* One projector that crashes or fails once.
CONSTANTS
    Projectors = {"j1"}
    Partitions = {"p1", "p2"}
    Events <- MCEvents
    Kind <- MCKind
    Published <- MCPublished
    Logs <- LossLogs
    TicksPerHour = 10
    Requests <- MCRequests
    MaxFaults = 1
SPECIFICATION Spec
INVARIANTS ProjectedExactlyOnce
