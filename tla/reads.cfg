\* One request while one consumer records up to four tasks of two associates; a
\* recent window of three, so that it can differ from the whole history, and
\* thresholds of two, so that they can differ from the window.
CONSTANTS
    Consumers = {"c1"}
    Partitions = {"p1"}
    Messages <- MCMessages
    Kind <- MCKind
    AssociateId <- MCAssociateId
    WireTaskType <- MCWireTaskType
    CompletedAt <- MCCompletedAt
    ActualSeconds <- MCActualSeconds
    NoAssociate = ""
    Logs <- MCLogs
    StandardSeconds = {0, 8, 12}
    IdleGapCapSeconds = 3600
    MaxHandlerAttempts = 1
    MaxFaults = 0
    TicksPerSecond = 1
    Associate = "ann"
    AskedTaskType = "PICK"
    Instants = {30, 60}
    WindowParams = {30}
    DefaultUtilizationWindow = 3600
    RecentWindowSize = 3
    MinScoredForTrend = 2
    TrendThresholdPct = 5
    CoachingThreshold = 2
    CoachingFloor = 85
SPECIFICATION ReadSpec
INVARIANTS GapsDisjoint ScorecardCoherent TrendSupported CoachingJustified OpenGapAfterCounted IdlenessNotHidden IdlenessAttributed UtilizationWithinElapsed
