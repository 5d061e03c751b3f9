\* Three revisions of a task type one at a time, on replicas whose clocks
\* differ, while a task is completed and recorded; one failure.
CONSTANTS
    Requests = {"a", "b", "c"}
    NoKey = ""
    None = "none"
    Key <- MCKey
    WireTaskType <- MCWireTaskType
    ExpectedSeconds <- MCExpectedSeconds
    TravelSeconds <- MCTravelSeconds
    Unencodable = {}
    OneAtATime = TRUE
    MaxClock = 2
    MaxSkew = 1
    MaxFaults = 1
    TicksPerSecond = 1
    Tasks = {"t1"}
    TypeOf <- MCTypeOf
SPECIFICATION ScoringSpec
INVARIANTS ScoringTypeOK OneStandardInForce RevisionsChain ScoreMatchesHistory
PROPERTIES HistoryFrozen ImplementsTimeline
