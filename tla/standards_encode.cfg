\* An outbox encoder refuses the event of a definition.
CONSTANTS
    Requests = {"a"}
    NoKey = ""
    None = "none"
    Key <- MCKey
    WireTaskType <- MCWireTaskType
    ExpectedSeconds <- MCExpectedSeconds
    TravelSeconds <- MCTravelSeconds
    Unencodable = {"a"}
    OneAtATime = TRUE
    MaxClock = 1
    MaxSkew = 0
    MaxFaults = 0
    TicksPerSecond = 1
SPECIFICATION Spec
INVARIANTS EveryStandardAnnounced
