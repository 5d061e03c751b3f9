\* Two callers revise a task type at once under different keys.
CONSTANTS
    Requests = {"a", "b"}
    NoKey = ""
    None = "none"
    Key <- MCKey
    WireTaskType <- MCWireTaskType
    ExpectedSeconds <- MCExpectedSeconds
    TravelSeconds <- MCTravelSeconds
    Unencodable = {}
    OneAtATime = FALSE
    MaxClock = 2
    MaxSkew = 0
    MaxFaults = 0
    TicksPerSecond = 1
SPECIFICATION Spec
INVARIANTS OneStandardInForce
