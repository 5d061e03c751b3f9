\* A request, its retry, the same key with other bodies, another request whose
\* event no encoder accepts, two failures.
CONSTANTS
    Requests = {"a", "a2", "x", "z", "n", "b"}
    NoKey = ""
    None = "none"
    Key <- MCKey
    WireTaskType <- MCWireTaskType
    ExpectedSeconds <- MCExpectedSeconds
    TravelSeconds <- MCTravelSeconds
    Unencodable = {"b"}
    OneAtATime = TRUE
    MaxClock = 1
    MaxSkew = 0
    MaxFaults = 2
    TicksPerSecond = 1
SPECIFICATION Spec
INVARIANTS AppliedOnce AnswersAgree OnlyRefusedUnannounced
