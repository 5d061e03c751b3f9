\* Two projectors, redelivered and unreadable events, two failures.
CONSTANTS
    Projectors = {"j1", "j2"}
    Partitions = {"p1", "p2"}
    Events <- MCEvents
    Kind <- MCKind
    Published <- MCPublished
    Logs <- MCLogs
    TicksPerHour = 10
    Requests <- MCRequests
    MaxFaults = 2
SPECIFICATION FairSpec
INVARIANTS TypeOK ReportMatchesEvents LossBounded
PROPERTIES NeverWedged
