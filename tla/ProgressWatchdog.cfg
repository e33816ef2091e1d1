CONSTANTS
    MaxNoProgress = 2
    MaxRequests = 2
    MaxLifetime = 7
    CheckInterval = 2
    Span = 1
    MaxTraffic = 2
    MaxNow = 13
SPECIFICATION Spec
INVARIANTS
    TypeOK
    ChecksAreExclusive
    KillNeedsStall
    StallIsCaught
    CheckSeesStalls
PROPERTIES
    ImplementsRequestRecord
