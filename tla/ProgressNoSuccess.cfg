CONSTANTS
    MaxNoProgress = 2
    MaxRequests = 0
    MaxLifetime = 0
    CheckInterval = 1
    Span = 0
    MaxTraffic = 3
    MaxNow = 8
SPECIFICATION Spec
INVARIANTS
    NoSuccessMeansExit
