CONSTANTS
    MaxNoProgress = 2
    MaxRequests = 0
    MaxLifetime = 0
    CheckInterval = 2
    Span = 1
    MaxTraffic = 1
    MaxNow = 6
SPECIFICATION Spec
INVARIANTS
    FirstRequestGetsItsWindow
