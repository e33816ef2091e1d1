CONSTANTS
    n1 = n1
    n2 = n2
    b1 = b1
    b2 = b2
    Names <- MCNames
    Blobs <- MCBlobs
    Unknown = Unknown
    NoName = NoName
    NoModel = NoModel
    Nothing = Nothing
    Preloads <- NothingPreloaded
    WarmupRuns = 2
    Watched = TRUE
    Tracked = TRUE
SPECIFICATION Spec
INVARIANTS
    RequestsRunOnWarmModel
