CONSTANTS
    n1 = n1
    n2 = n2
    b1 = b1
    b2 = b2
    Names <- MCNames
    Blobs <- MCBlobs
    Unknown = Unknown
    NoName = NoName
    NoModel = NoModel
    Nothing = Nothing
    Preloads <- MCPreloads
    Wanted <- MCWanted
    WarmupRuns = 1
    Watched = TRUE
    Tracked = TRUE
    InitialBackoff = 1
    MaxBackoff = 1
    StableRuntime = 1
    MaxFaults = 2
SPECIFICATION FairSpec
INVARIANTS
    TypeOK
    DetectionsAreOfTheRightModel
    ZerosComeOfTrouble
PROPERTIES
    ServiceResumes
