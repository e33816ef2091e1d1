CONSTANTS
    InitialBackoff = 1
    MaxBackoff = 30
    StableRuntime = 60
SPECIFICATION FairSpec
INVARIANTS
    TypeOK
    RestartsAreSpacedOut
PROPERTIES
    EveryExitIsAnswered
