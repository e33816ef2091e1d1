\* The watchdog off, a deadline of one unit and one of three, a thread that may be late.
CONSTANTS
    Timeouts = {0, 1, 3}
    Lag = 2
    GenMod = 3
SPECIFICATION FairSpec
INVARIANTS
    TypeOK
    KillsOnlyAnOverdueCall
    OverrunIsBounded
PROPERTIES
    DoomedCallNeverCompletes
    ImplementsGuardedCall
    HungCallIsKilled
