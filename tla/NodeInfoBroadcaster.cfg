CONSTANTS
    MaxInterval = 3
    StartupDelay = 2
    Never = Never
SPECIFICATION FairSpec
INVARIANTS
    BroadcasterTypeOK
    WakesByDue
    PausedMeansZero
PROPERTY DueIsAttempted
