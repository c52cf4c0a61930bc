SPECIFICATION Spec
CONSTANTS
    Regions = {"US", "ANZ"}
    MaxRequests = 2
    MaxWizards = 1
    MaxBoots = 2
INVARIANTS
    ConfigTypeOK
    SavedStays
    MemoryIsSaved
    RunningIsSaved
    ReachesEveryChannel
PROPERTIES
    IdentityStable
CHECK_DEADLOCK FALSE
