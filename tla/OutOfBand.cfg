SPECIFICATION Spec
CONSTANTS
    Regions = {"US", "EU_868"}
    MaxRequests = 2
    MaxWizards = 1
    MaxBoots = 2
INVARIANT TransmitsInBand
CHECK_DEADLOCK FALSE
