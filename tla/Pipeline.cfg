SPECIFICATION Spec
CONSTANTS
    Hashings <- MCHashings
    AllowLists = {{"chess"}}
    Modes = {"local"}
    Captures = {"telemetry", "no_metric", "late", "contact"}
    MaxQueue = 2
    MaxRetained = 1
    MaxCaptured = 3
    MaxTroubles = 2
INVARIANTS PipelineTypeOK CountsBacked PublishedAsAllowed
PROPERTIES CleanupKeepsMax QueueDrains
CHECK_DEADLOCK FALSE
