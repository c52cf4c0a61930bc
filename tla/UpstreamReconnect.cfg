CONSTANTS
    BufferSize = 2
    MaxBackoff = 1
    MaxMessages = 1
    MaxRecords = 0
    MaxBeats = 1
    MaxFaults = 1
    NoMessage = NoMessage
SPECIFICATION FairSpec
PROPERTY Reconnects
CHECK_DEADLOCK FALSE
