CONSTANTS
    BufferSize = 2
    MaxBackoff = 1
    MaxMessages = 3
    MaxRecords = 1
    MaxBeats = 2
    MaxFaults = 2
    NoMessage = NoMessage
SPECIFICATION FairSpec
INVARIANTS
    UpstreamTypeOK
    NeverSentUnconnected
    InOrderOncePerConnection
    LossIsOverflow
    HeartbeatsDisjointOrRepeated
PROPERTY BufferDrains
CHECK_DEADLOCK FALSE
