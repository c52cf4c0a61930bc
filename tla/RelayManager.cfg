CONSTANTS
    text = text
    position = position
    secret = secret
    NoPacket = NoPacket
    Keys = {text, position, secret}
    Worthy = {text, position}
    Undecrypted = {secret}
    MaxPerMinute = 2
    BurstSize = 1
    Window = 3
    BurstWindow = 1
    MaxEntries = 2
    TTL = 3
    MaxHeard = 4
    Horizon = 4
SPECIFICATION Spec
INVARIANTS
    RelayTypeOK
    FirstHearingDecides
    DuplicateIsRecent
    ReadmittedLateOrCrowdedOut
