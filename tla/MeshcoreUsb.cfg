CONSTANTS
    MaxGlitches = 2
    MaxOutages = 2
SPECIFICATION FairSpec
INVARIANTS
    UsbTypeOK
    OneOpener
    StoppedIsClean
    OneMissTolerated
    FetchingWhenQuiet
PROPERTY SelfHeals
CHECK_DEADLOCK FALSE
