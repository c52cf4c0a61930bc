CONSTANTS
    MaxPerMinute = 3
    BurstSize = 2
    Window = 5
    BurstWindow = 2
    Horizon = 13
SPECIFICATION Spec
INVARIANTS
    LimiterTypeOK
    WindowBound
    BurstBound
PROPERTY ImplementsSlidingWindow
