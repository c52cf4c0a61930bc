CONSTANTS
    MaxInterval = 2
    StartupDelay = 1
    Never = Never
SPECIFICATION FairSpec
PROPERTY EventLoopGoesOn
