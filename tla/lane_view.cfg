SPECIFICATION FairSpec
CONSTANTS
    Keys = {k1, k2}
    Window = 1
    PollInterval = 1
    StaleTime = 1
    BaseDelay = 1
    MaxDelay = 1
    OnTime = 1
    MaxVersion = 2
    MaxAttempt = 0
    MaxMoves = 1
INVARIANTS
    TypeOK
    StaleBound
PROPERTIES
    ShownForward
    ShowsCurrent
