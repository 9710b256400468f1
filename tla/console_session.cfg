SPECIFICATION FairSpec
CONSTANTS
    Tabs = {t1, t2}
    MaxSecret = 2
    MaxEvents = 1
    MaxMoves = 2
CHECK_DEADLOCK FALSE
INVARIANTS
    TypeOK
    SignOutSticks
PROPERTIES
    DeadSessionNoticed
    NavigationEnds
