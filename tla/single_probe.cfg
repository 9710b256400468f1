SPECIFICATION Spec
CONSTANTS
    a = a
    b = b
    NoMember = NoMember
    Members = {a, b}
    RollingWindow = 2
    Requests = {r1, r2}
    LaneBodies <- OnlyOneMember
    InitialBody <- OneMember
    Pins <- NoPins
    Outcomes = {"soft_transient"}
    Endpoints = {"relay"}
    SettingsChoices <- SlowOnly
    InitialSettings <- Slow
    MaxNow = 3
    MaxArrivals = 4
    Operations = {}
    MaxOperations = 0
SYMMETRY RequestSymmetry
CHECK_DEADLOCK FALSE
INVARIANT SingleProbe
