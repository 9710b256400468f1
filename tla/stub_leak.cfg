SPECIFICATION Spec
CONSTANTS
    a = a
    b = b
    NoMember = NoMember
    Members = {a, b}
    RollingWindow = 2
    Requests = {r1, r2}
    LaneBodies <- OnlyOneMember
    InitialBody <- OneMember
    Pins <- NoPins
    Outcomes = {"hard_auth"}
    Endpoints = {"relay", "stub"}
    SettingsChoices <- SlowOnly
    InitialSettings <- Slow
    MaxNow = 4
    MaxArrivals = 3
    Operations = {}
    MaxOperations = 0
SYMMETRY RequestSymmetry
CHECK_DEADLOCK FALSE
INVARIANT ProbeSlotOwned
