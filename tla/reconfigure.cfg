SPECIFICATION Spec
CONSTANTS
    a = a
    b = b
    NoMember = NoMember
    Members = {a, b}
    RollingWindow = 2
    Requests = {r1, r2}
    LaneBodies <- Edited
    InitialBody <- Sticky
    Pins <- AliasOfB
    Outcomes = {"soft_transient"}
    Endpoints = {"relay", "stub"}
    SettingsChoices <- FastOrSlow
    InitialSettings <- Fast
    MaxNow = 2
    MaxArrivals = 2
    Operations = {"edit", "reset", "options"}
    MaxOperations = 2
SYMMETRY RequestSymmetry
CHECK_DEADLOCK FALSE
INVARIANTS
    TypeOK
    WithheldForCause
    SelectionExplained
    AffinityHasHolder
