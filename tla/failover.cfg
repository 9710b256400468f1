SPECIFICATION Spec
CONSTANTS
    a = a
    b = b
    NoMember = NoMember
    Members = {a, b}
    RollingWindow = 2
    Requests = {r1, r2}
    LaneBodies <- OnlyTwoMembers
    InitialBody <- TwoMembers
    Pins <- NoPins
    Outcomes = {"hard_auth", "soft_transient"}
    Endpoints = {"relay"}
    SettingsChoices <- FastOnly
    InitialSettings <- Fast
    MaxNow = 4
    MaxArrivals = 3
    Operations = {}
    MaxOperations = 0
SYMMETRY RequestSymmetry
CHECK_DEADLOCK FALSE
INVARIANTS
    ProbeSlotOwned
    SelectionExplained
    NoRawUpstreamError
PROPERTIES
    ReopenOnProbeFailure
    BackoffNeverShrinks
