SPECIFICATION FairSpec
CONSTANTS
    a = a
    b = b
    NoMember = NoMember
    Members = {a}
    RollingWindow = 2
    Requests = {r1, r2}
    LaneBodies <- OneMemberModes
    InitialBody <- OneMember
    Pins <- NoPins
    Outcomes = {"soft_transient", "upstream_reject", "client_error"}
    Endpoints = {"relay"}
    SettingsChoices <- FastOnly
    InitialSettings <- Fast
    MaxNow = 2
    MaxArrivals = 3
    Operations = {"edit", "flip"}
    MaxOperations = 1
CHECK_DEADLOCK FALSE
INVARIANTS
    ProbeSlotOwned
PROPERTIES
    RequestsAnswered
    ProbeSlotFreed
