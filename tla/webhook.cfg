SPECIFICATION FairSpec
CONSTANTS
    t1 = t1
    t2 = t2
    Lanes = {l1}
    Targets = {t1, t2}
    Configs <- MCConfigs
    QueueSize = 1
    StormWindow = 1
    MaxStorm = 2
    RetryDelays <- MCRetryDelays
    Reachable = {t1}
    MaxEvents = 3
    MaxRestarts = 1
INVARIANTS
    TypeOK
    OneConclusion
PROPERTIES
    OncePerWindow
    WithheldOnlyAsRepeat
    TargetsIsolated
