SPECIFICATION Spec
CONSTANTS
    NoRunner = NoRunner
    Runners = {p1, p2}
    MaxLive = 1
    MaxTasks = 2
    TTL = 1
    MaxNow = 5
SYMMETRY RunnerSymmetry
CHECK_DEADLOCK FALSE
INVARIANTS
    RunningTaskIsLeased
PROPERTIES
    LiveLeaseRespected
