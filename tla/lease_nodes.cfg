SPECIFICATION Spec
CONSTANTS
    NoRunner = NoRunner
    Runners = {p1, p2}
    MaxLive = 2
    MaxTasks = 2
    TTL = 1
    MaxNow = 3
SYMMETRY RunnerSymmetry
CHECK_DEADLOCK FALSE
INVARIANTS
    TypeOK
    OneRunnerPerTask
PROPERTIES
    OutcomeIsFinal
    LiveLeaseRespected
    KeepsPromise
