SPECIFICATION Spec
CONSTANTS
    Tabs = {t1, t2}
    MaxSecret = 2
    MaxEvents = 1
    MaxMoves = 2
SYMMETRY TabSymmetry
CHECK_DEADLOCK FALSE
INVARIANT LoginHolds
