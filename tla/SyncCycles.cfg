SPECIFICATION Spec
CONSTANTS
    c1 = c1
    c2 = c2
    Manual = Manual
    Cycle = {c1, c2}
    Watched = {c1}
    Unfit = {2}
    MaxVersion = 2
    MaxTroubles = 1
INVARIANTS TypeOK NothingMissed
PROPERTIES CatchesUp FailurePauses
CHECK_DEADLOCK FALSE
