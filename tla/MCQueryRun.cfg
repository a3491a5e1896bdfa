CONSTANTS
    c1 = c1
    c2 = c2
    c3 = c3
    Callers = {c1, c2, c3}
    Plans <- EveryPlan
    PoolSize = 2
    MaxRows = 1
    Cancels = TRUE
SPECIFICATION Spec
INVARIANT NoneLeaked
PROPERTY EveryIterationEnds
PROPERTY CancelEnds
CHECK_DEADLOCK FALSE
