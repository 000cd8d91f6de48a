CONSTANTS
    Closer = closer
    Keys = {k1, k2}
    Workers = {w1, w2}
    Callers = {c1, c2}
    MaxPending = 1
    MaxTasks = 2
SPECIFICATION FairSpec
CHECK_DEADLOCK FALSE
INVARIANTS
    PoolConsistent
PROPERTIES
    DrainedMeansDelivered
    EveryTaskDelivered
    ClosedPoolQuiesces
    ImplementsService
