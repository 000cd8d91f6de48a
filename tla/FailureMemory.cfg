CONSTANTS
    Keys = {k1, k2, k3}
    Callers = {c1, c2}
    TTL = 1
    MaxEntries = 2
    Threshold = 1
    Reset = 1
    MaxClock = 2
    MaxFailures = 2
SPECIFICATION Spec
SYMMETRY MemorySymmetry
CHECK_DEADLOCK FALSE
INVARIANTS
    MemorySafe
PROPERTIES
    ForgottenForAReason
    ImplementsRetryGate
