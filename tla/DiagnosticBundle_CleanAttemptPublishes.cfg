CONSTANTS
    Recorded = {"a", "b"}
    MaxBytes = 4
    MaxFaults = 1
    MaxAttempts = 2
SPECIFICATION Spec
CHECK_DEADLOCK FALSE
INVARIANTS
    CleanAttemptPublishes
