CONSTANTS
    Parts = {"scalar", "invoke", "exits", "loop", "frames", "batches", "events"}
    Threads = {t1, t2}
    Variants = {v1}
    Captured = original
    Replacements = {replaced}
    RacesBinding = FALSE
    MaxRedefinitions = 3
    ExitCalls = {t1, t2}
    MaxOddities = 1
    CallThreshold = 2
    Adapters = {1, 2, 3}
    MaxRows = 3
    MaxVersion = 1
    Frames = {f1, f2}
    Values = {"v", "w"}
    Unfit = {"w"}
    Capacity = 2
    MaxEvents = 4
    BatchThreads = {t1, t2}
    Batches <- MCBatches
    DictionaryCapacity = 1
    MaxDrifts = 1
    MaxBatches = 1
SPECIFICATION FairSpec
CHECK_DEADLOCK FALSE
INVARIANTS
    SlotsSafe
    
    TypedLoopSafe
    OutputSafe
    Accounted
PROPERTIES
    ImplementsGuardedCall
    CallsConclude
    CloseEnds
