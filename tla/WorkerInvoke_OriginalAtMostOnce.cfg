CONSTANTS
    Threads = {t1}
    Captured = original
    Replacements = {replaced}
    RacesBinding = FALSE
    MaxRedefinitions = 3
SPECIFICATION Spec
INVARIANTS
    OriginalAtMostOnce
