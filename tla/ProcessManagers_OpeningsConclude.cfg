CONSTANTS
    Adapters = {a1, a2}
    Namespaces = {n1, n2}
    Policies = {p1}
    NamespaceLimit = 2
    CyclicAdapters = TRUE
    MaxManagers = 3
SPECIFICATION FairSpec
CHECK_DEADLOCK FALSE
PROPERTIES
    OpeningsConclude
