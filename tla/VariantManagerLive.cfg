CONSTANTS
    Self = self
    Owners = {self}
    Keys = {k1, k2}
    Clients = {c1}
    Capacity = 2
    MaxVariants = 1
    MaxCodeBytes = 2
    Threshold = 1
    Sizes = {0, 1}
    MaxCompiles = 2
    ProcessNamespaces = 1
    ProcessVariants = 2
    ProcessCodeBytes = 3
SPECIFICATION FairSpec
CHECK_DEADLOCK FALSE
PROPERTIES
    CompilationsSettle
    CloseTerminates
