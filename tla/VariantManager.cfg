CONSTANTS
    Self = self
    Owners = {self, other}
    Keys = {k1, k2}
    Clients = {c1, c2}
    Capacity = 2
    MaxVariants = 1
    MaxCodeBytes = 2
    Threshold = 1
    Sizes = {1, 3}
    MaxCompiles = 2
    ProcessNamespaces = 2
    ProcessVariants = 2
    ProcessCodeBytes = 2
SPECIFICATION Spec
SYMMETRY ManagerSymmetry
CHECK_DEADLOCK FALSE
INVARIANTS
    TypeOK
    RefsCountLeases
    LeasedStaysActive
    ClosedAtMostOnce
    NoValueForgotten
    BudgetRespected
    BooksAgree
PROPERTIES
    ImplementsCodeCache
