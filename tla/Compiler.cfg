CONSTANTS
    Parts = {"break", "core", "passes", "regions", "reuse"}
    Codes <- MCCodes
    StackSize = 3
    Modules <- MCModules
    TypedModules <- MCTypedModules
    Inputs <- MCInputs
    MaxInt = 3
    MaxSteps = 24
    Functions <- MCFunctions
    Rows = {"given", "r1", "r2"}
    Decoded <- MCDecoded
    Changes <- MCChanges
    MaxChanges = 1
    CacheCapacity = 2
    PassModules <- MCPassModules
    Claims <- MCClaims
    Needs <- MCNeeds
    MaxNodes = 3
    MaxIterations = 2
SPECIFICATION Spec
CHECK_DEADLOCK FALSE
INVARIANTS
    
    ImportFollowsExecution
    RegionsAgree
    TypedRegionsAgree
    
