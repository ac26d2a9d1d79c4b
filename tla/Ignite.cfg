CONSTANTS
    Paths <- MCPaths
    Recipes <- MCRecipes
    Kernel = "kernel"
    Others <- MCOthers
    Sources <- MCSources
    MaxTime = 5
    MaxEdits = 1
    MaxFailures = 1
SPECIFICATION Spec
CHECK_DEADLOCK FALSE
INVARIANTS
    SortsRight
    NothingStale
PROPERTIES
    OnlyWhatChanged
