CONSTANTS
    Sizes <- MCSizes
    MaxRead = 3
    MaxBack = 3
SPECIFICATION Spec
CHECK_DEADLOCK FALSE
INVARIANTS
    CutsDoNotShow
    ShowsWhatItHolds
PROPERTIES
    StaysOnGrid
