CONSTANTS
    Clients = {console, editor}
    Windows = {console, editor}
    Console = console
    Keyboard = keyboard
    Self = self
    NoSource = NoSource
    MaxImages = 1
    MaxFaults = 2
SPECIFICATION SFairSpec
CHECK_DEADLOCK FALSE
INVARIANTS
    ShownIsWhole
    ClientOnlyAfterCrash
    SourcesKept
PROPERTIES
    SeenInTheEnd
