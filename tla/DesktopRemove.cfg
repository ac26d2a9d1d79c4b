CONSTANTS
    Clients = {c1, c2}
    Keys = {"alt", "s", "q"}
    AskedFits = FALSE
    MaxFaults = 0
    MaxQueue = 1
    None = None
SPECIFICATION Spec
CHECK_DEADLOCK FALSE
INVARIANT DestroyedIsGone
