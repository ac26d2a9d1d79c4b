CONSTANTS
    Clients = {c1, c2}
    Keys = {"alt", "s", "q"}
    AskedFits = FALSE
    MaxFaults = 1
    MaxQueue = 2
    Buffer = 2
    None = None
SPECIFICATION SysFairSpec
CHECK_DEADLOCK FALSE
INVARIANTS
    FocusOnWindow
    OneImageEach
    DrawsWhatIsShown
    ReplyNamesImage
PROPERTIES
    FitsAgain
    AskedIsServed
    CatchesUp
