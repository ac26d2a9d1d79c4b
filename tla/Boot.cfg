CONSTANTS
    ChannelSize = 3
    MaxOrphans = 4
    MaxRequests = 2
    Images <- MCImages
    MaxErrors = 2
SPECIFICATION BFairSpec
CHECK_DEADLOCK FALSE
INVARIANTS
    RebootAfterManager
    CommandIsAsked
    StagesComplete
PROPERTIES
    RequestHonoured
    NobodyLeftUp
    ZombiesReaped
