CONSTANTS
    ChannelSize = 4
    MaxOrphans = 5
    MaxRequests = 2
SPECIFICATION FairSpec
CHECK_DEADLOCK FALSE
PROPERTY RequestNeverLost
