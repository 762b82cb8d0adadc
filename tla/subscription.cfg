SPECIFICATION FairSpec
CONSTANTS
    ChannelSize = 1
    MaxBuffer = 1
    Malformed = {4}
    MaxLogs = 4
INVARIANTS
    TypeOK
PROPERTIES
    UnsubscribeReturns
    EndIsNoticed
    PushedIsTaken
    QueueSpec
CHECK_DEADLOCK FALSE
