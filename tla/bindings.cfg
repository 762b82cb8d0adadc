SPECIFICATION FairSpec
CONSTANTS
    Logs <- MCLogs
    Malformed = {6}
    OutSize = 1
INVARIANTS
    TypeOK
    NoGap
    IteratorComplete
    WatchTellsWhy
    WatchReleases
PROPERTIES
    CloseEnds
    LoopEnds
CHECK_DEADLOCK FALSE
