SPECIFICATION FairSpec
CONSTANTS
    NodeLag = 0
    Script <- OrderAndMatch
    MaxBlock = 3
    MaxLogsPerBlock = 2
    ForeignOrders = {}
    ForeignMatches = {}
    FlatReply = TRUE
    UseWs = FALSE
    BlockRange = 0
    OverrideLastBlock = 0
    EmptyRangeFails = TRUE
    Failures = {"refused", "lost", "late"}
    MaxFaults = 2
    MaxCrashes = 1
INVARIANTS
    NothingSkipped
PROPERTIES
    FeedSpec
