SPECIFICATION FairSpec
CONSTANTS
    NodeLag = 0
    Script <- OrderAndMatch
    MaxBlock = 4
    MaxLogsPerBlock = 1
    ForeignOrders = {}
    ForeignMatches = {}
    FlatReply = FALSE
    UseWs = TRUE
    BlockRange = 1
    OverrideLastBlock = 0
    EmptyRangeFails = FALSE
    Failures = {"refused", "lost"}
    MaxFaults = 1
    MaxCrashes = 1
INVARIANTS
    LossOnlyIfUnseen
PROPERTIES
    LastBlockNeverRegresses
    EventuallyIndexedIfSeen
    SubscriptionAsQueue
CHECK_DEADLOCK FALSE
