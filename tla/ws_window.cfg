SPECIFICATION Spec
CONSTANTS
    NodeLag = 0
    Script <- TwoOrders
    MaxBlock = 2
    MaxLogsPerBlock = 1
    ForeignOrders = {}
    ForeignMatches = {}
    FlatReply = FALSE
    UseWs = TRUE
    BlockRange = 1
    OverrideLastBlock = 0
    EmptyRangeFails = FALSE
    Failures = {"refused", "lost", "late"}
    MaxFaults = 0
    MaxCrashes = 0
INVARIANTS
    NothingSkipped
CHECK_DEADLOCK FALSE
