SPECIFICATION Spec
CONSTANTS
    NodeLag = 0
    Script <- TwoOrders
    MaxBlock = 2
    MaxLogsPerBlock = 2
    ForeignOrders = {}
    ForeignMatches = {}
    FlatReply = FALSE
    UseWs = FALSE
    BlockRange = 1
    OverrideLastBlock = 0
    EmptyRangeFails = FALSE
    Failures = {"refused", "lost", "late"}
    MaxFaults = 0
    MaxCrashes = 1
INVARIANTS
    NothingSkipped
