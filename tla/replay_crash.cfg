SPECIFICATION Spec
CONSTANTS
    NodeLag = 0
    Script <- TwoUpdates
    MaxBlock = 4
    MaxLogsPerBlock = 1
    ForeignOrders = {}
    ForeignMatches = {}
    FlatReply = FALSE
    UseWs = FALSE
    BlockRange = 3
    OverrideLastBlock = 0
    EmptyRangeFails = FALSE
    Failures = {"refused", "lost"}
    MaxFaults = 1
    MaxCrashes = 1
INVARIANTS
    RowsCurrent
