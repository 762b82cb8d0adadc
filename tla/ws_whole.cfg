SPECIFICATION Spec
CONSTANTS
    NodeLag = 1
    Script <- TwoUpdates
    MaxBlock = 3
    MaxLogsPerBlock = 2
    ForeignOrders = {}
    ForeignMatches = {}
    FlatReply = FALSE
    UseWs = TRUE
    BlockRange = 0
    OverrideLastBlock = 0
    EmptyRangeFails = FALSE
    Failures = {"refused", "lost"}
    MaxFaults = 2
    MaxCrashes = 0
INVARIANTS
    LossOnlyIfUnseen
    RowsCurrent
CHECK_DEADLOCK FALSE
