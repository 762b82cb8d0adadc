SPECIFICATION Spec
CONSTANTS
    NodeLag = 0
    Script <- OrderAndMatch
    MaxBlock = 5
    MaxLogsPerBlock = 1
    ForeignOrders = {1}
    ForeignMatches = {1}
    FlatReply = FALSE
    UseWs = FALSE
    BlockRange = 1
    OverrideLastBlock = 1
    EmptyRangeFails = FALSE
    Failures = {"refused", "lost", "late"}
    MaxFaults = 2
    MaxCrashes = 1
INVARIANTS
    TypeOK
    NothingSkipped
    CheckpointSound
    InOrder
    RowBeforeUpdate
    ReplayOnlyAfterFailure
PROPERTIES
    LastBlockNeverRegresses
