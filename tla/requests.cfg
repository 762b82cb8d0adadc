SPECIFICATION Spec
CONSTANTS
    Half = 4
    OrderNos = {0, 1, 3, 4, 8, 9}
    MatchNos = {0, 1, 4, 9}
    Chains = {3, 12}
    Origins = {2, 9}
    Statuses <- MCStatuses
    MaxLogs = 4
INVARIANTS
    TypeOK
    OwnRow
    StuckOnlyBeyondInt64
    RowFaithful
    PairFromOneEvent
CHECK_DEADLOCK FALSE
