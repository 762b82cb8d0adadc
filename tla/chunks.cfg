SPECIFICATION FairSpec
CONSTANTS
    Modulus = 16
INVARIANTS
    CallsApart
    CoversAll
PROPERTIES
    LoopEnds
CHECK_DEADLOCK FALSE
