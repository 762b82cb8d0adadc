SPECIFICATION FairProcess
CONSTANTS
    Files <- MCFiles
    MaxChainID = 9
    MaxFaults = 6
    Periods = {0, 1, 3, 10, 20, 30}
    MaxPeriod = 20
    RunnerReturns = TRUE
    MaxErrors = 7
INVARIANTS
    ProcessTypeOK
    PauseDoubles
    PauseAtMostMax
    WorksOnlyIfUsable
PROPERTIES
    EventuallyWorks
CHECK_DEADLOCK FALSE
