SPECIFICATION FairSpec
CONSTANTS
    t1 = t1
    t2 = t2
    Timers = {t1}
    Rules <- MCRules
    Starts <- MCStarts
    MaxTime = 3
    Horizon = 2
    MaxSleep = 1
    Floor = 2
    Jump = 1
    HighFreq = 0
    WalkCap = 5
    Steps <- MCSteps
    Total = 2
    Budget <- MCBudget
CHECK_DEADLOCK FALSE
INVARIANTS
    HeapComplete
    MaxRunsKept
PROPERTIES
    DueIsHandled
    BacklogIsLogged
