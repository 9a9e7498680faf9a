\* Every machine the probes tell apart; three commands or foreign alarms, one change of what the probes find, two timers.
SPECIFICATION Spec
CHECK_DEADLOCK FALSE
CONSTANTS
    Timers = {"t1", "t2"}
    Machines <- All
    Slack = 1
    MaxTime = 4
    MaxEdits = 3
    MaxFlips = 1
    Overlap = FALSE
INVARIANTS
    WakesByTimerfd
    ForeignKept
