SPECIFICATION Spec
CONSTANTS
    Timers = {1, 2}
    Modes <- OneEach
    Fixed = TRUE
    Conns = {"c"}
    Limit = 2
    MaxAttempts = 1
    Depth = 1
    MaxRuns = 2
    Env = {"crash", "io", "delete", "hangup", "consume", "ack", "silence"}
    MaxEnv = 1
CHECK_DEADLOCK FALSE
INVARIANTS
    NamesItsFiles
PROPERTIES
    NewerStays
    SettledStays
