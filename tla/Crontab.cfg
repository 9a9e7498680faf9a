\* One command line, the user editing at any moment, one backup kept.
SPECIFICATION CronSpec
CHECK_DEADLOCK FALSE
CONSTANTS
    Commands = {"backup", "sync"}
    Schedules = {"daily", "hourly"}
    Spacings = {"single", "wide"}
    Texts <- SomeTexts
    Clis = {p}
    MaxBackups = 1
    MaxLines = 6
    MaxSeconds = 2
    MaxCommands = 3
    MaxEdits = 1
    ReadFails = FALSE
INVARIANTS
    BackedUp
PROPERTIES
    SparesTheOthers
    RestoreIsExact
