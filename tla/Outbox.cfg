CONSTANTS
    Procs = {"watcher", "cli"}
    Watcher = "watcher"
    Faults = {"io", "journal"}
    MaxLines = 2
    TailScan = 1
    Budget = 4
    OneShots = {"t1"}
    MaxEvents = 3
    MaxPrunes = 1
    MaxFaults = 1
    MaxCrashes = 1
SPECIFICATION FairSpec
INVARIANTS
    NothingLost
    ArtifactsAreJournaled
    QuietHistoryIsWhole
PROPERTIES
    StampedAfterRotation
    ImplementsLog
    OutboxDrains
