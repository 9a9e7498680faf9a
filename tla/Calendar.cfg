\* Every view, kind of rule and zone; any part of the history of two runs and a dropped backlog.
SPECIFICATION CalendarSpec
CHECK_DEADLOCK FALSE
CONSTANTS
    Day = 4
    Week = 3
    MonthLengths <- Months17
    YearMonths = 2
    GapLimit = 3
    MaxCandidates = 20
    LastDate = 16
    Requests <- Views
    TaskLists <- Lists
    EditCases <- Edited
    Born = 9
    SystemZone <- East
    UtcZone <- Utc
    History <- Logged
    Ledger <- Finished
    MaxTasks = 3
    MaxFires = 5
    MaxEntries = 8
    MaxPerCell = 1
INVARIANTS
    HistoryIsHonest
    ProjectionIsComplete
PROPERTIES
    EditsKeepTheRest
