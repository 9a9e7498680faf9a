\* Two requests, one consumer, two faults of any kind.
SPECIFICATION FairSpec
CHECK_DEADLOCK FALSE
CONSTANTS
    Producers = {"p1", "p2"}
    Consumers = {"c1"}
    RequestOf <- TwoIds
    Timers = {"t"}
    Apps = {"a"}
    Effect <- AddThenDelete
    MinFree = 1
    MaxId = 5
    Faults = {"crash", "io", "store", "taken"}
    MaxFaults = 2
INVARIANTS
    AppliedOnce
    AnswersAreDurable
PROPERTIES
    PublishedStays
    EveryRequestSettles
