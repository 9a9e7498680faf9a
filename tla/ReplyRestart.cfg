SPECIFICATION FairSpec
CONSTANTS
    NoDoc = NoDoc
    Stub = Stub
    NoFile = NoFile
    NoTime = NoTime
    NoEntry = NoEntry
    MaxRuns = 1
    Docs <- AllKinds
    Grace = 1
    Span = 1
    Jump = 1
    MaxKinds = 2
    Budget <- Faults
INVARIANTS
    NoEarlyNoAck
PROPERTIES
    PickupResolves
    ReplyIsHeard
