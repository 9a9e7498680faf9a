SPECIFICATION Spec
CONSTANTS
    NoDoc = NoDoc
    Stub = Stub
    NoFile = NoFile
    NoTime = NoTime
    NoEntry = NoEntry
    MaxRuns = 2
    Docs <- Verdicts
    Grace = 1
    Span = 1
    Jump = 1
    MaxKinds = 1
    Budget <- Dialogue
PROPERTIES
    VerdictStands
    ImplementsLifecycle
    OutcomeNotDropped
