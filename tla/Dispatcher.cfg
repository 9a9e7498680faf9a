SPECIFICATION Spec
CONSTANTS
    NoProc = NoProc
    NoClaim = NoClaim
    t1 = t1
    app = app
    cli = cli
    w1 = w1
    w2 = w2
    Timers <- OneTimer
    Procs <- AppAndCli
    Clis <- OneCli
    Workers <- TwoWorkers
    Policy <- ReplacePolicy
    Cap <- Cap2
    MaxFires = 2
    MaxKinds = 1
    Budget <- Faults
SYMMETRY WorkerSymmetry
INVARIANTS
    NoDoubleExecution
    OneOutcomeEvent
    ReservationsBacked
    ReplaceKeepsNewest
    SerialOrder
PROPERTIES
    ImplementsLedger
