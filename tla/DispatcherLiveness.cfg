SPECIFICATION FairSpec
CONSTANTS
    NoProc = NoProc
    NoClaim = NoClaim
    t1 = t1
    app = app
    cli = cli
    w1 = w1
    w2 = w2
    Timers <- OneTimer
    Procs <- AppAndCli
    Clis <- OneCli
    Workers <- OneWorker
    Policy <- SkipPolicy
    Cap <- Cap2
    MaxFires = 2
    MaxKinds = 2
    Budget <- CrashAndPanic
PROPERTIES
    EveryClaimFinishes
