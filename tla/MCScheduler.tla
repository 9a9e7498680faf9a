---------------------------- MODULE MCScheduler ----------------------------
(***************************************************************************)
(* Instances of Scheduler for TLC.                                         *)
(***************************************************************************)
EXTENDS Scheduler, TLC

CONSTANTS t1, t2

Timer(misfire, grace, limit, maxRuns, jitter) ==
    [misfire |-> misfire, grace |-> grace, every |-> 0, limit |-> limit, maxRuns |-> maxRuns,
     jitter |-> jitter]
None == [s \in Slots |-> 0]
Some == [s \in Slots |-> IF s = 2 THEN 0 ELSE 1]
Skipping == Timer("skip", 0, 0, 1, None)
Coalescing == Timer("coalesce", 1, 0, 2, Some)
CatchingUp == Timer("catch_up", 1, 1, 0, None)

MCRules == {{1, 2}, {3}}
Live(timer) == [phase |-> "live", rule |-> {1, 2}, config |-> timer]
Unborn(timer) == [phase |-> "unborn", rule |-> {1, 2}, config |-> timer]
Start(s) == t1 :> s
MCStarts == {Start(Live(Coalescing)), Start(Live(Skipping)), Start(Live(CatchingUp)),
             Start(Unborn(Coalescing))}
MCSteps == {-2, 2}
MCBudget == [e \in EnvEvents |-> 1]
=============================================================================
