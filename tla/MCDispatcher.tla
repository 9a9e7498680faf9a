---------------------------- MODULE MCDispatcher ----------------------------
(* Instances of Dispatcher for TLC.                                        *)
EXTENDS Dispatcher, TLC

CONSTANTS t1, app, cli, w1, w2

OneTimer == {t1}
AppAndCli == {app, cli}
OneCli == {cli}
OneWorker == {w1}
TwoWorkers == {w1, w2}

Uniform(policy) == [t \in Timers |-> policy]
SkipPolicy == Uniform("skip")
ReplacePolicy == Uniform("replace")

Cap2 == [t \in Timers |-> 2]

May(allowed) == [e \in EnvEvents |-> IF e \in allowed THEN 1 ELSE 0]
Faults == May(EnvEvents)
CrashAndPanic == May({"crash", "panic"})

WorkerSymmetry == Permutations(Workers)
=============================================================================
