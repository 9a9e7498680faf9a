--------------------------- MODULE MCTimerFolders ---------------------------
(* Two timers of the same name whose ids share the short form. *)
EXTENDS TimerFolders, TLC

SameSlug == [t \in Ids |-> "backup"]
SamePrefix == [t \in Ids |-> "a001"]
\* One that is to come, one that is due and soon past its validity, one that has fired.
Timers == {[at |-> 2, until |-> 0, fired |-> 0], [at |-> 1, until |-> 2, fired |-> 0],
           [at |-> 1, until |-> 0, fired |-> 1]}
Symmetry == Permutations(Ids)
=============================================================================
