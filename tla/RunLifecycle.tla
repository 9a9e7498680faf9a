---------------------------- MODULE RunLifecycle ----------------------------
(***************************************************************************)
(* What the reply channel promises of the runs of a timer, with no file,   *)
(* socket, slot, deadline, process or crash in sight: only the current run *)
(* moves and only while the timer exists; Bellman's own verdicts (the      *)
(* pickup lapsed, the watchdog gave up) the app may revise, the app's none *)
(* but the app; the next fire and the deletion close for good what is      *)
(* open; and whatever a run comes to, the log is told in the same step.    *)
(* ReplyLifecycle implements it (ReplyLifecycle!ImplementsLifecycle).      *)
(***************************************************************************)
EXTENDS Naturals

CONSTANT MaxRuns    \* bound: fires of the timer

Runs == 1..MaxRuns
Open == {"fired", "acknowledged", "running"}
AppVerdicts == {"completed", "failed"}
Provisional == {"no_ack", "timed_out"}

VARIABLES
    live,       \* the timer exists
    current,    \* the run of its latest fire, 0 before the first
    phase,      \* where each run stands
    told        \* what the log has been told of it

vars == <<live, current, phase, told>>

\* What the app may say of a run that stands at p.
MaySay(p) == CASE p \in Open \union Provisional -> {"acknowledged", "running"} \union AppVerdicts
               [] p \in AppVerdicts -> AppVerdicts
               [] OTHER -> {}

\* What the log calls a run that comes to p; a reply can say with it that it has picked the run up.
Words(p) == CASE p \in {"none", "fired"} -> {}
              [] p = "timed_out" -> {"failed"}
              [] OTHER -> {p}
Pickups == SUBSET {"acknowledged"}

\* How the next fire leaves a run that stands at p.
Closed(p) == IF p \in Open THEN "superseded" ELSE p

Init ==
    /\ live = TRUE /\ current = 0
    /\ phase = [r \in Runs |-> "none"]
    /\ told = [r \in Runs |-> {}]

Comes(p, also) ==
    /\ phase' = [phase EXCEPT ![current] = p]
    /\ told' = [told EXCEPT ![current] = @ \union Words(p) \union also]

\* The app speaks, by a file, a frame or a slot.
Report ==
    /\ live /\ current # 0
    /\ \E p \in MaySay(phase[current]), also \in Pickups : Comes(p, also)
    /\ UNCHANGED <<live, current>>

\* Nobody picked it up.
PickupLapses ==
    /\ live /\ current # 0 /\ phase[current] = "fired"
    /\ Comes("no_ack", {})
    /\ UNCHANGED <<live, current>>

\* The app picked it up and was not heard of again.
TimesOut ==
    /\ live /\ current # 0 /\ phase[current] \in {"acknowledged", "running"}
    /\ Comes("timed_out", {})
    /\ UNCHANGED <<live, current>>

\* The timer fires; what the app has still to say of the run before is heard first.
Fire ==
    /\ live /\ current < MaxRuns
    /\ current' = current + 1
    /\ LET stands == IF current = 0 THEN "none" ELSE phase[current] IN
       \E p \in {stands} \union MaySay(stands), also \in Pickups :
          /\ phase' = [r \in Runs |-> CASE r = current -> Closed(p)
                                        [] r = current + 1 -> "fired"
                                        [] OTHER -> phase[r]]
          /\ told' = [r \in Runs |-> IF r = current
                                     THEN told[r] \union Words(p) \union Words(Closed(p)) \union also
                                     ELSE told[r]]
    /\ UNCHANGED live

\* The timer is deleted.
Delete ==
    /\ live /\ live' = FALSE
    /\ IF current # 0 /\ phase[current] \in Open THEN Comes("cancelled", {})
       ELSE UNCHANGED <<phase, told>>
    /\ UNCHANGED current

Next == Report \/ PickupLapses \/ TimesOut \/ Fire \/ Delete

Spec == Init /\ [][Next]_vars
=============================================================================
