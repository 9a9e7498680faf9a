---------------------------- MODULE ClaimLedger ----------------------------
(***************************************************************************)
(* What the fire dispatcher promises of the claims of a timer, with no     *)
(* process, lock, lane or channel in sight: a claim is admitted once,      *)
(* started only from pending and only while its timer has a free slot,     *)
(* returned to pending any number of times, and finished for good.         *)
(* Dispatcher implements it (Dispatcher!ImplementsLedger).                 *)
(***************************************************************************)
EXTENDS Integers, FiniteSets

CONSTANTS
    Timers,
    MaxFires,    \* bound: claims of one timer
    Slots        \* actions of a timer that may run at once

Claims == Timers \X (1..MaxFires)
ClaimsOf(t) == {c \in Claims : c[1] = t}

VARIABLES
    status,      \* the state of each claim's row
    running      \* claims whose action runs

vars == <<status, running>>

Init ==
    /\ status = [c \in Claims |-> "absent"]
    /\ running = {}

IsNext(c) ==
    /\ status[c] = "absent"
    /\ \A d \in ClaimsOf(c[1]) : d[2] < c[2] => status[d] # "absent"

\* A fire: the new claim is pending or, when the overlap policy skips it,
\* finished at birth; older pending claims of the timer may be finished with it.
Fire(c) ==
    /\ IsNext(c)
    /\ \E birth \in {"pending", "finished"} :
       \E replaced \in {{}, {d \in ClaimsOf(c[1]) : status[d] = "pending"}} :
           status' = [d \in Claims |-> IF d = c THEN birth
                                       ELSE IF d \in replaced THEN "finished"
                                       ELSE status[d]]
    /\ UNCHANGED running

\* An action starts: the claim is pending, nobody runs it, a slot is free.
Start(c) ==
    /\ status[c] = "pending"
    /\ c \notin running
    /\ Cardinality(running \intersect ClaimsOf(c[1])) < Slots[c[1]]
    /\ status' = [status EXCEPT ![c] = "active"]
    /\ running' = running \union {c}

\* An action ends with its result.
Finish(c) ==
    /\ c \in running
    /\ status' = [status EXCEPT ![c] = "finished"]
    /\ running' = running \ {c}

\* An action ends without one, and its claim may be tried again.
Retry(c) ==
    /\ c \in running
    /\ \/ status' = [status EXCEPT ![c] = IF @ = "active" THEN "pending" ELSE @]
       \/ UNCHANGED status
    /\ running' = running \ {c}

\* A claim that does not run is finished unstarted.
Close(c) ==
    /\ status[c] \in {"pending", "active"}
    /\ c \notin running
    /\ status' = [status EXCEPT ![c] = "finished"]
    /\ UNCHANGED running

\* A new owner returns every active claim to pending.
Recover ==
    /\ status' = [c \in Claims |-> IF status[c] = "active" THEN "pending" ELSE status[c]]
    /\ UNCHANGED running

\* A process dies with the actions it runs.
Vanish ==
    /\ running' \in SUBSET running
    /\ UNCHANGED status

Next ==
    \/ \E c \in Claims : Fire(c) \/ Start(c) \/ Finish(c) \/ Retry(c) \/ Close(c)
    \/ Recover
    \/ Vanish

Spec == Init /\ [][Next]_vars
=============================================================================
