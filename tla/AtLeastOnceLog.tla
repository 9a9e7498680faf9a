--------------------------- MODULE AtLeastOnceLog ---------------------------
(* What the event log promises its readers, whatever files and processes it   *)
(* is made of: an event a producer committed waits in the outbox or can be    *)
(* read, it leaves the outbox only once it can be read, and what can be read  *)
(* stays readable until retention removes it.                                 *)
EXTENDS Naturals

VARIABLES
    waiting,    \* events committed and not yet taken out of the outbox
    readable,   \* events a reader finds in the log
    expired     \* events retention removed

logVars == <<waiting, readable, expired>>

Init == waiting = {} /\ readable = {} /\ expired = {}

\* Producers commit new events.
Commit ==
    /\ waiting \subseteq waiting'
    /\ (waiting' \ waiting) \cap (readable \cup expired) = {}
    /\ UNCHANGED <<readable, expired>>

\* A waiting event becomes readable; it may still wait (it was not marked yet).
Publish ==
    \E e \in waiting :
        /\ readable' = readable \cup {e}
        /\ UNCHANGED <<waiting, expired>>

\* Events leave the outbox; each of them has been readable.
Settle ==
    /\ waiting' \subseteq waiting
    /\ waiting \ waiting' \subseteq readable \cup expired
    /\ UNCHANGED <<readable, expired>>

\* Retention removes part of the log.
Expire ==
    /\ readable' \subseteq readable
    /\ expired' = expired \cup (readable \ readable')
    /\ UNCHANGED waiting

Next == Commit \/ Publish \/ Settle \/ Expire

Spec == Init /\ [][Next]_logVars
=============================================================================
