-------------------------- MODULE MCReplyLifecycle --------------------------
(* Instances of ReplyLifecycle for TLC.                                    *)
EXTENDS ReplyLifecycle

Reply(state, ack, watched, version) ==
    [state |-> state, owner |-> TRUE, ack |-> ack, secs |-> watched,
     detect |-> IF watched THEN "on" ELSE "keep", version |-> version]

Heartbeat == Reply("running", TRUE, TRUE, 1)
Completed == Reply("completed", FALSE, FALSE, 1)
Unwatched == [Reply("running", FALSE, FALSE, 1) EXCEPT !.detect = "off"]
NoEstimate == [Unwatched EXCEPT !.detect = "on"]
Refused == Reply("invalid", FALSE, FALSE, 1)
Foreign == [Completed EXCEPT !.owner = FALSE]

Verdicts == {Heartbeat, Completed}
AllKinds == {Heartbeat, Completed, Unwatched, NoEstimate, Refused, Foreign}

May(allowed) == [e \in EnvEvents |-> IF e \in allowed THEN 1 ELSE 0]
Dialogue == [May({}) EXCEPT !["write"] = 2]
Faults == May(EnvEvents)
=============================================================================
