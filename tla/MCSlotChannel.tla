--------------------------- MODULE MCSlotChannel ---------------------------
(* Two requests of an app: one adds a timer, the other deletes it.         *)
EXTENDS SlotChannel

TwoIds == [p \in Producers |-> IF p = "p1" THEN 1 ELSE 2]
AddThenDelete == [q \in {1, 2} |-> IF q = 1 THEN [op |-> "add", timer |-> "t", app |-> "a", ack |-> TRUE]
                                  ELSE [op |-> "delete", timer |-> "t", app |-> "a", ack |-> TRUE]]
=============================================================================
