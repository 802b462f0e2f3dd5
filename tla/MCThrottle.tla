----------------------------- MODULE MCThrottle -----------------------------
(***************************************************************************)
(* A private chat with a burst of two, a group without, and a shared       *)
(* bucket that one message of either empties.                              *)
(***************************************************************************)
EXTENDS Throttle

MCChats == {1, 0 - 1}

MCPeriod == [k \in Kind |-> IF k = "group" THEN 2 ELSE 1]

MCBurst == [k \in Kind |-> IF k = "private" THEN 2 ELSE 1]
=============================================================================
