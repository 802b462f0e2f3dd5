----------------------------- MODULE TwoBuckets -----------------------------
(***************************************************************************)
(* What the throttle comes down to: a leaky bucket for each chat and one   *)
(* for all.  Every sender pours its cost into the bucket of its chat when  *)
(* there is room, holds its turn, and goes out when the shared bucket has  *)
(* room too.  All leak one unit a tick and nothing else empties them.      *)
(***************************************************************************)
EXTENDS Naturals

CONSTANTS
  Chats, Senders,
  Cost, Room,              \* of each chat: what a message pours in, what fits
  SharedCost, SharedRoom,
  None                     \* no turn

VARIABLES
  level,    \* of the bucket of each chat
  shared,   \* of the one for all
  turn      \* the chat each sender has a turn for

vars == <<level, shared, turn>>

Init ==
  /\ level = [c \in Chats |-> 0]
  /\ shared = 0
  /\ turn = [s \in Senders |-> None]

Leaked(n) == IF n = 0 THEN 0 ELSE n - 1

Leak ==
  /\ level' = [c \in Chats |-> Leaked(level[c])]
  /\ shared' = Leaked(shared)
  /\ UNCHANGED turn

TakeTurn(s, c) ==
  /\ turn[s] = None
  /\ level[c] + Cost[c] <= Room[c]
  /\ level' = [level EXCEPT ![c] = @ + Cost[c]]
  /\ turn' = [turn EXCEPT ![s] = c]
  /\ UNCHANGED shared

GoOut(s) ==
  /\ turn[s] \in Chats
  /\ shared + SharedCost <= SharedRoom
  /\ shared' = shared + SharedCost
  /\ turn' = [turn EXCEPT ![s] = None]
  /\ UNCHANGED level

Next == Leak \/ \E s \in Senders : GoOut(s) \/ \E c \in Chats : TakeTurn(s, c)

Spec == Init /\ [][Next]_vars
=============================================================================
