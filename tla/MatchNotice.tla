----------------------------- MODULE MatchNotice -----------------------------
(***************************************************************************)
(* What the rest of the system may rely on from the ingester: every time a *)
(* match turns finished at most one notice (a MatchFinished event) is sent *)
(* on behalf of that turn, and no notice is ever sent without one.  A      *)
(* notice may be dropped: the specification promises at most once, not     *)
(* exactly once.                                                           *)
(***************************************************************************)
EXTENDS Naturals

CONSTANT Matches

VARIABLES
  finished,   \* the matches that are stored as finished
  owed,       \* the matches whose latest turn may still be announced
  notices     \* how many notices each match has had

vars == <<finished, owed, notices>>

Init ==
  /\ finished = {}
  /\ owed = {}
  /\ notices = [m \in Matches |-> 0]

\* The turn of m to finished: it opens the right to at most one notice, or
\* (no score yet, or a failure) none at all.
Finish(m) ==
  /\ m \notin finished
  /\ finished' = finished \cup {m}
  /\ owed' \in {owed, owed \cup {m}}
  /\ UNCHANGED notices

\* Upstream takes the result back: m can turn finished again.
Reopen(m) ==
  /\ m \in finished
  /\ finished' = finished \ {m}
  /\ UNCHANGED <<owed, notices>>

Notify(m) ==
  /\ m \in owed
  /\ owed' = owed \ {m}
  /\ notices' = [notices EXCEPT ![m] = @ + 1]
  /\ UNCHANGED finished

Drop(m) ==
  /\ m \in owed
  /\ owed' = owed \ {m}
  /\ UNCHANGED <<finished, notices>>

Next == \E m \in Matches : Finish(m) \/ Reopen(m) \/ Notify(m) \/ Drop(m)

Spec == Init /\ [][Next]_vars
=============================================================================
