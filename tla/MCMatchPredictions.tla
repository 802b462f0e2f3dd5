------------------------- MODULE MCMatchPredictions -------------------------
(***************************************************************************)
(* Two requests, two matches: batches that overlap, name a match twice, are *)
(* empty, fail validation or fail at the foreign key after a first write.  *)
(***************************************************************************)
EXTENDS MatchPredictions

CONSTANTS m1, m2, p1, p2

In(m, p, fit) == [match |-> m, pick |-> p, fit |-> fit]

MCBodies ==
  { <<>>,
    <<In(m1, p1, "good"), In(m2, p2, "good")>>,
    <<In(m1, p1, "good"), In(m1, p2, "good")>>,
    <<In(m1, p2, "good"), In(m2, p1, "dangling")>>,
    <<In(m1, p2, "good"), In(m2, p1, "refused")>> }
=============================================================================
