----------------------------- MODULE MCIngester -----------------------------
(***************************************************************************)
(* Two matches, one of which may be reported in every way that matters to  *)
(* the ingester: pending, live, finished before and after its score lands, *)
(* corrected, rejected by the table and not mappable.                      *)
(***************************************************************************)
EXTENDS Ingester

CONSTANTS s1, s2

Snap(status, score, fit) == [status |-> status, score |-> score, fit |-> fit]

MCFeedSnapshots ==
  { Snap("timed", None, "good"),
    Snap("paused", s1, "good"),
    Snap("finished", None, "good"),
    Snap("finished", s1, "good"),
    Snap("finished", s2, "good"),
    Snap("finished", s1, "rejected"),
    Snap("timed", None, "unmapped") }
=============================================================================
