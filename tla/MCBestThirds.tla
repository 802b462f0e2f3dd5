---------------------------- MODULE MCBestThirds ----------------------------
(***************************************************************************)
(* Two requests of two teams each: disjoint, the same in the other order,  *)
(* overlapping with what is stored, with an unknown id; for the standings  *)
(* of a group of two, one way and the other, with a team of another group. *)
(***************************************************************************)
EXTENDS BestThirds

CONSTANTS t1, t2, t3, t4, x

MCTeamsOf == [g \in Groups |-> IF g = 1 THEN {t1, t2} ELSE {t3, t4}]

MCBodies ==
  [group : {None}, picks : { <<t1, t2>>, <<t2, t1>>, <<t3, t4>>, <<t1, x>> }]
    \cup [group : {1}, picks : { <<t1, t2>>, <<t2, t1>>, <<t1, t3>> }]

MCEarlier == { {}, {t2, t3} }
=============================================================================
