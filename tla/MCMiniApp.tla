----------------------------- MODULE MCMiniApp -----------------------------
(***************************************************************************)
(* A knockout phase of two matches.  The user may have predicted a draw    *)
(* with a shootout before; now goals are typed, one number of them too big *)
(* for the width, it is picked who goes through, and the shootout ticked.  *)
(***************************************************************************)
EXTENDS MiniApp, TLC

MCPatches ==
  { ("regHome" :> 0), ("regAway" :> 0), ("regAway" :> 2),
    ("advancementWinnerId" :> "home"), ("pensYes" :> TRUE) }

MCEarlier ==
  { [reg_home |-> 1, reg_away |-> 1, advancement_winner |-> "away", pens_winner |-> "away"],
    [reg_home |-> 1, reg_away |-> 0, advancement_winner |-> None, pens_winner |-> None] }

MCStarts ==
  { [deadline |-> s[1], kickoff |-> [m \in Matches |-> s[1]], known |-> s[2], opened |-> s[3]] :
      s \in { <<2, {}, 0>>, <<2, Matches, 0 - 1>>, <<1, Matches, 0>> } }

MCSymmetry == Permutations(Matches)
=============================================================================
