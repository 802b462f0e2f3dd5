----------------------------- MODULE MCResults -----------------------------
(***************************************************************************)
(* Group matches and knockouts of every course, predictions of every       *)
(* bucket and one by more goals than the width allows, two rules: the      *)
(* default one, and one whose sign-plus-one points equal the exact ones.   *)
(***************************************************************************)
EXTENDS Results

MCGames ==
  [kind : {"group"}, reg : {<<1, 1>>, <<2, 0>>}, et : {None}, pens : {None}]
  \cup { [kind |-> "knockout", reg |-> s.reg, et |-> s.et, pens |-> s.pens] :
           s \in { [reg |-> <<2, 1>>, et |-> None, pens |-> None],
                   [reg |-> <<1, 1>>, et |-> <<0, 1>>, pens |-> None],
                   [reg |-> <<1, 1>>, et |-> <<0, 0>>, pens |-> "home"],
                   [reg |-> <<0, 0>>, et |-> <<1, 1>>, pens |-> "away"] } }

MCPicks ==
  { [reg_home |-> s[1], reg_away |-> s[2], advancement_winner |-> t[1], pens_winner |-> t[2]] :
      s \in { <<1, 1>>, <<2, 0>>, <<2, 1>>, <<0, 1>>, <<3, 0 - 1>> },
      t \in { <<None, None>>, <<"home", None>>, <<"other", None>>, <<"away", "away">>, <<"home", "home">>,
              <<None, "home">> } }

MCRules ==
  { DefaultRule, [DefaultRule EXCEPT !.gs_sign_plus_one_points = 24] }
=============================================================================
