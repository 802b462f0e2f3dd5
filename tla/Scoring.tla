------------------------------ MODULE Scoring ------------------------------
(***************************************************************************)
(* The scoring rules of crates/domain: what a prediction earns, given the  *)
(* stored result and the rule of the pickem.  Pure functions.  A team is   *)
(* any value; None stands for Rust's None and SQL's NULL.  The points of a *)
(* rule are natural numbers and its percentage is in 0..100.               *)
(***************************************************************************)
EXTENDS Integers, FiniteSets

CONSTANTS
  None,
  IntLimit    \* 2^31 in the code: the i32 are -IntLimit..IntLimit - 1

ASSUME WidthAssumption == IntLimit \in Nat \ {0}

IsI32(n) == n \in Int /\ 0 - IntLimit <= n /\ n < IntLimit

\* The difference of two i32, which wraps around in a release build.
Minus(m, n) ==
  LET d == m - n
  IN  IF d >= IntLimit THEN d - 2 * IntLimit
      ELSE IF d < 0 - IntLimit THEN d + 2 * IntLimit ELSE d

Points(n) == [ok |-> TRUE, points |-> n]
Error(e)  == [ok |-> FALSE, error |-> e]

Sign(n) == IF n > 0 THEN 1 ELSE IF n < 0 THEN -1 ELSE 0

Larger(m, n) == IF m >= n THEN m ELSE n

\* ScoringRule::defaults.
DefaultRule ==
  [ gs_miss_points |-> 0, gs_one_team_points |-> 4, gs_sign_only_points |-> 10,
    gs_sign_plus_one_points |-> 16, gs_exact_points |-> 24,
    ko_adv_points |-> 12, ko_et_flag_points |-> 2, ko_pk_flag_points |-> 2,
    ko_combo_points |-> 10,
    st_pos1_points |-> 6, st_pos2_points |-> 4, st_pos3_points |-> 2,
    st_pos4_points |-> 1, st_full_combo_points |-> 5, st_best_third_points |-> 3,
    repick_penalty_pct |-> 25 ]

\* A rule has the same columns.
IsRule(rule) ==
  /\ rule \in [DOMAIN DefaultRule -> Nat]
  /\ rule.repick_penalty_pct \in 0..100

-----------------------------------------------------------------------------
(* Predictions and matches.                                                *)

predicted_reg_draw(p) == p.reg_home = p.reg_away

predicted_goes_to_pens(p) == p.pens_winner # None

\* What is_consistent lets through.
is_consistent(p) ==
  /\ p.pens_winner # None => predicted_reg_draw(p)
  /\ p.advancement_winner # None /\ p.pens_winner # None
       => p.advancement_winner = p.pens_winner

\* predictions_knockout_consistency; a comparison with NULL refuses nothing.
KnockoutConsistency(p) ==
  /\ p.pens_winner = None \/ p.advancement_winner \in {p.pens_winner, None}
  /\ p.pens_winner = None \/ p.reg_home = p.reg_away

went_to_extra_time(m) == m.et_home # None /\ m.et_away # None

went_to_penalties(m) == m.pens_winner # None

OrZero(n) == IF n = None THEN 0 ELSE n

-----------------------------------------------------------------------------
(* Matches.                                                                *)

\* The bucket of a predicted score: which counters are right, and the sign.
raw_reg_bucket(ph, pa, ah, aa, rule) ==
  LET h == ph = ah
      a == pa = aa
      r == Sign(Minus(ph, pa)) = Sign(Minus(ah, aa))
  IN  CASE h /\ a                -> rule.gs_exact_points
        [] ~(h /\ a) /\ (h \/ a) /\ r  -> rule.gs_sign_plus_one_points
        [] ~h /\ ~a /\ r         -> rule.gs_sign_only_points
        [] (h \/ a) /\ ~r        -> rule.gs_one_team_points
        [] OTHER                 -> rule.gs_miss_points

\* Mutant: the percentage is what is kept.
PenaltyKept(points, was_changed, rule) ==
  IF was_changed THEN (points * rule.repick_penalty_pct) \div 100 ELSE points

apply_repick_penalty(points, was_changed, rule) ==
  IF was_changed
  THEN (points * Larger(100 - rule.repick_penalty_pct, 0)) \div 100
  ELSE points

score_group_match(p, m, rule) ==
  IF ~is_consistent(p) THEN Error("InconsistentPrediction")
  ELSE IF m.home_score = None \/ m.away_score = None THEN Error("MissingMatchData")
  ELSE Points(apply_repick_penalty(
         raw_reg_bucket(p.reg_home, p.reg_away, m.home_score, m.away_score, rule),
         p.was_changed, rule))

\* Who went through: the winner of the shootout, else of the goals of 120 minutes;
\* None when they are level.
actual_advancement(m, home, away) ==
  LET total_home == m.home_score + OrZero(m.et_home)
      total_away == m.away_score + OrZero(m.et_away)
  IN  IF m.pens_winner # None THEN m.pens_winner
      ELSE IF total_home > total_away THEN home
      ELSE IF total_away > total_home THEN away
      ELSE None

\* None for a draw without a winner.
predicted_advancement(p, home, away) ==
  IF p.advancement_winner # None THEN p.advancement_winner
  ELSE IF predicted_reg_draw(p) THEN None
  ELSE IF p.reg_home > p.reg_away THEN home ELSE away

If(test, points) == IF test THEN points ELSE 0

\* The additive part and the combo, before the penalty.
KnockoutTotal(p, m, home, away, rule) ==
  LET reg   == raw_reg_bucket(p.reg_home, p.reg_away, m.home_score, m.away_score, rule)
      adv   == predicted_advancement(p, home, away) = actual_advancement(m, home, away)
      et    == predicted_reg_draw(p) = went_to_extra_time(m)
      pk    == predicted_goes_to_pens(p) = went_to_penalties(m)
      combo == adv /\ reg = rule.gs_exact_points /\ et /\ pk
  IN  reg + If(adv, rule.ko_adv_points) + If(et, rule.ko_et_flag_points)
          + If(pk, rule.ko_pk_flag_points) + If(combo, rule.ko_combo_points)

score_knockout_match(p, m, home, away, rule) ==
  IF ~is_consistent(p) THEN Error("InconsistentPrediction")
  ELSE IF m.home_score = None \/ m.away_score = None THEN Error("MissingMatchData")
  ELSE IF actual_advancement(m, home, away) = None THEN Error("MissingMatchData")
  ELSE IF predicted_advancement(p, home, away) = None THEN Error("MissingAdvancementWinner")
  ELSE Points(apply_repick_penalty(KnockoutTotal(p, m, home, away, rule),
                                   p.was_changed, rule))

-----------------------------------------------------------------------------
(* Standings and best thirds.                                              *)

PositionPoints(rule) ==
  << rule.st_pos1_points, rule.st_pos2_points, rule.st_pos3_points, rule.st_pos4_points >>

\* Both arguments are the four teams of a group in their order.
score_group_standings(positions, actual, rule) ==
  LET at(i) == If(positions[i] = actual[i], PositionPoints(rule)[i])
  IN  at(1) + at(2) + at(3) + at(4)
        + If(\A i \in 1..4 : positions[i] = actual[i], rule.st_full_combo_points)

score_best_thirds(team_ids, actual, rule) ==
  rule.st_best_third_points * Cardinality(team_ids \cap actual)
=============================================================================
