------------------------------ MODULE Results ------------------------------
(***************************************************************************)
(* From the upstream document of one match to the points of one            *)
(* prediction: football_data.rs turns the document into a row of           *)
(* `matches`, the constraints of the table let it in or not, the ingester  *)
(* announces the end, and the scorer (a todo!() so far; what it does is    *)
(* what the comments of `scoring` ask of it) scores the prediction the     *)
(* user has stored.  Ingester has the calls of a tick one by one and       *)
(* MatchPredictions those of a request; here each is one step, and the     *)
(* contents, which those modules leave open, are there.                    *)
(***************************************************************************)
EXTENDS Scoring

CONSTANTS
  Games,      \* how the match may go
  Picks,      \* what the client may send
  Rules,      \* rows of `scoring_rules`
  Quirks,     \* what may be wrong with a document
  Kickoffs,   \* kickoffs upstream may announce
  MaxTime,    \* bound: the last instant
  MaxMoves    \* bound: documents that change other than by the end of the match

Time == 0..MaxTime

Side == {"home", "away"}
Kind == {"group", "knockout"}

\* A group match has 90 minutes; a knockout goes on until there is a winner.
IsGame(g) ==
  /\ g.kind \in Kind
  /\ g.reg \in Nat \X Nat /\ g.et \in (Nat \X Nat) \cup {None}
  /\ \A i \in {1, 2} : IsI32(g.reg[i]) /\ (g.et # None => IsI32(g.reg[i] + g.et[i]))
  /\ g.kind = "group" => g.et = None /\ g.pens = None
  /\ g.kind = "knockout" =>
       /\ g.et # None <=> g.reg[1] = g.reg[2]
       /\ g.pens # None <=> g.et # None /\ g.et[1] = g.et[2]
       /\ g.pens \in Side \cup {None}

\* What a document may lack, or spell another way.
Defect == {"winner", "fullTime", "regularTime", "extraTime", "halfExtraTime",
           "stage", "status", "homeTeam", "spelling"}

ASSUME ConstantsAssumption ==
  /\ Quirks \subseteq Defect
  /\ \A g \in Games : IsGame(g)
  /\ \A rule \in Rules : IsRule(rule)
  /\ \A p \in Picks : IsI32(p.reg_home) /\ IsI32(p.reg_away)
  /\ MaxTime \in Nat /\ MaxMoves \in Nat
  /\ Kickoffs \subseteq Nat \ {0}

VARIABLES
  now,
  game,       \* how the match goes
  rule,       \* the rule of the pickem
  deadline,   \* deadline_at of the match's parent
  doc,        \* the MatchDto upstream answers with
  row,        \* the row of `matches`, None before the first poll
  event,      \* whether a MatchFinished is waiting for the scorer
  pred,       \* the user's row of `predictions`, None if there is none
  points,     \* its points_awarded
  outcome,    \* what the last scoring answered
  early,      \* history: whether the match was ever set before the deadline
  moves

vars == <<now, game, rule, deadline, doc, row, event, pred, points, outcome, early, moves>>

-----------------------------------------------------------------------------
(* Upstream: the documents football-data.org sends.                        *)

Sum(s, t) == << s[1] + t[1], s[2] + t[2] >>

WinnerOf(g) ==
  LET goals == IF g.et = None THEN g.reg ELSE Sum(g.reg, g.et)
  IN  IF g.pens # None THEN g.pens
      ELSE IF goals[1] > goals[2] THEN "home"
      ELSE IF goals[2] > goals[1] THEN "away" ELSE None

\* The ScoreDto of a finished match, without the part a quirk leaves out.
ScoreOf(g, quirk) ==
  [ duration     |-> IF g.pens # None THEN "PENALTY_SHOOTOUT"
                     ELSE IF g.et # None THEN "EXTRA_TIME" ELSE "REGULAR",
    winner       |-> IF quirk = "winner" THEN None ELSE WinnerOf(g),
    full_time    |-> IF quirk = "fullTime" THEN <<None, None>>
                     ELSE IF g.et = None THEN g.reg ELSE Sum(g.reg, g.et),
    regular_time |-> IF g.et = None \/ quirk = "regularTime" THEN None ELSE g.reg,
    extra_time   |-> IF g.et = None \/ quirk = "extraTime" THEN None
                     ELSE IF quirk = "halfExtraTime" THEN <<g.et[1], None>> ELSE g.et ]

Document(g, status, kickoff, quirk) ==
  [ stage   |-> IF quirk = "stage" THEN None
                ELSE IF g.kind = "group" THEN "GROUP_STAGE"
                ELSE IF quirk = "spelling" THEN "ROUND_OF_16" ELSE "LAST_16",
    group   |-> IF g.kind = "knockout" THEN None
                ELSE IF quirk = "spelling" THEN "A" ELSE "GROUP_A",
    utcDate |-> kickoff,
    status  |-> IF quirk = "status" THEN "UNKNOWN" ELSE status,
    home    |-> IF quirk = "homeTeam" THEN None ELSE "home",
    away    |-> "away",
    score   |-> IF status = "FINISHED" THEN ScoreOf(g, quirk) ELSE None,
    quirk   |-> quirk ]

-----------------------------------------------------------------------------
(* football_data.rs.                                                       *)

KnockoutStages ==
  {"LAST_32", "LAST_16", "QUARTER_FINALS", "SEMI_FINALS", "THIRD_PLACE", "FINAL"}

knockout_stage_from_upstream(stage) ==
  CASE stage = "ROUND_OF_32"    -> "LAST_32"
    [] stage = "ROUND_OF_16"    -> "LAST_16"
    [] stage \in KnockoutStages -> stage
    [] OTHER                    -> None

\* None is none of the values it stands beside.
ASSUME NoneAssumption ==
  /\ None \notin Nat /\ None \notin (Nat \cup {None}) \X (Nat \cup {None})
  /\ None \notin Side \cup KnockoutStages \cup Defect
  /\ None \notin {"ROUND_OF_32", "ROUND_OF_16", "GROUP_A", "Group A", "A"}

phase_from_stage(stage) ==
  IF knockout_stage_from_upstream(stage) = None THEN "group" ELSE "knockout"

\* The spellings of a group the prefixes it strips make equal.
group_label_from_upstream(group) ==
  IF group \in {"GROUP_A", "Group A", "A"} THEN "Group A" ELSE None

\* Its row among the parents the bootstrap has indexed.
parent_for_dto(dto) ==
  IF phase_from_stage(dto.stage) = "group"
  THEN group_label_from_upstream(dto.group)
  ELSE knockout_stage_from_upstream(dto.stage)

match_status_from_dto(status) == IF status = "UNKNOWN" THEN "SCHEDULED" ELSE status

\* Mutant: a match that went on is stored with the score of 120 minutes.
ResolveFullTime(score) ==
  LET ft == IF score = None THEN <<None, None>> ELSE score.full_time
      et == IF score = None \/ score.extra_time = None THEN <<None, None>>
            ELSE score.extra_time
  IN  [ reg |-> ft, et |-> et,
        pens |-> IF score # None /\ score.duration = "PENALTY_SHOOTOUT"
                 THEN score.winner ELSE None ]

\* Mutant: a shootout the home team has not won is the away team's.
ResolveElseAway(score) ==
  LET none == <<None, None>>
      long == score # None /\ score.duration # "REGULAR"
  IN  [ reg  |-> IF score = None THEN none
                 ELSE IF ~long THEN score.full_time
                 ELSE IF score.regular_time # None THEN score.regular_time
                 ELSE IF score.duration = "EXTRA_TIME" THEN score.full_time
                 ELSE none,
        et   |-> IF long /\ score.extra_time # None THEN score.extra_time ELSE none,
        pens |-> IF score = None \/ score.duration # "PENALTY_SHOOTOUT" THEN None
                 ELSE IF score.winner = "home" THEN "home" ELSE "away" ]

\* The columns of a ScoreDto: 90 minutes, the goals of extra time, the shootout.
resolve_scores(score) ==
  LET none == <<None, None>>
      long == score # None /\ score.duration # "REGULAR"
  IN  [ reg  |-> IF score = None THEN none
                 ELSE IF ~long THEN score.full_time
                 ELSE IF score.regular_time # None THEN score.regular_time
                 ELSE IF score.duration = "EXTRA_TIME" THEN score.full_time
                 ELSE none,
        et   |-> IF long /\ score.extra_time # None THEN score.extra_time ELSE none,
        pens |-> IF score # None /\ score.duration = "PENALTY_SHOOTOUT"
                 THEN score.winner ELSE None ]

\* The teams are named by their side; a team without a code is not resolved.
dto_to_match(dto) ==
  LET scores == resolve_scores(dto.score)
  IN  [ parent       |-> parent_for_dto(dto),
        home_team_id |-> dto.home,
        away_team_id |-> dto.away,
        kickoff_at   |-> dto.utcDate,
        home_score   |-> scores.reg[1],
        away_score   |-> scores.reg[2],
        et_home      |-> scores.et[1],
        et_away      |-> scores.et[2],
        pens_winner  |-> IF scores.pens = "home" THEN dto.home
                         ELSE IF scores.pens = "away" THEN dto.away ELSE None,
        status       |-> match_status_from_dto(dto.status) ]

\* Mutant: the table takes what it is given.
ChecksNothing(m) == TRUE

\* matches_et_pair_consistent and matches_pens_requires_et.
Storable(m) ==
  /\ m.et_home = None <=> m.et_away = None
  /\ m.pens_winner # None => m.et_home # None

-----------------------------------------------------------------------------

Init ==
  /\ now = 0
  /\ game \in Games
  /\ rule \in Rules
  /\ \E kickoff \in Kickoffs :
       /\ deadline \in {t \in Kickoffs : t <= kickoff}
       /\ doc = Document(game, "TIMED", kickoff, None)
  /\ row = None
  /\ event = FALSE
  /\ pred = None
  /\ points = None
  /\ outcome = None
  /\ early = FALSE
  /\ moves = 0

\* One tick of the ingester: the row is written when it differs and the table takes
\* it; the first sight of the end is announced, if there is a score.
Poll ==
  LET new == dto_to_match(doc)
      turned == new.status = "FINISHED" /\ (row = None \/ row.status # "FINISHED")
      scored == new.home_score # None /\ new.away_score # None
  IN  /\ new.parent # None
      /\ new # row
      /\ Storable(new)
      /\ row' = new
      /\ event' = (event \/ (turned /\ scored))
      /\ UNCHANGED <<now, game, rule, deadline, doc, pred, points, outcome, early, moves>>

IsKnockout == row.parent \in KnockoutStages

\* Mutant: the deadline of the parent is not looked at.
SubmitUntilKickoff(p) ==
  /\ row # None
  /\ now < row.kickoff_at
  /\ ~IsKnockout => p.advancement_winner = None /\ p.pens_winner = None
  /\ is_consistent(p)
  /\ KnockoutConsistency(p)
  /\ pred' = [ reg_home |-> p.reg_home, reg_away |-> p.reg_away,
               advancement_winner |-> p.advancement_winner,
               pens_winner |-> p.pens_winner, was_changed |-> pred # None ]
  /\ UNCHANGED <<now, game, rule, deadline, doc, row, event, points, outcome, early, moves>>

\* POST /api/predictions/matches with this match alone; points_awarded is not touched.
Submit(p) ==
  /\ row # None
  /\ now < deadline
  /\ now < row.kickoff_at
  /\ ~IsKnockout => p.advancement_winner = None /\ p.pens_winner = None
  /\ is_consistent(p)
  /\ KnockoutConsistency(p)
  /\ pred' = [ reg_home |-> p.reg_home, reg_away |-> p.reg_away,
               advancement_winner |-> p.advancement_winner,
               pens_winner |-> p.pens_winner, was_changed |-> pred # None ]
  /\ UNCHANGED <<now, game, rule, deadline, doc, row, event, points, outcome, early, moves>>

Scored(p) ==
  IF ~IsKnockout THEN score_group_match(p, row, rule)
  ELSE IF row.home_team_id = None \/ row.away_team_id = None THEN Error("UnresolvedTeams")
  ELSE score_knockout_match(p, row, row.home_team_id, row.away_team_id, rule)

\* The scorer takes a MatchFinished, reads match and prediction, records the points.
Score ==
  /\ event
  /\ event' = FALSE
  /\ outcome' = IF pred = None THEN None ELSE Scored(pred)
  /\ points' = IF pred # None /\ Scored(pred).ok THEN Scored(pred).points ELSE points
  /\ UNCHANGED <<now, game, rule, deadline, doc, row, pred, early, moves>>

-----------------------------------------------------------------------------
(* The rest of the world.                                                  *)

Tick ==
  /\ now < MaxTime
  /\ now' = now + 1
  /\ UNCHANGED <<game, rule, deadline, doc, row, event, pred, points, outcome, early, moves>>

Move == moves < MaxMoves /\ moves' = moves + 1

\* The match is over; upstream says so, perhaps not quite.
Finish(quirk) ==
  /\ doc.status = "TIMED" /\ doc.utcDate <= now
  /\ quirk # None => Move
  /\ quirk = None => UNCHANGED moves
  /\ doc' = Document(game, "FINISHED", doc.utcDate, quirk)
  /\ UNCHANGED <<now, game, rule, deadline, row, event, pred, points, outcome, early>>

\* The document is put right.
PutRight ==
  /\ doc.score # None /\ doc.quirk # None
  /\ doc' = Document(game, "FINISHED", doc.utcDate, None)
  /\ UNCHANGED <<now, game, rule, deadline, row, event, pred, points, outcome, early, moves>>

\* The match is moved, forward or back.
Reschedule(kickoff) ==
  /\ doc.status = "TIMED" /\ now < doc.utcDate
  /\ now < kickoff /\ kickoff # doc.utcDate
  /\ Move
  /\ doc' = Document(game, "TIMED", kickoff, None)
  /\ early' = (early \/ kickoff < deadline)
  /\ UNCHANGED <<now, game, rule, deadline, row, event, pred, points, outcome>>

\* The match is annulled and will be played again.
Replay(kickoff, g) ==
  /\ doc.score # None
  /\ now < kickoff /\ g.kind = game.kind
  /\ Move
  /\ game' = g
  /\ doc' = Document(g, "TIMED", kickoff, None)
  /\ UNCHANGED <<now, rule, deadline, row, event, pred, points, outcome, early>>

Next ==
  \/ Poll \/ Score \/ Tick \/ PutRight
  \/ \E p \in Picks : Submit(p)
  \/ \E quirk \in Quirks \cup {None} : Finish(quirk)
  \/ \E kickoff \in Kickoffs : Reschedule(kickoff) \/ \E g \in Games : Replay(kickoff, g)

Spec == Init /\ [][Next]_vars
-----------------------------------------------------------------------------
(* What the chain promises.                                                *)

\* The tables in the comments of group_match.rs and knockout_match.rs: the bucket of
\* the 90 minutes,
TableBucket(p, g) ==
  LET home == p.reg_home = g.reg[1]
      away == p.reg_away = g.reg[2]
  IN  IF home /\ away THEN rule.gs_exact_points
      ELSE IF Sign(p.reg_home - p.reg_away) = Sign(g.reg[1] - g.reg[2])
      THEN (IF home \/ away THEN rule.gs_sign_plus_one_points ELSE rule.gs_sign_only_points)
      ELSE (IF home \/ away THEN rule.gs_one_team_points ELSE rule.gs_miss_points)

\* for a knockout what was right about how it went on, and all of it together (where
\* exact is what earns the points of the exact score, as the comment of the combo says),
TableTotal(p, g) ==
  LET winner == IF p.advancement_winner # None THEN p.advancement_winner
                ELSE IF p.reg_home > p.reg_away THEN "home" ELSE "away"
      adv    == winner = WinnerOf(g)
      et     == p.reg_home = p.reg_away <=> g.et # None
      pk     == p.pens_winner # None <=> g.pens # None
      exact  == TableBucket(p, g) = rule.gs_exact_points
  IN  IF g.kind = "group" THEN TableBucket(p, g)
      ELSE TableBucket(p, g)
             + If(adv, rule.ko_adv_points) + If(et, rule.ko_et_flag_points)
             + If(pk, rule.ko_pk_flag_points)
             + If(exact /\ adv /\ et /\ pk, rule.ko_combo_points)

\* and the penalty of a changed prediction, for the match as it was played.
ByTheTable(p, g) ==
  IF p.was_changed
  THEN (TableTotal(p, g) * (100 - rule.repick_penalty_pct)) \div 100
  ELSE TableTotal(p, g)

\* The quirks that take nothing away from what the points depend on.
Harmless ==
  \/ doc.quirk \in {None, "spelling"}
  \/ game.kind = "group" /\ doc.quirk # "fullTime"
  \/ game.pens = None /\ doc.quirk = "winner"
  \/ game.et # None /\ doc.quirk = "fullTime"

\* Types, and what the constraints of the tables leave of the combinations.
TypeOK ==
  /\ now \in Time /\ deadline \in Kickoffs
  /\ game \in Games /\ rule \in Rules
  /\ event \in BOOLEAN /\ early \in BOOLEAN
  /\ points \in Nat \cup {None}
  /\ moves \in 0..MaxMoves
  /\ row # None =>
       /\ row.parent \in KnockoutStages \cup {"Group A"}
       /\ IsKnockout <=> game.kind = "knockout"
       /\ row.et_home = None <=> row.et_away = None
       /\ row.pens_winner # None => went_to_extra_time(row)
  /\ pred # None =>
       /\ is_consistent(pred)
       /\ ~IsKnockout => pred.advancement_winner = None /\ pred.pens_winner = None

\* A match that is scored from a document that tells the whole story earns exactly
\* what the tables give for the match as it was played, whatever upstream sent
\* before; it is not scored at all only when a predicted draw names no winner.  (Not
\* claimed of a prediction by so many goals that their difference is no i32.)
ScoredAsPlayed ==
  [][ event /\ ~event' /\ pred # None /\ IsI32(pred.reg_home - pred.reg_away)
      /\ doc.score # None /\ row = dto_to_match(doc) /\ Harmless
      => IF IsKnockout /\ predicted_advancement(pred, "home", "away") = None
         THEN outcome' = Error("MissingAdvancementWinner")
         ELSE outcome' = Points(ByTheTable(pred, game)) ]_vars

\* Whatever part of the score is missing, no stored row sends the wrong team through:
\* it names the team that won, or none.
RightTeamAdvances ==
  row # None /\ row = dto_to_match(doc) /\ doc.score # None /\ IsKnockout
    /\ row.home_score # None
    => actual_advancement(row, "home", "away") \in {WinnerOf(game), None}

\* A prediction that has its points is not written again, not even when the match is
\* annulled and set for a later day: the deadline of the parent is past.  Only a
\* match brought forward before that deadline, which is not moved with it, escapes.
ScoredStands == [][points # None /\ ~early => pred' = pred]_vars
=============================================================================
