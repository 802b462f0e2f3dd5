--------------------------- MODULE ResultsProofs ---------------------------
(***************************************************************************)
(* From upstream's document to the points, for any games, predictions,     *)
(* rules, kickoffs and defects of the documents.                           *)
(***************************************************************************)
EXTENDS Results, TLAPS

-----------------------------------------------------------------------------
(* The conversion of a document.                                           *)

NoGoals == <<None, None>>

LEMMA GameParts ==
  ASSUME NEW g, IsGame(g)
  PROVE  /\ g.reg[1] \in Nat /\ g.reg[2] \in Nat /\ g.reg = <<g.reg[1], g.reg[2]>>
         /\ g.et # None => g.et[1] \in Nat /\ g.et[2] \in Nat /\ g.et = <<g.et[1], g.et[2]>>
         /\ g.pens # None => g.et # None
         /\ g.pens \in {"home", "away", None}
         /\ g.kind \in {"group", "knockout"}
BY DEF IsGame, Kind, Side

\* None is none of the values it stands beside.
LEMMA NoneIsNothing ==
  /\ None # "home" /\ None # "away"
  /\ \A n \in Nat : None # n
  /\ \A m, n \in Nat \cup {None} : <<m, n>> # None
<1>1. None # "home" /\ None # "away"
  BY NoneAssumption DEF Side
<1>2. \A n \in Nat : None # n
  BY NoneAssumption
<1>3. ASSUME NEW m \in Nat \cup {None}, NEW n \in Nat \cup {None} PROVE <<m, n>> # None
  <2> DEFINE Goals == Nat \cup {None}
  <2>1. m \in Goals /\ n \in Goals
    OBVIOUS
  <2>2. None \notin Goals \X Goals
    BY NoneAssumption
  <2> HIDE DEF Goals
  <2>3. <<m, n>> \in Goals \X Goals
    BY <2>1
  <2> QED BY <2>2, <2>3
<1> QED BY <1>1, <1>2, <1>3

\* The columns resolve_scores finds in a ScoreDto that lacks at most one part.
LEMMA Resolved ==
  ASSUME NEW g, IsGame(g), NEW quirk, ScoreOf(g, quirk) # None
  PROVE  LET r == resolve_scores(ScoreOf(g, quirk))
         IN  /\ g.et = None => /\ r.reg = IF quirk = "fullTime" THEN NoGoals ELSE g.reg
                               /\ r.et = NoGoals
             /\ g.et # None =>
                  /\ r.reg = IF quirk # "regularTime" THEN g.reg
                             ELSE IF g.pens = None THEN Sum(g.reg, g.et) ELSE NoGoals
                  /\ r.et = IF quirk = "extraTime" THEN NoGoals
                            ELSE IF quirk = "halfExtraTime" THEN <<g.et[1], None>> ELSE g.et
             /\ r.pens = IF quirk = "winner" THEN None ELSE g.pens
<1> DEFINE s == ScoreOf(g, quirk)
           r == resolve_scores(s)
<1>1. /\ g.reg[1] \in Nat /\ g.reg[2] \in Nat /\ g.reg = <<g.reg[1], g.reg[2]>>
      /\ g.et # None => g.et[1] \in Nat /\ g.et[2] \in Nat /\ g.et = <<g.et[1], g.et[2]>>
      /\ g.pens # None => g.et # None
  BY GameParts
<1>2. g.reg # None /\ (g.et # None => <<g.et[1], None>> # None)
  BY <1>1, NoneIsNothing
<1>3. /\ s.duration = IF g.pens # None THEN "PENALTY_SHOOTOUT"
                      ELSE IF g.et # None THEN "EXTRA_TIME" ELSE "REGULAR"
      /\ s.winner = IF quirk = "winner" THEN None ELSE WinnerOf(g)
      /\ s.full_time = IF quirk = "fullTime" THEN NoGoals
                       ELSE IF g.et = None THEN g.reg ELSE Sum(g.reg, g.et)
      /\ s.regular_time = IF g.et = None \/ quirk = "regularTime" THEN None ELSE g.reg
      /\ s.extra_time = IF g.et = None \/ quirk = "extraTime" THEN None
                        ELSE IF quirk = "halfExtraTime" THEN <<g.et[1], None>> ELSE g.et
  BY DEF ScoreOf, NoGoals
<1>4. /\ r.reg = IF s.duration = "REGULAR" THEN s.full_time
                 ELSE IF s.regular_time # None THEN s.regular_time
                 ELSE IF s.duration = "EXTRA_TIME" THEN s.full_time ELSE NoGoals
      /\ r.et = IF s.duration # "REGULAR" /\ s.extra_time # None THEN s.extra_time ELSE NoGoals
      /\ r.pens = IF s.duration = "PENALTY_SHOOTOUT" THEN s.winner ELSE None
  BY DEF resolve_scores, NoGoals
<1> HIDE DEF s, r
<1>5. g.pens # None => WinnerOf(g) = g.pens
  BY DEF WinnerOf
<1>6. CASE g.et = None
  BY <1>1, <1>3, <1>4, <1>6 DEF r, s
<1>7. CASE g.et # None /\ g.pens = None
  <2>1. s.duration = "EXTRA_TIME" /\ r.pens = None
    BY <1>3, <1>4, <1>7
  <2>2. r.reg = IF quirk # "regularTime" THEN g.reg ELSE Sum(g.reg, g.et)
    BY <1>2, <1>3, <1>4, <1>7, <2>1
  <2>3. r.et = IF quirk = "extraTime" THEN NoGoals
               ELSE IF quirk = "halfExtraTime" THEN <<g.et[1], None>> ELSE g.et
    BY <1>2, <1>3, <1>4, <1>7, <2>1
  <2> QED BY <1>7, <2>1, <2>2, <2>3 DEF r, s
<1>8. CASE g.et # None /\ g.pens # None
  <2>1. s.duration = "PENALTY_SHOOTOUT" /\ r.pens = IF quirk = "winner" THEN None ELSE g.pens
    BY <1>3, <1>4, <1>5, <1>8
  <2>2. r.reg = IF quirk # "regularTime" THEN g.reg ELSE NoGoals
    BY <1>2, <1>3, <1>4, <1>8, <2>1
  <2>3. r.et = IF quirk = "extraTime" THEN NoGoals
               ELSE IF quirk = "halfExtraTime" THEN <<g.et[1], None>> ELSE g.et
    BY <1>2, <1>3, <1>4, <1>8, <2>1
  <2> QED BY <1>8, <2>1, <2>2, <2>3 DEF r, s
<1> QED BY <1>6, <1>7, <1>8

\* The row of a finished match.
LEMMA Converted ==
  ASSUME NEW g, NEW k, NEW quirk
  PROVE  LET m == dto_to_match(Document(g, "FINISHED", k, quirk))
             r == resolve_scores(ScoreOf(g, quirk))
         IN  /\ m.home_score = r.reg[1] /\ m.away_score = r.reg[2]
             /\ m.et_home = r.et[1] /\ m.et_away = r.et[2]
             /\ m.home_team_id = IF quirk = "homeTeam" THEN None ELSE "home"
             /\ m.away_team_id = "away"
             /\ m.pens_winner = IF r.pens = "home" THEN m.home_team_id
                                ELSE IF r.pens = "away" THEN "away" ELSE None
BY DEF dto_to_match, Document

\* The parent a document names: the group, or the stage, or none.
ParentFits(parent, g) ==
  /\ parent \in {"LAST_16", "Group A", None}
  /\ parent = "LAST_16" => g.kind = "knockout"
  /\ parent = "Group A" => g.kind = "group"

LEMMA ParentOf ==
  ASSUME NEW g, IsGame(g), NEW status, NEW k, NEW quirk
  PROVE  ParentFits(dto_to_match(Document(g, status, k, quirk)).parent, g)
<1> DEFINE d == Document(g, status, k, quirk)
<1>1. /\ d.stage = IF quirk = "stage" THEN None
                   ELSE IF g.kind = "group" THEN "GROUP_STAGE"
                   ELSE IF quirk = "spelling" THEN "ROUND_OF_16" ELSE "LAST_16"
      /\ d.group = IF g.kind = "knockout" THEN None
                   ELSE IF quirk = "spelling" THEN "A" ELSE "GROUP_A"
  BY DEF Document
<1>2. dto_to_match(d).parent = parent_for_dto(d)
  BY DEF dto_to_match
<1> HIDE DEF d
<1>3. g.kind \in {"group", "knockout"} 
  BY GameParts
<1>4. /\ None # "ROUND_OF_32" /\ None # "ROUND_OF_16" /\ None # "LAST_16"
      /\ None \notin KnockoutStages /\ None \notin {"GROUP_A", "Group A", "A"}
  BY NoneAssumption DEF KnockoutStages
<1>5. /\ d.stage \in {None, "GROUP_STAGE"} => knockout_stage_from_upstream(d.stage) = None
      /\ d.stage \in {"ROUND_OF_16", "LAST_16"} => knockout_stage_from_upstream(d.stage) = "LAST_16"
  BY <1>4 DEF knockout_stage_from_upstream, KnockoutStages
<1>6. group_label_from_upstream(d.group) = IF g.kind = "knockout" THEN None ELSE "Group A"
  BY <1>1, <1>3, <1>4 DEF group_label_from_upstream
<1>7. parent_for_dto(d) = IF d.stage \in {None, "GROUP_STAGE"}
                          THEN IF g.kind = "knockout" THEN None ELSE "Group A"
                          ELSE "LAST_16"
  BY <1>1, <1>3, <1>4, <1>5, <1>6 DEF parent_for_dto, phase_from_stage
<1>8. ParentFits(parent_for_dto(d), g)
  BY <1>1, <1>3, <1>4, <1>7 DEF ParentFits
<1> QED BY <1>2, <1>8 DEF d

-----------------------------------------------------------------------------
(* Who goes through.                                                       *)

LEMMA Winners ==
  ASSUME NEW g, IsGame(g), g.kind = "knockout"
  PROVE  /\ g.pens # None => WinnerOf(g) = g.pens
         /\ g.pens = None /\ g.et = None =>
              g.reg[1] # g.reg[2] /\ WinnerOf(g) = IF g.reg[1] > g.reg[2] THEN "home" ELSE "away"
         /\ g.et # None => g.reg[1] = g.reg[2]
         /\ g.pens # None => g.et[1] = g.et[2]
         /\ g.pens = None /\ g.et # None =>
              g.et[1] # g.et[2] /\ WinnerOf(g) = IF g.et[1] > g.et[2] THEN "home" ELSE "away"
         /\ WinnerOf(g) \in {"home", "away"}
<1>1. /\ g.reg[1] \in Nat /\ g.reg[2] \in Nat
      /\ g.et # None => g.et[1] \in Nat /\ g.et[2] \in Nat
      /\ g.pens \in {"home", "away", None}
  BY GameParts
<1>2. /\ g.et # None <=> g.reg[1] = g.reg[2]
      /\ g.pens # None <=> g.et # None /\ g.et[1] = g.et[2]
  BY DEF IsGame
<1>3. CASE g.pens # None
  BY <1>1, <1>2, <1>3 DEF WinnerOf
<1>4. CASE g.pens = None /\ g.et = None
  BY <1>1, <1>2, <1>4 DEF WinnerOf
<1>5. CASE g.pens = None /\ g.et # None
  <2>1. Sum(g.reg, g.et)[1] = g.reg[1] + g.et[1] /\ Sum(g.reg, g.et)[2] = g.reg[2] + g.et[2]
    BY DEF Sum
  <2>2. WinnerOf(g) = IF g.reg[1] + g.et[1] > g.reg[2] + g.et[2] THEN "home"
                      ELSE IF g.reg[2] + g.et[2] > g.reg[1] + g.et[1] THEN "away" ELSE None
    BY <1>5, <2>1 DEF WinnerOf
  <2> QED BY <1>1, <1>2, <1>5, <2>2
<1> QED BY <1>3, <1>4, <1>5

\* Whatever part of its score is missing, a row of a finished knockout that the table
\* takes sends the winner through, or nobody.
LEMMA RightTeam ==
  ASSUME NEW g, IsGame(g), g.kind = "knockout", NEW k, NEW quirk, ScoreOf(g, quirk) # None,
         NEW m, m = dto_to_match(Document(g, "FINISHED", k, quirk)),
         m.home_score # None, m.et_home = None <=> m.et_away = None
  PROVE  actual_advancement(m, "home", "away") \in {WinnerOf(g), None}
<1> DEFINE r == resolve_scores(ScoreOf(g, quirk))
           th == m.home_score + OrZero(m.et_home)
           ta == m.away_score + OrZero(m.et_away)
<1>1. /\ g.reg[1] \in Nat /\ g.reg[2] \in Nat
      /\ g.et # None => g.et[1] \in Nat /\ g.et[2] \in Nat
      /\ g.pens # None => g.et # None
      /\ g.pens \in {"home", "away", None}
  BY GameParts
<1>2. /\ m.home_score = r.reg[1] /\ m.away_score = r.reg[2]
      /\ m.et_home = r.et[1] /\ m.et_away = r.et[2]
      /\ m.home_team_id = IF quirk = "homeTeam" THEN None ELSE "home"
      /\ m.pens_winner = IF r.pens = "home" THEN m.home_team_id
                         ELSE IF r.pens = "away" THEN "away" ELSE None
  BY Converted
<1>3. /\ g.et = None => /\ r.reg = IF quirk = "fullTime" THEN NoGoals ELSE g.reg
                        /\ r.et = NoGoals
      /\ g.et # None =>
           /\ r.reg = IF quirk # "regularTime" THEN g.reg
                      ELSE IF g.pens = None THEN Sum(g.reg, g.et) ELSE NoGoals
           /\ r.et = IF quirk = "extraTime" THEN NoGoals
                     ELSE IF quirk = "halfExtraTime" THEN <<g.et[1], None>> ELSE g.et
      /\ r.pens = IF quirk = "winner" THEN None ELSE g.pens
  BY Resolved
<1> HIDE DEF r
<1>4. actual_advancement(m, "home", "away") =
        IF m.pens_winner # None THEN m.pens_winner
        ELSE IF th > ta THEN "home" ELSE IF ta > th THEN "away" ELSE None
  BY DEF actual_advancement
<1>5. NoGoals[1] = None /\ NoGoals[2] = None /\ OrZero(None) = 0
      /\ \A n \in Nat : OrZero(n) = n /\ n # None
  BY NoneIsNothing DEF NoGoals, OrZero
<1>6. r.pens = None => m.pens_winner = None
  BY <1>2, NoneIsNothing
<1>7. CASE g.pens = None /\ g.et = None
  <2>1. r.reg = g.reg /\ r.et = NoGoals /\ m.pens_winner = None
    BY <1>2, <1>3, <1>5, <1>6, <1>7
  <2>2. th = g.reg[1] /\ ta = g.reg[2]
    BY <1>1, <1>2, <1>5, <2>1
  <2> HIDE DEF th, ta
  <2> QED BY <1>1, <1>4, <1>7, <2>1, <2>2, Winners
<1>8. CASE g.pens = None /\ g.et # None
  <2>1. m.pens_winner = None
    BY <1>3, <1>6, <1>8
  <2>2. r.et \in {NoGoals, g.et}
    <3>1. quirk = "halfExtraTime" => m.et_home = g.et[1] /\ m.et_away = None
      BY <1>2, <1>3, <1>8
    <3>2. quirk # "halfExtraTime"
      BY <1>1, <1>5, <1>8, <3>1
    <3> QED BY <1>3, <1>8, <3>2
  <2>3. r.reg = g.reg \/ r.reg = Sum(g.reg, g.et)
    BY <1>3, <1>8
  <2>4. Sum(g.reg, g.et)[1] = g.reg[1] + g.et[1] /\ Sum(g.reg, g.et)[2] = g.reg[2] + g.et[2]
    BY DEF Sum
  <2>5. g.reg[1] = g.reg[2] /\ g.et[1] # g.et[2]
        /\ WinnerOf(g) = IF g.et[1] > g.et[2] THEN "home" ELSE "away"
    BY <1>8, Winners
  <2>6. \/ th = g.reg[1] /\ ta = g.reg[2]
        \/ th = g.reg[1] + g.et[1] /\ ta = g.reg[2] + g.et[2]
        \/ th = g.reg[1] + g.et[1] + g.et[1] /\ ta = g.reg[2] + g.et[2] + g.et[2]
    <3>1. \/ m.home_score = g.reg[1] /\ m.away_score = g.reg[2]
          \/ m.home_score = g.reg[1] + g.et[1] /\ m.away_score = g.reg[2] + g.et[2]
      BY <1>2, <2>3, <2>4
    <3>2. \/ OrZero(m.et_home) = 0 /\ OrZero(m.et_away) = 0
          \/ OrZero(m.et_home) = g.et[1] /\ OrZero(m.et_away) = g.et[2]
      BY <1>1, <1>2, <1>5, <1>8, <2>2
    <3> QED BY <1>1, <1>8, <3>1, <3>2
  <2> HIDE DEF th, ta
  <2> QED BY <1>1, <1>4, <1>8, <2>1, <2>5, <2>6
<1>9. CASE g.pens # None
  <2>1. WinnerOf(g) = g.pens /\ g.reg[1] = g.reg[2] /\ g.et # None /\ g.et[1] = g.et[2]
    BY <1>1, <1>9, Winners
  <2>2. m.pens_winner # None => m.pens_winner = g.pens
    BY <1>2, <1>3, NoneIsNothing
  <2>3. th \in Int /\ ta \in Int /\ th = ta
    <3>1. quirk # "regularTime"
      BY <1>2, <1>3, <1>5, <1>9, <2>1
    <3>2. r.reg = g.reg /\ (r.et = NoGoals \/ r.et = g.et \/ r.et = <<g.et[1], None>>)
      BY <1>3, <2>1, <3>1
    <3>3. \/ OrZero(m.et_home) = 0 /\ OrZero(m.et_away) = 0
          \/ OrZero(m.et_home) = g.et[1] /\ OrZero(m.et_away) = g.et[2]
      <4>1. r.et = NoGoals \/ r.et = g.et
        <5>1. r.et = <<g.et[1], None>> => m.et_home = g.et[1] /\ m.et_away = None
          BY <1>2
        <5> QED BY <1>1, <1>5, <2>1, <3>2, <5>1
      <4> QED BY <1>1, <1>2, <1>5, <2>1, <4>1
    <3> QED BY <1>1, <1>2, <2>1, <3>2, <3>3
  <2> HIDE DEF th, ta
  <2> QED BY <1>4, <2>1, <2>2, <2>3
<1> QED BY <1>7, <1>8, <1>9

-----------------------------------------------------------------------------
(* What a prediction earns.                                                *)

\* A quirk that takes nothing away from what the points of this game depend on.
HarmlessTo(g, quirk) ==
  \/ quirk \in {None, "spelling"}
  \/ g.kind = "group" /\ quirk # "fullTime"
  \/ g.pens = None /\ quirk = "winner"
  \/ g.et # None /\ quirk = "fullTime"

\* The row such a document becomes tells the game as it was.
LEMMA FaithfulRow ==
  ASSUME NEW g, IsGame(g), NEW k, NEW quirk, HarmlessTo(g, quirk), ScoreOf(g, quirk) # None,
         NEW m, m = dto_to_match(Document(g, "FINISHED", k, quirk))
  PROVE  /\ m.home_score = g.reg[1] /\ m.away_score = g.reg[2]
         /\ g.kind = "knockout" =>
              /\ m.et_home = (IF g.et = None THEN None ELSE g.et[1])
              /\ m.et_away = (IF g.et = None THEN None ELSE g.et[2])
              /\ m.pens_winner = g.pens
              /\ m.home_team_id = "home" /\ m.away_team_id = "away"
<1> DEFINE r == resolve_scores(ScoreOf(g, quirk))
<1>1. /\ m.home_score = r.reg[1] /\ m.away_score = r.reg[2]
      /\ m.et_home = r.et[1] /\ m.et_away = r.et[2]
      /\ m.home_team_id = IF quirk = "homeTeam" THEN None ELSE "home"
      /\ m.away_team_id = "away"
      /\ m.pens_winner = IF r.pens = "home" THEN m.home_team_id
                         ELSE IF r.pens = "away" THEN "away" ELSE None
  BY Converted
<1>2. /\ g.et = None => /\ r.reg = IF quirk = "fullTime" THEN NoGoals ELSE g.reg
                        /\ r.et = NoGoals
      /\ g.et # None =>
           /\ r.reg = IF quirk # "regularTime" THEN g.reg
                      ELSE IF g.pens = None THEN Sum(g.reg, g.et) ELSE NoGoals
           /\ r.et = IF quirk = "extraTime" THEN NoGoals
                     ELSE IF quirk = "halfExtraTime" THEN <<g.et[1], None>> ELSE g.et
      /\ r.pens = IF quirk = "winner" THEN None ELSE g.pens
  BY Resolved
<1> HIDE DEF r
<1>3. None \notin Defect
  BY NoneAssumption
<1>4. g.pens \in {"home", "away", None} /\ NoGoals[1] = None /\ NoGoals[2] = None
      /\ g.kind \in {"group", "knockout"} /\ (g.kind = "group" => g.et = None /\ g.pens = None)
  BY GameParts DEF NoGoals, IsGame
<1>5. CASE g.kind = "group"
  <2>1. quirk # "fullTime"
    BY <1>3, <1>4, <1>5 DEF HarmlessTo, Defect
  <2> QED BY <1>1, <1>2, <1>4, <1>5, <2>1
<1>6. CASE g.kind = "knockout"
  <2>1. /\ quirk \notin {"regularTime", "extraTime", "halfExtraTime", "homeTeam"}
        /\ quirk = "fullTime" => g.et # None
        /\ quirk = "winner" => g.pens = None
    BY <1>3, <1>6 DEF HarmlessTo, Defect
  <2>2. r.reg = g.reg
    BY <1>2, <2>1
  <2>3. r.et = IF g.et = None THEN NoGoals ELSE g.et
    BY <1>2, <2>1
  <2>4. r.pens = g.pens
    BY <1>2, <2>1
  <2> QED BY <1>1, <1>4, <2>1, <2>2, <2>3, <2>4, NoneIsNothing
<1> QED BY <1>4, <1>5, <1>6

\* Who goes through, by the row of a knockout that tells the game as it was.
LEMMA AdvancementIsWinner ==
  ASSUME NEW g, IsGame(g), g.kind = "knockout", NEW m,
         m.home_score = g.reg[1], m.away_score = g.reg[2],
         m.et_home = (IF g.et = None THEN None ELSE g.et[1]),
         m.et_away = (IF g.et = None THEN None ELSE g.et[2]),
         m.pens_winner = g.pens
  PROVE  actual_advancement(m, "home", "away") = WinnerOf(g)
<1> DEFINE th == m.home_score + OrZero(m.et_home)
           ta == m.away_score + OrZero(m.et_away)
<1>1. /\ g.reg[1] \in Nat /\ g.reg[2] \in Nat
      /\ g.et # None => g.et[1] \in Nat /\ g.et[2] \in Nat
  BY GameParts
<1>2. actual_advancement(m, "home", "away") =
        IF m.pens_winner # None THEN m.pens_winner
        ELSE IF th > ta THEN "home" ELSE IF ta > th THEN "away" ELSE None
  BY DEF actual_advancement
<1>3. OrZero(None) = 0 /\ \A n \in Nat : OrZero(n) = n
  BY NoneIsNothing DEF OrZero
<1>4. CASE g.pens # None
  BY <1>2, <1>4, Winners
<1>5. CASE g.pens = None /\ g.et = None
  <2>1. th = g.reg[1] /\ ta = g.reg[2]
    BY <1>1, <1>3, <1>5
  <2> HIDE DEF th, ta
  <2> QED BY <1>1, <1>2, <1>5, <2>1, Winners
<1>6. CASE g.pens = None /\ g.et # None
  <2>1. th = g.reg[1] + g.et[1] /\ ta = g.reg[2] + g.et[2]
    BY <1>1, <1>3, <1>6
  <2>2. g.reg[1] = g.reg[2] /\ g.et[1] # g.et[2]
        /\ WinnerOf(g) = IF g.et[1] > g.et[2] THEN "home" ELSE "away"
    BY <1>6, Winners
  <2> HIDE DEF th, ta
  <2> QED BY <1>1, <1>2, <1>6, <2>1, <2>2
<1> QED BY <1>4, <1>5, <1>6

LEMMA RuleParts ==
  ASSUME NEW u, IsRule(u)
  PROVE  /\ u.gs_miss_points \in Nat /\ u.gs_one_team_points \in Nat
         /\ u.gs_sign_only_points \in Nat /\ u.gs_sign_plus_one_points \in Nat
         /\ u.gs_exact_points \in Nat
         /\ u.ko_adv_points \in Nat /\ u.ko_et_flag_points \in Nat
         /\ u.ko_pk_flag_points \in Nat /\ u.ko_combo_points \in Nat
         /\ u.repick_penalty_pct \in Nat /\ u.repick_penalty_pct <= 100
<1>1. /\ u \in [DOMAIN DefaultRule -> Nat] /\ u.repick_penalty_pct \in 0..100
  BY DEF IsRule
<1>2. {"gs_miss_points", "gs_one_team_points", "gs_sign_only_points", "gs_sign_plus_one_points",
       "gs_exact_points", "ko_adv_points", "ko_et_flag_points", "ko_pk_flag_points",
       "ko_combo_points"} \subseteq DOMAIN DefaultRule
  BY DEF DefaultRule
<1> QED BY <1>1, <1>2

\* No more goals apart than an i32 can say.
InWidth(p) == p.reg_home \in Int /\ p.reg_away \in Int /\ IsI32(p.reg_home - p.reg_away)

LEMMA DifferencesFit ==
  ASSUME NEW p, NEW g, IsGame(g), InWidth(p)
  PROVE  /\ Minus(p.reg_home, p.reg_away) = p.reg_home - p.reg_away
         /\ Minus(g.reg[1], g.reg[2]) = g.reg[1] - g.reg[2]
<1>1. \A m, n \in Int : IsI32(m - n) => Minus(m, n) = m - n
  BY WidthAssumption DEF Minus, IsI32
<1>2. g.reg[1] \in Nat /\ g.reg[2] \in Nat /\ g.reg[1] < IntLimit /\ g.reg[2] < IntLimit
  BY GameParts DEF IsGame, IsI32
<1>3. IsI32(g.reg[1] - g.reg[2])
  BY <1>2, WidthAssumption DEF IsI32
<1> QED BY <1>1, <1>2, <1>3 DEF InWidth

\* raw_reg_bucket's five arms are the table's.
LEMMA Buckets ==
  ASSUME NEW p, NEW g, IsGame(g), InWidth(p)
  PROVE  raw_reg_bucket(p.reg_home, p.reg_away, g.reg[1], g.reg[2], rule) = TableBucket(p, g)
<1> DEFINE h == p.reg_home = g.reg[1]
           a == p.reg_away = g.reg[2]
           same == Sign(p.reg_home - p.reg_away) = Sign(g.reg[1] - g.reg[2])
<1>0. /\ Minus(p.reg_home, p.reg_away) = p.reg_home - p.reg_away
      /\ Minus(g.reg[1], g.reg[2]) = g.reg[1] - g.reg[2]
  BY DifferencesFit
<1> USE <1>0
<1>1. CASE h /\ a
  BY <1>1 DEF raw_reg_bucket, TableBucket
<1>2. CASE ~(h /\ a) /\ (h \/ a) /\ same
  BY <1>2 DEF raw_reg_bucket, TableBucket
<1>3. CASE ~h /\ ~a /\ same
  BY <1>3 DEF raw_reg_bucket, TableBucket
<1>4. CASE ~(h /\ a) /\ (h \/ a) /\ ~same
  BY <1>4 DEF raw_reg_bucket, TableBucket
<1>5. CASE ~h /\ ~a /\ ~same
  BY <1>5 DEF raw_reg_bucket, TableBucket
<1> QED BY <1>1, <1>2, <1>3, <1>4, <1>5

LEMMA BucketTyped ==
  ASSUME NEW p, NEW g, IsRule(rule)
  PROVE  TableBucket(p, g) \in Nat
BY RuleParts DEF TableBucket

LEMMA Penalty ==
  ASSUME NEW n \in Nat, NEW changed \in BOOLEAN, NEW u, IsRule(u)
  PROVE  /\ apply_repick_penalty(n, changed, u) =
              IF changed THEN (n * (100 - u.repick_penalty_pct)) \div 100 ELSE n
         /\ apply_repick_penalty(n, changed, u) \in Nat
<1>1. 100 - u.repick_penalty_pct \in Nat /\ Larger(100 - u.repick_penalty_pct, 0) = 100 - u.repick_penalty_pct
  BY RuleParts DEF Larger
<1>2. \A k \in Nat : n * k \in Nat /\ (n * k) \div 100 \in Nat
  <2>1. \A k \in Nat : n * k \in Nat
    OBVIOUS
  <2>2. \A j \in Nat : j \div 100 \in Nat
    OBVIOUS
  <2> QED BY <2>1, <2>2
<1> HIDE DEF Larger
<1> QED BY <1>1, <1>2 DEF apply_repick_penalty

LEMMA TableTotalTyped ==
  ASSUME NEW p, NEW g, IsRule(rule)
  PROVE  TableTotal(p, g) \in Nat
<1>1. \A test, n : n \in Nat => If(test, n) \in Nat
  BY DEF If
<1> QED BY <1>1, BucketTyped, RuleParts DEF TableTotal

\* The total of a knockout whose row tells the game as it was is the table's.
LEMMA KnockoutTotals ==
  ASSUME NEW g, IsGame(g), g.kind = "knockout", NEW p, InWidth(p), IsRule(rule), NEW m,
         m.home_score = g.reg[1], m.away_score = g.reg[2],
         m.et_home = (IF g.et = None THEN None ELSE g.et[1]),
         m.et_away = (IF g.et = None THEN None ELSE g.et[2]),
         m.pens_winner = g.pens,
         predicted_advancement(p, "home", "away") # None
  PROVE  KnockoutTotal(p, m, "home", "away", rule) = TableTotal(p, g)
<1> DEFINE winner == IF p.advancement_winner # None THEN p.advancement_winner
                     ELSE IF p.reg_home > p.reg_away THEN "home" ELSE "away"
           adv == winner = WinnerOf(g)
           et == p.reg_home = p.reg_away <=> g.et # None
           pk == p.pens_winner # None <=> g.pens # None
           exact == TableBucket(p, g) = rule.gs_exact_points
<1>1. predicted_advancement(p, "home", "away") = winner
  BY DEF predicted_advancement, predicted_reg_draw
<1>2. actual_advancement(m, "home", "away") = WinnerOf(g)
  BY AdvancementIsWinner
<1>3. went_to_extra_time(m) <=> g.et # None
  <2>1. g.et # None => g.et[1] # None /\ g.et[2] # None
    BY GameParts, NoneIsNothing
  <2> QED BY <2>1 DEF went_to_extra_time
<1>4. went_to_penalties(m) <=> g.pens # None
  BY DEF went_to_penalties
<1>5. (predicted_reg_draw(p) = went_to_extra_time(m)) <=> et
  BY <1>3 DEF predicted_reg_draw, went_to_extra_time
<1>6. (predicted_goes_to_pens(p) = went_to_penalties(m)) <=> pk
  BY <1>4 DEF predicted_goes_to_pens, went_to_penalties
<1>7. raw_reg_bucket(p.reg_home, p.reg_away, m.home_score, m.away_score, rule) = TableBucket(p, g)
  BY Buckets
<1>8. TableBucket(p, g) = rule.gs_exact_points <=> exact
  OBVIOUS
<1>9. TableTotal(p, g) = TableBucket(p, g)
             + If(adv, rule.ko_adv_points) + If(et, rule.ko_et_flag_points)
             + If(pk, rule.ko_pk_flag_points)
             + If(exact /\ adv /\ et /\ pk, rule.ko_combo_points)
  BY DEF TableTotal
<1> HIDE DEF winner, et, pk, exact
<1>10. KnockoutTotal(p, m, "home", "away", rule) = TableBucket(p, g)
             + If(adv, rule.ko_adv_points) + If(et, rule.ko_et_flag_points)
             + If(pk, rule.ko_pk_flag_points)
             + If(adv /\ exact /\ et /\ pk, rule.ko_combo_points)
  BY <1>1, <1>2, <1>5, <1>6, <1>7, <1>8 DEF KnockoutTotal, If
<1>11. If(adv /\ exact /\ et /\ pk, rule.ko_combo_points) = If(exact /\ adv /\ et /\ pk, rule.ko_combo_points)
  BY DEF If
<1> QED BY <1>9, <1>10, <1>11

-----------------------------------------------------------------------------
(* The chain of documents, rows and points.                                *)

\* The document is one of this game, and only one of a finished game has a defect.
DocOK ==
  /\ doc.quirk \in Quirks \cup {None} /\ doc.utcDate \in Kickoffs
  /\ \E status \in {"TIMED", "FINISHED"} :
       /\ doc = Document(game, status, doc.utcDate, doc.quirk)
       /\ status = "TIMED" => doc.quirk = None

\* What the request checked and the row it was checked against.
PredOK ==
  pred # None => /\ IsKnockout <=> game.kind = "knockout"
                 /\ pred.reg_home \in Int /\ pred.reg_away \in Int /\ pred.was_changed \in BOOLEAN

\* Unless the match was ever set before it, the deadline is past when the match is
\* over, announced or scored.
LateOK ==
  ~early =>
    /\ IF doc.status = "TIMED" THEN deadline <= doc.utcDate ELSE deadline <= now
    /\ event => deadline <= now
    /\ points # None => deadline <= now

IInv == TypeOK /\ DocOK /\ PredOK /\ LateOK

LEMMA DocumentParts ==
  ASSUME NEW g, NEW status, NEW k, NEW quirk
  PROVE  LET d == Document(g, status, k, quirk)
         IN  /\ d.utcDate = k /\ d.quirk = quirk
             /\ d.status = IF quirk = "status" THEN "UNKNOWN" ELSE status
             /\ d.score = IF status = "FINISHED" THEN ScoreOf(g, quirk) ELSE None
BY DEF Document

LEMMA DocumentOf ==
  ASSUME DocOK
  PROVE  /\ doc.status = "TIMED" => /\ doc.quirk = None /\ doc.score = None
                                    /\ doc = Document(game, "TIMED", doc.utcDate, None)
         /\ doc.status # "TIMED" => /\ doc.status \in {"FINISHED", "UNKNOWN"}
                                    /\ doc.score = ScoreOf(game, doc.quirk)
                                    /\ doc = Document(game, "FINISHED", doc.utcDate, doc.quirk)
<1>1. None # "status"
  BY NoneAssumption DEF Defect
<1>2. PICK status \in {"TIMED", "FINISHED"} :
        /\ doc = Document(game, status, doc.utcDate, doc.quirk)
        /\ status = "TIMED" => doc.quirk = None
  BY DEF DocOK
<1>3. /\ doc.status = IF doc.quirk = "status" THEN "UNKNOWN" ELSE status
      /\ doc.score = IF status = "FINISHED" THEN ScoreOf(game, doc.quirk) ELSE None
  BY <1>2, DocumentParts
<1>4. CASE status = "TIMED"
  BY <1>1, <1>2, <1>3, <1>4
<1>5. CASE status = "FINISHED"
  BY <1>2, <1>3, <1>5
<1> QED BY <1>4, <1>5

\* A document of the game is DocOK's.
LEMMA DocMade ==
  ASSUME NEW status \in {"TIMED", "FINISHED"}, NEW k \in Kickoffs, NEW quirk \in Quirks \cup {None},
         status = "TIMED" => quirk = None, doc' = Document(game', status, k, quirk)
  PROVE  DocOK' /\ doc'.utcDate = k /\ (doc'.status = "TIMED" <=> status = "TIMED")
<1>1. /\ doc'.utcDate = k /\ doc'.quirk = quirk
      /\ doc'.status = IF quirk = "status" THEN "UNKNOWN" ELSE status
  BY DocumentParts
<1>2. None # "status"
  BY NoneAssumption DEF Defect
<1> QED BY <1>1, <1>2 DEF DocOK

LEMMA InvInit == Init => IInv
<1> SUFFICES ASSUME Init PROVE IInv
  OBVIOUS
<1>1. PICK kickoff \in Kickoffs :
        deadline \in {t \in Kickoffs : t <= kickoff} /\ doc = Document(game, "TIMED", kickoff, None)
  BY DEF Init
<1>2. doc.utcDate = kickoff /\ doc.quirk = None /\ doc.status = "TIMED"
  <2>1. /\ doc.utcDate = kickoff /\ doc.quirk = None
        /\ doc.status = IF None = "status" THEN "UNKNOWN" ELSE "TIMED"
    BY <1>1, DocumentParts
  <2>2. None # "status"
    BY NoneAssumption DEF Defect
  <2> QED BY <2>1, <2>2
<1>3. DocOK
  BY <1>1, <1>2 DEF DocOK
<1>4. now \in Time /\ moves \in 0..MaxMoves
  BY ConstantsAssumption DEF Init, Time
<1>5. TypeOK /\ PredOK
  BY <1>1, <1>4 DEF Init, TypeOK, PredOK
<1>6. LateOK
  BY <1>1, <1>2 DEF Init, LateOK
<1> QED BY <1>3, <1>5, <1>6 DEF IInv

LEMMA PollKeeps ==
  ASSUME IInv, Poll
  PROVE  IInv'
<1> DEFINE new == dto_to_match(doc)
<1>0. new = dto_to_match(doc)
  OBVIOUS
<1>1. /\ new.parent # None /\ Storable(new) /\ row' = new
      /\ event' = (event \/ (/\ new.status = "FINISHED" /\ (row = None \/ row.status # "FINISHED")
                             /\ new.home_score # None /\ new.away_score # None))
      /\ UNCHANGED <<now, game, rule, deadline, doc, pred, points, outcome, early, moves>>
  BY DEF Poll
<1>2. TypeOK /\ DocOK /\ PredOK /\ LateOK
  BY DEF IInv
<1>3. IsGame(game)
  BY <1>2, ConstantsAssumption DEF TypeOK
<1>4. /\ new.parent \in {"LAST_16", "Group A"}
      /\ new.parent = "LAST_16" => game.kind = "knockout"
      /\ new.parent = "Group A" => game.kind = "group"
  <2>1. PICK status : doc = Document(game, status, doc.utcDate, doc.quirk)
    BY <1>2 DEF DocOK
  <2> HIDE DEF new
  <2>2. ParentFits(dto_to_match(Document(game, status, doc.utcDate, doc.quirk)).parent, game)
    BY Zenon, <1>3, ParentOf
  <2>3. ParentFits(new.parent, game)
    BY Zenon, <1>0, <2>1, <2>2
  <2> QED BY <1>1, <2>3 DEF ParentFits
<1>5. new.status = "FINISHED" => doc.status = "FINISHED"
  BY DEF dto_to_match, match_status_from_dto
<1> HIDE DEF new
<1>6. /\ row'.parent \in KnockoutStages \cup {"Group A"}
      /\ row'.parent \in KnockoutStages <=> game.kind = "knockout"
  BY <1>1, <1>4 DEF KnockoutStages
<1>7. (row'.et_home = None <=> row'.et_away = None) /\ (row'.pens_winner # None => went_to_extra_time(row'))
  BY <1>1 DEF Storable, went_to_extra_time
<1>8. event' \in BOOLEAN
  BY <1>1, <1>2 DEF TypeOK
<1>9. PredOK' /\ TypeOK'
  BY <1>1, <1>2, <1>6, <1>7, <1>8 DEF PredOK, TypeOK, IsKnockout, is_consistent, predicted_reg_draw
<1>10. DocOK'
  BY <1>1, <1>2 DEF DocOK
<1>11. LateOK'
  BY <1>1, <1>2, <1>5 DEF LateOK
<1> QED BY <1>9, <1>10, <1>11 DEF IInv

LEMMA SubmitKeeps ==
  ASSUME IInv, NEW p \in Picks, Submit(p)
  PROVE  IInv'
<1> DEFINE new == [ reg_home |-> p.reg_home, reg_away |-> p.reg_away,
                    advancement_winner |-> p.advancement_winner,
                    pens_winner |-> p.pens_winner, was_changed |-> pred # None ]
<1>1. /\ row # None /\ is_consistent(p) /\ pred' = new
      /\ ~IsKnockout => p.advancement_winner = None /\ p.pens_winner = None
      /\ UNCHANGED <<now, game, rule, deadline, doc, row, event, points, outcome, early, moves>>
  BY DEF Submit
<1>2. TypeOK /\ DocOK /\ PredOK /\ LateOK
  BY DEF IInv
<1>3. p.reg_home \in Int /\ p.reg_away \in Int
  BY ConstantsAssumption DEF IsI32
<1>4. /\ new.reg_home = p.reg_home /\ new.reg_away = p.reg_away
      /\ new.advancement_winner = p.advancement_winner /\ new.pens_winner = p.pens_winner
      /\ new.was_changed \in BOOLEAN
  OBVIOUS
<1> HIDE DEF new
<1>5. is_consistent(new)
  BY <1>1, <1>4 DEF is_consistent, predicted_reg_draw
<1>6. IsKnockout <=> game.kind = "knockout"
  BY <1>1, <1>2 DEF TypeOK
<1>7. PredOK'
  BY <1>1, <1>3, <1>4, <1>6 DEF PredOK, IsKnockout
<1>8. TypeOK'
  <2>1. is_consistent(pred)'
    BY <1>1, <1>5 DEF is_consistent, predicted_reg_draw
  <2>2. (~IsKnockout => pred.advancement_winner = None /\ pred.pens_winner = None)'
    BY <1>1, <1>4 DEF IsKnockout
  <2> QED BY <1>1, <1>2, <2>1, <2>2 DEF TypeOK, IsKnockout
<1>9. DocOK' /\ LateOK'
  BY <1>1, <1>2 DEF DocOK, LateOK
<1> QED BY <1>7, <1>8, <1>9 DEF IInv

\* Whatever the bucket, and whether or not the differences fit, it pays a natural number.
LEMMA RawBucketTyped ==
  ASSUME NEW ph, NEW pa, NEW ah, NEW aa, IsRule(rule)
  PROVE  raw_reg_bucket(ph, pa, ah, aa, rule) \in Nat
<1> DEFINE h == ph = ah
           a == pa = aa
           r == Sign(Minus(ph, pa)) = Sign(Minus(ah, aa))
           bucket == CASE h /\ a -> rule.gs_exact_points
                       [] ~(h /\ a) /\ (h \/ a) /\ r -> rule.gs_sign_plus_one_points
                       [] ~h /\ ~a /\ r -> rule.gs_sign_only_points
                       [] (h \/ a) /\ ~r -> rule.gs_one_team_points
                       [] OTHER -> rule.gs_miss_points
<1>1. raw_reg_bucket(ph, pa, ah, aa, rule) = bucket
  BY DEF raw_reg_bucket
<1> HIDE DEF h, a, r
<1>2. CASE h /\ a
  BY <1>1, <1>2, RuleParts
<1>3. CASE ~(h /\ a) /\ (h \/ a) /\ r
  BY <1>1, <1>3, RuleParts
<1>4. CASE ~h /\ ~a /\ r
  BY <1>1, <1>4, RuleParts
<1>5. CASE (h \/ a) /\ ~r
  <2>1. CASE h /\ a
    BY <1>2, <2>1
  <2>2. CASE ~(h /\ a)
    BY <1>1, <1>5, <2>2, RuleParts
  <2> QED BY <2>1, <2>2
<1>6. CASE ~h /\ ~a /\ ~r
  BY <1>1, <1>6, RuleParts
<1> QED BY <1>2, <1>3, <1>4, <1>5, <1>6

\* What a prediction is awarded is a natural number.
LEMMA ScoredTyped ==
  ASSUME NEW p, p.was_changed \in BOOLEAN, IsRule(rule), Scored(p).ok
  PROVE  Scored(p).points \in Nat
<1> DEFINE reg == raw_reg_bucket(p.reg_home, p.reg_away, row.home_score, row.away_score, rule)
           total == KnockoutTotal(p, row, row.home_team_id, row.away_team_id, rule)
<1>1. \A e : ~Error(e).ok
  BY DEF Error
<1>2. reg \in Nat
  BY RawBucketTyped
<1>3. total \in Nat
  <2>1. \A test, n : n \in Nat => If(test, n) \in Nat
    BY DEF If
  <2> QED BY <1>2, <2>1, RuleParts DEF KnockoutTotal
<1> HIDE DEF reg, total
<1>4. \A n \in Nat : Points(apply_repick_penalty(n, p.was_changed, rule)).points \in Nat
  BY Penalty DEF Points
<1>5. \/ Scored(p) = Points(apply_repick_penalty(reg, p.was_changed, rule))
      \/ Scored(p) = Points(apply_repick_penalty(total, p.was_changed, rule))
      \/ \E e : Scored(p) = Error(e)
  BY DEF Scored, score_group_match, score_knockout_match, reg, total
<1> QED BY <1>1, <1>2, <1>3, <1>4, <1>5

LEMMA ScoreKeeps ==
  ASSUME IInv, Score
  PROVE  IInv'
<1>1. /\ event /\ event' = FALSE
      /\ points' = IF pred # None /\ Scored(pred).ok THEN Scored(pred).points ELSE points
      /\ UNCHANGED <<now, game, rule, deadline, doc, row, pred, early, moves>>
  BY DEF Score
<1>2. TypeOK /\ DocOK /\ PredOK /\ LateOK
  BY DEF IInv
<1>3. IsRule(rule)
  BY <1>2, ConstantsAssumption DEF TypeOK
<1>4. points' \in Nat \cup {None}
  <2>1. pred # None /\ Scored(pred).ok => Scored(pred).points \in Nat
    BY <1>2, <1>3, ScoredTyped DEF PredOK
  <2> QED BY <1>1, <1>2, <2>1 DEF TypeOK
<1>5. TypeOK'
  BY <1>1, <1>2, <1>4 DEF TypeOK, IsKnockout, is_consistent, predicted_reg_draw, went_to_extra_time
<1>6. DocOK' /\ PredOK' /\ LateOK'
  BY <1>1, <1>2 DEF DocOK, PredOK, LateOK, IsKnockout
<1> QED BY <1>2, <1>5, <1>6 DEF IInv

\* The instants are comparable.
LEMMA Instants ==
  ASSUME IInv
  PROVE  now \in Nat /\ now <= MaxTime /\ deadline \in Nat /\ doc.utcDate \in Nat
         /\ \A kickoff \in Kickoffs : kickoff \in Nat
<1>1. now \in Time /\ deadline \in Kickoffs /\ doc.utcDate \in Kickoffs
  BY DEF IInv, TypeOK, DocOK
<1>2. MaxTime \in Nat /\ \A kickoff \in Kickoffs : kickoff \in Nat
  BY ConstantsAssumption
<1>3. now \in 0..MaxTime
  BY <1>1 DEF Time
<1> QED BY <1>1, <1>2, <1>3

LEMMA MoveCounted ==
  ASSUME moves \in 0..MaxMoves, Move
  PROVE  moves' \in 0..MaxMoves
BY ConstantsAssumption DEF Move

LEMMA TickKeeps ==
  ASSUME IInv, Tick
  PROVE  IInv'
<1>1. now < MaxTime /\ now' = now + 1
      /\ UNCHANGED <<game, rule, deadline, doc, row, event, pred, points, outcome, early, moves>>
  BY DEF Tick
<1>2. TypeOK /\ DocOK /\ PredOK /\ LateOK
  BY DEF IInv
<1>3. now' \in Time
  BY <1>1, Instants, ConstantsAssumption DEF Time
<1>4. TypeOK'
  BY <1>1, <1>2, <1>3 DEF TypeOK, IsKnockout, is_consistent, predicted_reg_draw, went_to_extra_time
<1>5. \A t \in Nat : t <= now => t <= now'
  BY <1>1, Instants
<1>6. LateOK'
  BY <1>1, <1>2, <1>5, Instants DEF LateOK
<1>7. DocOK' /\ PredOK'
  BY <1>1, <1>2 DEF DocOK, PredOK, IsKnockout
<1> QED BY <1>4, <1>6, <1>7 DEF IInv

\* The steps of upstream leave the row and the prediction alone.
LEMMA UpstreamFrame ==
  ASSUME IInv, UNCHANGED <<now, rule, deadline, row, event, pred, points>>,
         game' \in Games, game'.kind = game.kind, moves' \in 0..MaxMoves, early' \in BOOLEAN,
         DocOK', LateOK'
  PROVE  IInv'
<1>1. TypeOK /\ PredOK
  BY DEF IInv
<1>2. TypeOK'
  BY <1>1 DEF TypeOK, IsKnockout, is_consistent, predicted_reg_draw, went_to_extra_time
<1>3. PredOK'
  BY <1>1 DEF PredOK, IsKnockout
<1> QED BY <1>2, <1>3 DEF IInv

LEMMA FinishKeeps ==
  ASSUME IInv, NEW quirk \in Quirks \cup {None}, Finish(quirk)
  PROVE  IInv'
<1>1. /\ doc.status = "TIMED" /\ doc.utcDate <= now
      /\ quirk # None => Move
      /\ quirk = None => UNCHANGED moves
      /\ doc' = Document(game, "FINISHED", doc.utcDate, quirk)
      /\ UNCHANGED <<now, game, rule, deadline, row, event, pred, points, outcome, early>>
  BY DEF Finish
<1>2. TypeOK /\ DocOK /\ LateOK /\ doc.utcDate \in Kickoffs
  BY DEF IInv, DocOK
<1>3. DocOK' /\ doc'.status # "TIMED"
  BY <1>1, <1>2, DocMade
<1>4. moves' \in 0..MaxMoves
  BY <1>1, <1>2, MoveCounted DEF TypeOK
<1>5. ~early => deadline <= now
  BY <1>1, <1>2, Instants DEF LateOK
<1>6. LateOK'
  BY <1>1, <1>2, <1>3, <1>5 DEF LateOK
<1>7. game' \in Games /\ game'.kind = game.kind /\ early' \in BOOLEAN
  BY <1>1, <1>2 DEF TypeOK
<1> QED BY <1>1, <1>3, <1>4, <1>6, <1>7, UpstreamFrame

LEMMA PutRightKeeps ==
  ASSUME IInv, PutRight
  PROVE  IInv'
<1>1. /\ doc.score # None
      /\ doc' = Document(game, "FINISHED", doc.utcDate, None)
      /\ UNCHANGED <<now, game, rule, deadline, row, event, pred, points, outcome, early, moves>>
  BY DEF PutRight
<1>2. TypeOK /\ DocOK /\ LateOK /\ doc.utcDate \in Kickoffs
  BY DEF IInv, DocOK
<1>3. doc.status # "TIMED"
  BY <1>1, <1>2, DocumentOf
<1>4. DocOK' /\ doc'.status # "TIMED"
  BY <1>1, <1>2, DocMade
<1>5. LateOK'
  BY <1>1, <1>2, <1>3, <1>4 DEF LateOK
<1>6. game' \in Games /\ game'.kind = game.kind /\ early' \in BOOLEAN /\ moves' \in 0..MaxMoves
  BY <1>1, <1>2 DEF TypeOK
<1> QED BY <1>1, <1>4, <1>5, <1>6, UpstreamFrame

LEMMA RescheduleKeeps ==
  ASSUME IInv, NEW kickoff \in Kickoffs, Reschedule(kickoff)
  PROVE  IInv'
<1>1. /\ Move
      /\ doc' = Document(game, "TIMED", kickoff, None)
      /\ early' = (early \/ kickoff < deadline)
      /\ UNCHANGED <<now, game, rule, deadline, row, event, pred, points, outcome>>
  BY DEF Reschedule
<1>2. TypeOK /\ DocOK /\ LateOK
  BY DEF IInv
<1>3. DocOK' /\ doc'.utcDate = kickoff /\ doc'.status = "TIMED"
  BY <1>1, DocMade
<1>4. ~early' => ~early /\ deadline <= kickoff
  <2>1. deadline \in Nat /\ kickoff \in Nat
    BY Instants
  <2>2. ~(kickoff < deadline) => deadline <= kickoff
    BY <2>1
  <2> QED BY <1>1, <2>2
<1>5. LateOK'
  BY <1>1, <1>2, <1>3, <1>4 DEF LateOK
<1>6. game' \in Games /\ game'.kind = game.kind /\ early' \in BOOLEAN
  BY <1>1, <1>2 DEF TypeOK
<1>7. moves' \in 0..MaxMoves
  BY <1>1, <1>2, MoveCounted DEF TypeOK
<1> QED BY <1>1, <1>3, <1>5, <1>6, <1>7, UpstreamFrame

LEMMA ReplayKeeps ==
  ASSUME IInv, NEW kickoff \in Kickoffs, NEW g \in Games, Replay(kickoff, g)
  PROVE  IInv'
<1>1. /\ doc.score # None
      /\ now < kickoff /\ g.kind = game.kind
      /\ Move
      /\ game' = g
      /\ doc' = Document(g, "TIMED", kickoff, None)
      /\ UNCHANGED <<now, rule, deadline, row, event, pred, points, outcome, early>>
  BY DEF Replay
<1>2. TypeOK /\ DocOK /\ LateOK
  BY DEF IInv
<1>3. doc.status # "TIMED"
  BY <1>1, <1>2, DocumentOf
<1>4. DocOK' /\ doc'.utcDate = kickoff /\ doc'.status = "TIMED"
  BY <1>1, DocMade
<1>5. ~early => deadline <= kickoff
  BY <1>1, <1>2, <1>3, Instants DEF LateOK
<1>6. LateOK'
  BY <1>1, <1>2, <1>4, <1>5 DEF LateOK
<1>7. game' \in Games /\ game'.kind = game.kind /\ early' \in BOOLEAN
  BY <1>1, <1>2 DEF TypeOK
<1>8. moves' \in 0..MaxMoves
  BY <1>1, <1>2, MoveCounted DEF TypeOK
<1> QED BY <1>1, <1>4, <1>6, <1>7, <1>8, UpstreamFrame

LEMMA Unchanged ==
  ASSUME IInv, UNCHANGED vars
  PROVE  IInv'
<1>1. TypeOK'
  BY DEF IInv, TypeOK, IsKnockout, went_to_extra_time, vars
<1>2. DocOK'
  BY DEF IInv, DocOK, vars
<1>3. PredOK'
  BY DEF IInv, PredOK, IsKnockout, is_consistent, predicted_reg_draw, vars
<1>4. LateOK'
  BY DEF IInv, LateOK, vars
<1> QED BY <1>1, <1>2, <1>3, <1>4 DEF IInv

LEMMA Inductive == Spec => []IInv
<1>1. IInv /\ [Next]_vars => IInv'
  <2> SUFFICES ASSUME IInv, [Next]_vars PROVE IInv'
    OBVIOUS
  <2>1. CASE Poll
    BY <2>1, PollKeeps
  <2>2. CASE Score
    BY <2>2, ScoreKeeps
  <2>3. CASE Tick
    BY <2>3, TickKeeps
  <2>4. CASE PutRight
    BY <2>4, PutRightKeeps
  <2>5. CASE \E p \in Picks : Submit(p)
    BY <2>5, SubmitKeeps
  <2>6. CASE \E quirk \in Quirks \cup {None} : Finish(quirk)
    BY <2>6, FinishKeeps
  <2>7. CASE \E kickoff \in Kickoffs : Reschedule(kickoff) \/ \E g \in Games : Replay(kickoff, g)
    BY <2>7, RescheduleKeeps, ReplayKeeps
  <2>8. CASE UNCHANGED vars
    BY <2>8, Unchanged
  <2> QED BY <2>1, <2>2, <2>3, <2>4, <2>5, <2>6, <2>7, <2>8 DEF Next
<1> QED BY <1>1, InvInit, PTL DEF Spec

\* A stored row names a parent of the match's own kind and obeys the table's
\* constraints; a stored prediction is consistent, and names a winner only for a
\* knockout; points are natural numbers.
THEOREM TypeCorrectness == Spec => []TypeOK
<1>1. IInv => TypeOK
  BY DEF IInv
<1> QED BY <1>1, Inductive, PTL

\* Whatever part of the score upstream leaves out, no stored row sends the wrong
\* team of a knockout through (dto_to_match, resolve_scores, actual_advancement).
THEOREM WinnersAdvance == Spec => []RightTeamAdvances
<1>1. IInv => RightTeamAdvances
  <2> SUFFICES ASSUME IInv, row # None, row = dto_to_match(doc), doc.score # None, IsKnockout,
                      row.home_score # None
               PROVE  actual_advancement(row, "home", "away") \in {WinnerOf(game), None}
    BY DEF RightTeamAdvances
  <2>1. TypeOK /\ DocOK
    BY DEF IInv
  <2>2. IsGame(game) /\ game.kind = "knockout" /\ (row.et_home = None <=> row.et_away = None)
    BY <2>1, ConstantsAssumption DEF TypeOK
  <2>3. doc.score = ScoreOf(game, doc.quirk) /\ doc = Document(game, "FINISHED", doc.utcDate, doc.quirk)
    BY <2>1, DocumentOf
  <2>4. ScoreOf(game, doc.quirk) # None /\ row = dto_to_match(Document(game, "FINISHED", doc.utcDate, doc.quirk))
    BY <2>3
  <2> QED BY <2>2, <2>4, RightTeam
<1> QED BY <1>1, Inductive, PTL

\* A prediction that has its points is not written again, whatever becomes of the
\* match, as long as no kickoff was ever set before the deadline of its parent.
THEOREM PointsStand == Spec => ScoredStands
<1>1. IInv /\ [Next]_vars => [points # None /\ ~early => pred' = pred]_vars
  <2> SUFFICES ASSUME IInv, [Next]_vars, points # None, ~early PROVE pred' = pred
    OBVIOUS
  <2>1. deadline <= now
    BY DEF IInv, LateOK
  <2>2. \A p : ~Submit(p)
    BY <2>1, Instants DEF Submit
  <2> QED BY <2>2 DEF Next, Poll, Score, Tick, PutRight, Finish, Reschedule, Replay, vars
<1> QED BY <1>1, Inductive, PTL DEF Spec, ScoredStands

\* What Score answers for a row that tells the game as it was.
LEMMA ScoredByTheTable ==
  ASSUME NEW g, IsGame(g), IsRule(rule),
         NEW p, InWidth(p), p.was_changed \in BOOLEAN, is_consistent(p),
         IsKnockout <=> g.kind = "knockout",
         row.home_score = g.reg[1], row.away_score = g.reg[2],
         g.kind = "knockout" =>
           /\ row.et_home = (IF g.et = None THEN None ELSE g.et[1])
           /\ row.et_away = (IF g.et = None THEN None ELSE g.et[2])
           /\ row.pens_winner = g.pens
           /\ row.home_team_id = "home" /\ row.away_team_id = "away"
  PROVE  Scored(p) = IF IsKnockout /\ predicted_advancement(p, "home", "away") = None
                     THEN Error("MissingAdvancementWinner")
                     ELSE Points(ByTheTable(p, g))
<1>1. row.home_score # None /\ row.away_score # None
  BY GameParts, NoneIsNothing
<1>2. Points(apply_repick_penalty(TableTotal(p, g), p.was_changed, rule)) = Points(ByTheTable(p, g))
  <2>1. TableTotal(p, g) \in Nat
    BY TableTotalTyped
  <2>2. apply_repick_penalty(TableTotal(p, g), p.was_changed, rule) =
          IF p.was_changed THEN (TableTotal(p, g) * (100 - rule.repick_penalty_pct)) \div 100
          ELSE TableTotal(p, g)
    BY <2>1, Penalty
  <2>3. apply_repick_penalty(TableTotal(p, g), p.was_changed, rule) = ByTheTable(p, g)
    BY <2>2 DEF ByTheTable
  <2> QED BY <2>3
<1>3. CASE g.kind = "group"
  <2>1. ~IsKnockout /\ Scored(p) = score_group_match(p, row, rule)
    BY <1>3 DEF Scored
  <2>2. raw_reg_bucket(p.reg_home, p.reg_away, row.home_score, row.away_score, rule) = TableTotal(p, g)
    <3>1. raw_reg_bucket(p.reg_home, p.reg_away, g.reg[1], g.reg[2], rule) = TableBucket(p, g)
      BY Buckets
    <3> QED BY <1>3, <3>1 DEF TableTotal
  <2>3. score_group_match(p, row, rule) =
          Points(apply_repick_penalty(TableTotal(p, g), p.was_changed, rule))
    BY <1>1, <2>2 DEF score_group_match
  <2> QED BY <1>2, <2>1, <2>3
<1>4. CASE g.kind = "knockout"
  <2>1. IsKnockout /\ Scored(p) = score_knockout_match(p, row, "home", "away", rule)
    BY <1>4, NoneIsNothing DEF Scored
  <2>2. actual_advancement(row, "home", "away") # None
    <3>1. actual_advancement(row, "home", "away") = WinnerOf(g)
      BY <1>4, AdvancementIsWinner
    <3>2. WinnerOf(g) \in {"home", "away"}
      BY <1>4, Winners
    <3> QED BY <3>1, <3>2, NoneIsNothing
  <2>3. CASE predicted_advancement(p, "home", "away") = None
    BY <1>1, <2>1, <2>2, <2>3 DEF score_knockout_match
  <2>4. CASE predicted_advancement(p, "home", "away") # None
    <3>1. KnockoutTotal(p, row, "home", "away", rule) = TableTotal(p, g)
      BY <1>4, <2>4, KnockoutTotals
    <3>2. score_knockout_match(p, row, "home", "away", rule) =
            Points(apply_repick_penalty(TableTotal(p, g), p.was_changed, rule))
      BY <1>1, <2>2, <2>4, <3>1 DEF score_knockout_match
    <3> QED BY <1>2, <2>1, <2>4, <3>2
  <2> QED BY <2>3, <2>4
<1> QED BY <1>3, <1>4, GameParts

\* A match scored from a document that tells the whole story earns exactly what the
\* tables in the comments of group_match.rs and knockout_match.rs give for the match as
\* it was played (dto_to_match, resolve_scores, score_group_match, score_knockout_match,
\* apply_repick_penalty), under every rule, for predictions whose difference is an i32.
THEOREM PlayedIsScored == Spec => ScoredAsPlayed
<1> DEFINE AsPlayed ==
      event /\ ~event' /\ pred # None /\ IsI32(pred.reg_home - pred.reg_away)
      /\ doc.score # None /\ row = dto_to_match(doc) /\ Harmless
      => IF IsKnockout /\ predicted_advancement(pred, "home", "away") = None
         THEN outcome' = Error("MissingAdvancementWinner")
         ELSE outcome' = Points(ByTheTable(pred, game))
<1>1. IInv /\ [Next]_vars => [AsPlayed]_vars
  <2> SUFFICES ASSUME IInv, [Next]_vars, event, ~event', pred # None, IsI32(pred.reg_home - pred.reg_away),
                      doc.score # None, row = dto_to_match(doc), Harmless
               PROVE  outcome' = IF IsKnockout /\ predicted_advancement(pred, "home", "away") = None
                                 THEN Error("MissingAdvancementWinner")
                                 ELSE Points(ByTheTable(pred, game))
    OBVIOUS
  <2>1. TypeOK /\ DocOK /\ PredOK
    BY DEF IInv
  <2>2. Score
    BY DEF Next, Poll, Submit, Tick, PutRight, Finish, Reschedule, Replay, vars
  <2>3. outcome' = Scored(pred)
    BY <2>2 DEF Score
  <2>4. IsGame(game) /\ IsRule(rule) /\ is_consistent(pred)
    BY <2>1, ConstantsAssumption DEF TypeOK
  <2>5. /\ InWidth(pred) /\ pred.was_changed \in BOOLEAN
        /\ IsKnockout <=> game.kind = "knockout"
    BY <2>1 DEF PredOK, InWidth
  <2>6. doc.score = ScoreOf(game, doc.quirk) /\ doc = Document(game, "FINISHED", doc.utcDate, doc.quirk)
    BY <2>1, DocumentOf
  <2>7. ScoreOf(game, doc.quirk) # None /\ row = dto_to_match(Document(game, "FINISHED", doc.utcDate, doc.quirk))
    BY <2>6
  <2>8. HarmlessTo(game, doc.quirk)
    BY DEF Harmless, HarmlessTo
  <2>9. /\ row.home_score = game.reg[1] /\ row.away_score = game.reg[2]
        /\ game.kind = "knockout" =>
             /\ row.et_home = (IF game.et = None THEN None ELSE game.et[1])
             /\ row.et_away = (IF game.et = None THEN None ELSE game.et[2])
             /\ row.pens_winner = game.pens
             /\ row.home_team_id = "home" /\ row.away_team_id = "away"
    BY <2>4, <2>7, <2>8, FaithfulRow
  <2> QED BY <2>3, <2>4, <2>5, <2>9, ScoredByTheTable
<1> QED BY <1>1, Inductive, PTL DEF Spec, ScoredAsPlayed
=============================================================================
