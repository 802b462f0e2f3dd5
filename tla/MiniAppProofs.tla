---------------------------- MODULE MiniAppProofs ----------------------------
(***************************************************************************)
(* What the Matches tab promises, for any matches, changes of controls,    *)
(* earlier predictions and kickoffs, any number of saves, failures, tabs   *)
(* left and Mini Apps closed.                                              *)
(***************************************************************************)
EXTENDS MiniApp, SequenceTheorems, TLAPS

-----------------------------------------------------------------------------
(* The inductive invariant.                                                *)

\* The table holds what forms have sent.
RowsOK ==
  /\ rows = [m \in Matches |-> rows[m]]
  /\ \A m \in Matches : rows[m] # None => IsOurs(rows[m]) /\ Fits(m, rows[m])

\* An answer of the server tells of the same predictions, and of no team too early:
\* K is the set of the matches whose teams are known.
AnswerOK(d, K) ==
  \A m \in Matches :
    /\ d[m].known => m \in K
    /\ d[m].my_prediction # None =>
         /\ IsOurs(d[m].my_prediction)
         /\ d[m].my_prediction.advancement_winner # None => d[m].known

AnswersOK ==
  /\ data # None => AnswerOK(data, known)
  /\ fetch # None /\ fetch.stage = "read" /\ fetch.data # None => AnswerOK(fetch.data, known)

\* The winner's controls have been there for what is typed into them.
EditOK(m, e, K) ==
  /\ IsEdit(e)
  /\ DOMAIN e \cap {"advancementWinnerId", "pensYes"} # {} => isKnockout
  /\ "advancementWinnerId" \in DOMAIN e => m \in K

EditsOK ==
  /\ edits = [m \in Matches |-> edits[m]]
  /\ \A m \in Matches : EditOK(m, edits[m], known)

\* A batch says what was typed, and repeats what was not touched.
InputOK(m, input, e, base, K) ==
  /\ m \in Matches /\ IsOurs(input)
  /\ input.advancement_winner # None => m \in K
  /\ \A f \in DOMAIN e : Tells(input, f, e[f])
  /\ e = << >> => /\ base.my_prediction # None
                  /\ input = InputFor(base, formRowFromApi(base.my_prediction))

SaveFields == {"form", "stage", "answer", "auth", "batch", "typed", "base"}

SaveOK(s, K) ==
  /\ DOMAIN s = SaveFields
  /\ s.form \in {"shown", "left", "closed"} /\ s.stage \in {"sent", "served", "done"}
  /\ s.stage = "sent" => s.answer = None
  /\ s.answer = "heard" => s.stage = "done"
  /\ s.answer # "invalid"
  /\ s.stage # "done" =>
       /\ AnswerOK(s.base, K)
       /\ \A m \in DOMAIN s.batch : InputOK(m, s.batch[m], s.typed[m], s.base[m], K)

LogOK ==
  /\ Len(saves) \in Nat /\ saves = [i \in 1..Len(saves) |-> saves[i]]
  /\ \A i \in DOMAIN saves : SaveOK(saves[i], known)

\* What the window that wrote the row of m last has heard of is on its way to the screen:
\* a fetch that has been read shows it, and what does not show it is marked.
Heard(m) == writer[m] # 0 /\ saves[writer[m]].answer = "heard"

HeardOK ==
  /\ writer = [m \in Matches |-> writer[m]]
  /\ \A m \in Matches :
       /\ writer[m] # 0 => writer[m] \in DOMAIN saves
       /\ Heard(m) =>
            /\ fetch # None /\ fetch.stage = "read" /\ fetch.data # None
                 => fetch.data[m].my_prediction = rows[m]
            /\ invalid \/ data = None \/ data[m].my_prediction = rows[m]

IInv == TypeOK /\ RowsOK /\ AnswersOK /\ EditsOK /\ LogOK /\ HeardOK

-----------------------------------------------------------------------------
(* Rows of the form and what onSubmit makes of them.                       *)

LEMMA NoneIsNothing ==
  /\ None \notin Nat /\ None \notin Side
  /\ None # "ok" /\ None # "invalid" /\ None # "heard"
BY ConstantsAssumption DEF Reply

\* What the fields of a row of the form hold.
IsRow(row) ==
  /\ row.regHome \in Nat \cup {None} /\ row.regAway \in Nat \cup {None}
  /\ row.advancementWinnerId \in Side \cup {None} /\ row.pensYes \in BOOLEAN

LEMMA RowFromApi ==
  ASSUME NEW p, p # None => IsOurs(p)
  PROVE  IsRow(formRowFromApi(p)) /\ DOMAIN formRowFromApi(p) = Field
BY DEF formRowFromApi, EMPTY_FORM_ROW, IsRow, IsOurs, Field

LEMMA RowFromEdits ==
  ASSUME NEW old, NEW e, IsRow(old), DOMAIN old = Field, IsEdit(e)
  PROVE  /\ IsRow(Spread(old, e)) /\ DOMAIN Spread(old, e) = Field
         /\ \A f \in DOMAIN e : Spread(old, e)[f] = e[f]
         /\ \A f \in Field \ DOMAIN e : Spread(old, e)[f] = old[f]
<1>1. DOMAIN e \subseteq Field
  BY DEF IsEdit, Field
<1>2. Spread(old, e) = [f \in Field |-> IF f \in DOMAIN e THEN e[f] ELSE old[f]]
  BY <1>1 DEF Spread
<1>3. \A f \in Field : Spread(old, e)[f] = IF f \in DOMAIN e THEN e[f] ELSE old[f]
  BY <1>2
<1>4. IsRow(Spread(old, e))
  BY <1>3 DEF IsRow, IsEdit, Field
<1> QED BY <1>1, <1>2, <1>3, <1>4

\* What InputFor makes of a complete row.
LEMMA InputParts ==
  ASSUME NEW match, NEW row, IsRow(row), Complete(row)
  PROVE  LET input == InputFor(match, row)
         IN  /\ row.regHome \in Nat /\ row.regAway \in Nat
             /\ input.reg_home = row.regHome /\ input.reg_away = row.regAway
             /\ row.regHome = row.regAway =>
                  /\ input.advancement_winner =
                       IF isKnockout THEN row.advancementWinnerId ELSE None
                  /\ input.pens_winner =
                       IF isKnockout /\ row.pensYes THEN row.advancementWinnerId ELSE None
             /\ row.regHome # row.regAway =>
                  /\ input.advancement_winner =
                       IF isKnockout /\ match.known THEN Leader(input) ELSE None
                  /\ input.pens_winner = None
<1>1. row.regHome \in Nat /\ row.regAway \in Nat
  BY DEF IsRow, Complete
<1> QED BY <1>1 DEF InputFor, isDraw, Complete, winningTeamId, Leader

\* It is a prediction of ours, and names a team only if the row or the match does.
LEMMA InputIsOurs ==
  ASSUME NEW match, NEW row, IsRow(row), Complete(row)
  PROVE  /\ IsOurs(InputFor(match, row))
         /\ InputFor(match, row).advancement_winner # None =>
              match.known \/ row.advancementWinnerId # None
<1> DEFINE input == InputFor(match, row)
<1>1. /\ row.regHome \in Nat /\ row.regAway \in Nat
      /\ input.reg_home = row.regHome /\ input.reg_away = row.regAway
      /\ row.regHome = row.regAway =>
           /\ input.advancement_winner = IF isKnockout THEN row.advancementWinnerId ELSE None
           /\ input.pens_winner =
                IF isKnockout /\ row.pensYes THEN row.advancementWinnerId ELSE None
      /\ row.regHome # row.regAway =>
           /\ input.advancement_winner =
                IF isKnockout /\ match.known THEN Leader(input) ELSE None
           /\ input.pens_winner = None
  BY InputParts
<1>2. row.advancementWinnerId \in Side \cup {None}
  BY DEF IsRow
<1>3. Leader(input) \in Side
  BY DEF Leader, Side
<1> HIDE DEF input
<1>4. input.advancement_winner \in Side \cup {None}
  BY <1>1, <1>2, <1>3
<1>5. input.pens_winner \in {None, input.advancement_winner}
  BY <1>1
<1>6. input.pens_winner # None => input.reg_home = input.reg_away
  BY <1>1
<1>7. input.advancement_winner # None =>
        isKnockout /\ (input.reg_home = input.reg_away \/ input.advancement_winner = Leader(input))
  BY <1>1
<1>8. IsOurs(input)
  BY <1>1, <1>4, <1>5, <1>6, <1>7 DEF IsOurs, predicted_reg_draw
<1>9. input.advancement_winner # None => match.known \/ row.advancementWinnerId # None
  BY <1>1
<1> QED BY <1>8, <1>9 DEF input

\* validate_predictions and the table's constraints have nothing against ours.
LEMMA OursIsValid ==
  ASSUME NEW p, IsOurs(p)
  PROVE  /\ is_consistent(p) /\ KnockoutConsistency(p)
         /\ ~isKnockout => p.advancement_winner = None /\ p.pens_winner = None
BY DEF IsOurs, is_consistent, KnockoutConsistency, predicted_reg_draw

\* It tells every edit of the row.
LEMMA InputTells ==
  ASSUME NEW match, NEW row, IsRow(row), Complete(row), NEW e, IsEdit(e),
         DOMAIN e \cap {"advancementWinnerId", "pensYes"} # {} => isKnockout,
         NEW f \in DOMAIN e, row[f] = e[f]
  PROVE  Tells(InputFor(match, row), f, e[f])
<1> DEFINE input == InputFor(match, row)
<1>1. /\ row.regHome \in Nat /\ row.regAway \in Nat
      /\ input.reg_home = row.regHome /\ input.reg_away = row.regAway
      /\ row.regHome = row.regAway =>
           /\ input.advancement_winner = IF isKnockout THEN row.advancementWinnerId ELSE None
           /\ input.pens_winner =
                IF isKnockout /\ row.pensYes THEN row.advancementWinnerId ELSE None
  BY InputParts
<1> HIDE DEF input
<1>2. CASE f = "regHome"
  BY <1>1, <1>2 DEF Tells, input
<1>3. CASE f = "regAway"
  BY <1>1, <1>3 DEF Tells, input
<1>4. CASE f = "advancementWinnerId"
  <2>1. isKnockout
    BY <1>4
  <2>2. predicted_reg_draw(input) => input.advancement_winner = e[f]
    BY <1>1, <1>4, <2>1 DEF predicted_reg_draw
  <2> QED BY <1>4, <2>2 DEF Tells, input
<1>5. CASE f = "pensYes"
  <2>1. isKnockout /\ row.pensYes = e[f] /\ e[f] \in BOOLEAN
    BY <1>5 DEF IsEdit
  <2>2. ASSUME predicted_reg_draw(input), input.advancement_winner # None
        PROVE  predicted_goes_to_pens(input) = e[f]
    <3>1. row.regHome = row.regAway /\ row.advancementWinnerId # None
      BY <1>1, <2>1, <2>2 DEF predicted_reg_draw
    <3>2. input.pens_winner = IF e[f] THEN row.advancementWinnerId ELSE None
      BY <1>1, <2>1, <3>1
    <3>3. (input.pens_winner # None) <=> e[f]
      BY <3>1, <3>2
    <3> QED BY <2>1, <3>3 DEF predicted_goes_to_pens
  <2> QED BY <1>5, <2>2 DEF Tells, input
<1> QED BY <1>2, <1>3, <1>4, <1>5 DEF IsEdit

\* A row that is not touched is sent as it was read, but for a winner that is filled in.
Same(old, new, match) ==
  /\ new.reg_home = old.reg_home /\ new.reg_away = old.reg_away
  /\ new.pens_winner = old.pens_winner
  /\ \/ new.advancement_winner = old.advancement_winner
     \/ /\ old.advancement_winner = None /\ match.known
        /\ ~predicted_reg_draw(old) /\ new.advancement_winner = Leader(old)

LEMMA InputRepeats ==
  ASSUME NEW match, NEW p, IsOurs(p), p.advancement_winner # None => match.known
  PROVE  p # None => Same(p, InputFor(match, formRowFromApi(p)), match)
<1> SUFFICES ASSUME p # None
             PROVE  Same(p, InputFor(match, formRowFromApi(p)), match)
  OBVIOUS
<1> DEFINE row == formRowFromApi(p)
           input == InputFor(match, row)
<1>1. /\ row.regHome = p.reg_home /\ row.regAway = p.reg_away
      /\ row.advancementWinnerId = p.advancement_winner /\ row.pensYes = (p.pens_winner # None)
  BY DEF formRowFromApi
<1>2. IsRow(row) /\ Complete(row)
  BY <1>1, RowFromApi, NoneIsNothing DEF IsOurs, Complete
<1> HIDE DEF row
<1>3. /\ input.reg_home = row.regHome /\ input.reg_away = row.regAway
      /\ row.regHome = row.regAway =>
           /\ input.advancement_winner = IF isKnockout THEN row.advancementWinnerId ELSE None
           /\ input.pens_winner =
                IF isKnockout /\ row.pensYes THEN row.advancementWinnerId ELSE None
      /\ row.regHome # row.regAway =>
           /\ input.advancement_winner =
                IF isKnockout /\ match.known THEN Leader(input) ELSE None
           /\ input.pens_winner = None
  BY <1>2, InputParts
<1>4. Leader(input) = Leader(p)
  BY <1>1, <1>3 DEF Leader
<1> HIDE DEF input
<1>5. CASE p.reg_home = p.reg_away
  <2>1. input.advancement_winner = p.advancement_winner
    BY <1>1, <1>3, <1>5 DEF IsOurs
  <2>2. input.pens_winner = p.pens_winner
    BY <1>1, <1>3, <1>5 DEF IsOurs
  <2>3. Same(p, input, match)
    BY <1>1, <1>3, <2>1, <2>2 DEF Same
  <2> QED BY <2>3 DEF input, row
<1>6. CASE p.reg_home # p.reg_away
  <2>1. input.pens_winner = p.pens_winner
    BY <1>1, <1>3, <1>6 DEF IsOurs, predicted_reg_draw
  <2>2. \/ input.advancement_winner = p.advancement_winner
        \/ /\ p.advancement_winner = None /\ match.known
           /\ ~predicted_reg_draw(p) /\ input.advancement_winner = Leader(p)
    <3>1. ~predicted_reg_draw(p)
      BY <1>6 DEF predicted_reg_draw
    <3>2. input.advancement_winner = IF isKnockout /\ match.known THEN Leader(p) ELSE None
      BY <1>1, <1>3, <1>4, <1>6
    <3>3. p.advancement_winner # None => isKnockout /\ p.advancement_winner = Leader(p)
      BY <3>1 DEF IsOurs
    <3> QED BY <3>1, <3>2, <3>3
  <2>3. Same(p, input, match)
    BY <1>1, <1>3, <2>1, <2>2 DEF Same
  <2> QED BY <2>3 DEF input, row
<1> QED BY <1>5, <1>6

-----------------------------------------------------------------------------
(* What the steps do to each part of the state.                            *)

LEMMA KnownGrows ==
  ASSUME [Next]_vars
  PROVE  known \subseteq known'
BY DEF Next, Read, Arrive, FetchFails, ListArrives, ListFails, Refetch, Press, Leave, Enter, Reopen,
       Tick, Serve, Answered, SaveFails, Resolve, Type, Reschedule, Elsewhere, world, vars

LEMMA RowsSteps ==
  ASSUME [Next]_vars
  PROVE  \/ UNCHANGED <<rows, writer>>
         \/ \E i \in DOMAIN saves : Serve(i)
         \/ \E m \in Matches, p \in Earlier : Elsewhere(m, p)
BY DEF Next, Read, Arrive, FetchFails, ListArrives, ListFails, Refetch, Press, Leave, Enter, Reopen,
       Tick, Answered, SaveFails, Resolve, Type, Reschedule, vars

LEMMA EditsSteps ==
  ASSUME [Next]_vars
  PROVE  \/ UNCHANGED edits
         \/ edits' = NoEdits
         \/ \E m \in Matches, patch \in Patches : Type(m, patch)
BY DEF Next, Read, Arrive, FetchFails, ListArrives, ListFails, Refetch, Press, Leave, Enter, Reopen,
       Tick, Serve, Answered, SaveFails, Resolve, Reschedule, Elsewhere, Unmount, vars

LEMMA DataSteps ==
  ASSUME [Next]_vars
  PROVE  \/ UNCHANGED data
         \/ data' = None /\ fetch' = None
         \/ Arrive
BY DEF Next, Read, FetchFails, ListArrives, ListFails, Refetch, Press, Leave, Enter, Reopen,
       Tick, Serve, Answered, SaveFails, Resolve, Type, Reschedule, Elsewhere, queries, vars

LEMMA FetchSteps ==
  ASSUME [Next]_vars
  PROVE  fetch' \in {fetch, Asked, None} \/ Read
BY DEF Next, Arrive, FetchFails, ListArrives, ListFails, Refetch, Press, Leave, Enter, Reopen,
       Tick, Serve, Answered, SaveFails, Resolve, Type, Reschedule, Elsewhere, Mount, Invalidate,
       queries, vars

\* The forms some saves belong to are left or closed.
FormsGo(form) ==
  \E S \in SUBSET DOMAIN saves :
    saves' = [i \in DOMAIN saves |-> IF i \in S THEN [saves[i] EXCEPT !.form = form] ELSE saves[i]]

LEMMA UnmountGoes ==
  ASSUME Unmount
  PROVE  FormsGo("left")
<1> DEFINE S == {i \in DOMAIN saves : saves[i].form = "shown" /\ saves[i].stage # "done"}
<1>1. saves' = [i \in DOMAIN saves |->
                  IF i \in S THEN [saves[i] EXCEPT !.form = "left"] ELSE saves[i]]
  BY DEF Unmount
<1> HIDE DEF S
<1>2. S \in SUBSET DOMAIN saves
  BY DEF S
<1> QED BY <1>1, <1>2 DEF FormsGo

LEMMA ReopenGoes ==
  ASSUME Reopen
  PROVE  FormsGo("closed")
<1> DEFINE S == {i \in DOMAIN saves : saves[i].stage # "done"}
<1>1. saves' = [i \in DOMAIN saves |->
                  IF i \in S THEN [saves[i] EXCEPT !.form = "closed"] ELSE saves[i]]
  BY DEF Reopen
<1> HIDE DEF S
<1>2. S \in SUBSET DOMAIN saves
  BY DEF S
<1> QED BY <1>1, <1>2 DEF FormsGo

LEMMA SavesSteps ==
  ASSUME [Next]_vars
  PROVE  \/ UNCHANGED saves
         \/ FormsGo("left")
         \/ FormsGo("closed")
         \/ Press
         \/ \E i \in DOMAIN saves : Serve(i)
         \/ \E i \in DOMAIN saves, heard \in BOOLEAN : saves' = [saves EXCEPT ![i] = Done(heard)]
<1>1. CASE ListArrives \/ ListFails \/ Leave
  BY <1>1, UnmountGoes DEF ListArrives, ListFails, Leave
<1>2. CASE Reopen
  BY <1>2, ReopenGoes
<1>3. ASSUME NEW i \in DOMAIN saves, Answered(i) \/ SaveFails(i)
      PROVE  \E heard \in BOOLEAN : saves' = [saves EXCEPT ![i] = Done(heard)]
  <2>1. (saves[i].form = "shown" /\ saves[i].answer = "ok") \in BOOLEAN /\ FALSE \in BOOLEAN
    OBVIOUS
  <2> QED BY <1>3, <2>1 DEF Answered, SaveFails
<1>4. CASE UNCHANGED vars
  BY <1>4 DEF vars
<1> QED BY <1>1, <1>2, <1>3, <1>4
     DEF Next, Read, Arrive, FetchFails, Refetch, Enter, Tick, Resolve, Type, Reschedule, Elsewhere

-----------------------------------------------------------------------------
(* The parts of the invariant, one by one.                                 *)

LEMMA AnswerGrows ==
  \A d, K, L : AnswerOK(d, K) /\ K \subseteq L => AnswerOK(d, L)
BY DEF AnswerOK

LEMMA EditGrows ==
  \A m, e, K, L : EditOK(m, e, K) /\ K \subseteq L => EditOK(m, e, L)
BY DEF EditOK

LEMMA SaveGrows ==
  \A s, K, L : SaveOK(s, K) /\ K \subseteq L => SaveOK(s, L)
<1> SUFFICES ASSUME NEW s, NEW K, NEW L, SaveOK(s, K), K \subseteq L PROVE SaveOK(s, L)
  OBVIOUS
<1>1. \A m, input, e, base : InputOK(m, input, e, base, K) => InputOK(m, input, e, base, L)
  BY DEF InputOK
<1> QED BY <1>1, AnswerGrows DEF SaveOK

LEMMA StoredIsOurs ==
  ASSUME NEW p, NEW old, IsOurs(p)
  PROVE  IsOurs(Stored(p, old)) /\ Stored(p, old).advancement_winner = p.advancement_winner
BY DEF Stored, IsOurs, predicted_reg_draw, Leader

LEMMA RowsKeep ==
  ASSUME IInv, [Next]_vars
  PROVE  RowsOK'
<1>1. RowsOK /\ known \subseteq known'
  BY KnownGrows DEF IInv
<1>2. CASE UNCHANGED <<rows, writer>>
  BY <1>1, <1>2 DEF RowsOK, Fits
<1>3. ASSUME NEW i \in DOMAIN saves, Serve(i) PROVE RowsOK'
  <2> DEFINE written == IF (IF Authorized(saves[i].auth) THEN Refusal(saves[i].batch)
                            ELSE "unauthorized") = "ok"
                        THEN DOMAIN saves[i].batch ELSE {}
  <2>1. saves[i].stage = "sent" /\ SaveOK(saves[i], known)
    BY <1>3 DEF Serve, IInv, LogOK
  <2>2. rows' = [m \in Matches |->
                   IF m \in written THEN Stored(saves[i].batch[m], rows[m]) ELSE rows[m]]
    BY <1>3 DEF Serve
  <2>3. \A m \in written : m \in DOMAIN saves[i].batch
    OBVIOUS
  <2> HIDE DEF written
  <2>4. ASSUME NEW m \in Matches, rows'[m] # None
        PROVE  IsOurs(rows'[m]) /\ (rows'[m].advancement_winner # None => m \in known')
    <3>1. CASE m \in written
      <4>1. rows'[m] = Stored(saves[i].batch[m], rows[m])
        BY <2>2, <3>1
      <4>2. IsOurs(saves[i].batch[m]) /\ (saves[i].batch[m].advancement_winner # None => m \in known)
        BY <2>1, <2>3, <3>1 DEF SaveOK, InputOK
      <4> QED BY <1>1, <4>1, <4>2, StoredIsOurs
    <3>2. CASE m \notin written
      BY <1>1, <2>2, <2>4, <3>2 DEF RowsOK, Fits
    <3> QED BY <3>1, <3>2
  <2>5. rows' = [m \in Matches |-> rows'[m]]
    BY <2>2
  <2> QED BY <2>4, <2>5 DEF RowsOK, Fits
<1>4. ASSUME NEW m \in Matches, NEW p \in Earlier, Elsewhere(m, p) PROVE RowsOK'
  <2>1. Fits(m, p) /\ rows' = [rows EXCEPT ![m] = Stored(p, rows[m])]
    BY <1>4 DEF Elsewhere
  <2>2. IsOurs(Stored(p, rows[m])) /\ Stored(p, rows[m]).advancement_winner = p.advancement_winner
    BY StoredIsOurs, ConstantsAssumption
  <2>3. \A n \in Matches : rows'[n] = IF n = m THEN Stored(p, rows[m]) ELSE rows[n]
    BY <1>1, <2>1 DEF RowsOK
  <2>4. rows' = [n \in Matches |-> rows'[n]]
    BY <1>1, <2>1 DEF RowsOK
  <2>5. ASSUME NEW n \in Matches, rows'[n] # None
        PROVE  IsOurs(rows'[n]) /\ (rows'[n].advancement_winner # None => n \in known')
    BY <1>1, <2>1, <2>2, <2>3, <2>5 DEF RowsOK, Fits
  <2> QED BY <2>4, <2>5 DEF RowsOK, Fits
<1> QED BY <1>2, <1>3, <1>4, RowsSteps

LEMMA AnswersKeep ==
  ASSUME IInv, [Next]_vars
  PROVE  AnswersOK'
<1>1. AnswersOK /\ RowsOK /\ known \subseteq known'
  BY KnownGrows DEF IInv
<1>2. ASSUME data' # None PROVE AnswerOK(data', known')
  <2>1. CASE UNCHANGED data
    BY <1>1, <1>2, <2>1, AnswerGrows DEF AnswersOK
  <2>2. CASE Arrive
    <3>1. fetch # None /\ fetch.stage = "read"
          /\ data' = IF fetch.data = None THEN data ELSE fetch.data
      BY <2>2 DEF Arrive
    <3>2. AnswerOK(data', known)
      BY <1>1, <1>2, <3>1 DEF AnswersOK
    <3> QED BY <1>1, <3>2, AnswerGrows
  <2> QED BY <1>2, <2>1, <2>2, DataSteps
<1>3. ASSUME fetch' # None, fetch'.stage = "read", fetch'.data # None
      PROVE  AnswerOK(fetch'.data, known')
  <2>1. CASE fetch' = fetch
    BY <1>1, <1>3, <2>1, AnswerGrows DEF AnswersOK
  <2>2. CASE fetch' = Asked
    BY <1>3, <2>2 DEF Asked
  <2>3. CASE Read
    <3>1. fetch'.data = IF Authorized(opened) THEN MatchesWithPredictions ELSE None
      BY <2>3 DEF Read
    <3>2. fetch'.data = MatchesWithPredictions
      BY <1>3, <3>1
    <3>3. AnswerOK(MatchesWithPredictions, known)
      BY <1>1 DEF AnswerOK, MatchesWithPredictions, RowsOK, Fits
    <3> QED BY <1>1, <3>2, <3>3, AnswerGrows
  <2> QED BY <1>3, <2>1, <2>2, <2>3, FetchSteps
<1> QED BY <1>2, <1>3 DEF AnswersOK

LEMMA NothingTyped ==
  \A m, K : EditOK(m, << >>, K)
BY DEF EditOK, IsEdit

LEMMA EditsKeep ==
  ASSUME IInv, [Next]_vars
  PROVE  EditsOK'
<1>1. EditsOK /\ known \subseteq known'
  BY KnownGrows DEF IInv
<1>2. CASE UNCHANGED edits
  BY <1>1, <1>2, EditGrows DEF EditsOK
<1>3. CASE edits' = NoEdits
  BY <1>3, NothingTyped DEF EditsOK, NoEdits
<1>4. ASSUME NEW m \in Matches, NEW patch \in Patches, Type(m, patch) PROVE EditsOK'
  <2>1. /\ edits' = [edits EXCEPT ![m] = Spread(edits[m], patch)]
        /\ DOMAIN patch \cap {"advancementWinnerId", "pensYes"} # {} => isKnockout
        /\ "advancementWinnerId" \in DOMAIN patch => data[m].known
        /\ data # None
    BY <1>4 DEF Type, Form
  <2>2. IsEdit(patch) /\ EditOK(m, edits[m], known)
    BY <1>1, ConstantsAssumption DEF EditsOK
  <2>3. "advancementWinnerId" \in DOMAIN patch => m \in known
    BY <2>1 DEF IInv, AnswersOK, AnswerOK
  <2>4. /\ DOMAIN Spread(edits[m], patch) = DOMAIN edits[m] \cup DOMAIN patch
        /\ \A f \in DOMAIN Spread(edits[m], patch) :
             Spread(edits[m], patch)[f] = IF f \in DOMAIN patch THEN patch[f] ELSE edits[m][f]
    BY DEF Spread
  <2>5. IsEdit(Spread(edits[m], patch))
    BY <2>2, <2>4 DEF EditOK, IsEdit
  <2>6. EditOK(m, Spread(edits[m], patch), known)
    BY <2>1, <2>2, <2>3, <2>4, <2>5 DEF EditOK
  <2>7. \A n \in Matches : edits'[n] = IF n = m THEN Spread(edits[m], patch) ELSE edits[n]
    BY <1>1, <2>1 DEF EditsOK
  <2>8. edits' = [n \in Matches |-> edits'[n]]
    BY <1>1, <2>1 DEF EditsOK
  <2>9. \A n \in Matches : EditOK(n, edits'[n], known)
    BY <1>1, <2>6, <2>7 DEF EditsOK
  <2> QED BY <1>1, <2>8, <2>9, EditGrows DEF EditsOK
<1> QED BY <1>2, <1>3, <1>4, EditsSteps

\* A function on the first numbers is a sequence of its values.
LEMMA SelfSeq ==
  ASSUME NEW s, NEW n \in Nat, s = [i \in 1..n |-> s[i]]
  PROVE  s \in Seq({s[i] : i \in DOMAIN s}) /\ DOMAIN s = 1..n /\ Len(s) = n
<1> DEFINE S == {s[i] : i \in DOMAIN s}
<1>1. DOMAIN s = 1..n
  OBVIOUS
<1>2. s \in [1..n -> S]
  BY <1>1
<1> HIDE DEF S
<1>3. s \in Seq(S)
  BY <1>2, SeqDef
<1>4. Len(s) = n
  BY <1>1, <1>3, LenProperties
<1> QED BY <1>1, <1>3, <1>4 DEF S

LEMMA LogParts ==
  ASSUME LogOK
  PROVE  /\ Len(saves) \in Nat /\ DOMAIN saves = 1..Len(saves)
         /\ saves = [i \in 1..Len(saves) |-> saves[i]]
BY DEF LogOK

\* What changes none of the saves' number leaves a log.
LEMMA LogStays ==
  ASSUME LogOK, saves' = [i \in DOMAIN saves |-> saves'[i]],
         \A i \in DOMAIN saves : SaveOK(saves'[i], known')
  PROVE  LogOK'
<1>1. Len(saves) \in Nat /\ DOMAIN saves = 1..Len(saves)
  BY LogParts
<1>2. saves' = [i \in 1..Len(saves) |-> saves'[i]]
  BY <1>1
<1>3. Len(saves') = Len(saves) /\ DOMAIN saves' = DOMAIN saves
  BY <1>1, <1>2, SelfSeq
<1> QED BY <1>1, <1>2, <1>3 DEF LogOK

LEMMA FormsGoKeeps ==
  ASSUME IInv, [Next]_vars, NEW form \in {"left", "closed"}, FormsGo(form)
  PROVE  LogOK'
<1>1. LogOK /\ known \subseteq known'
  BY KnownGrows DEF IInv
<1>2. PICK S \in SUBSET DOMAIN saves :
        saves' = [i \in DOMAIN saves |-> IF i \in S THEN [saves[i] EXCEPT !.form = form] ELSE saves[i]]
  BY DEF FormsGo
<1>3. ASSUME NEW i \in DOMAIN saves PROVE SaveOK(saves'[i], known')
  <2>1. SaveOK(saves[i], known')
    BY <1>1, SaveGrows DEF LogOK
  <2>2. SaveOK([saves[i] EXCEPT !.form = form], known')
    BY <2>1 DEF SaveOK, SaveFields
  <2> QED BY <1>2, <2>1, <2>2
<1>4. saves' = [i \in DOMAIN saves |-> saves'[i]]
  BY <1>2
<1> QED BY <1>1, <1>3, <1>4, LogStays

LEMMA DoneKeeps ==
  ASSUME IInv, [Next]_vars, NEW i \in DOMAIN saves, NEW heard \in BOOLEAN,
         saves' = [saves EXCEPT ![i] = Done(heard)]
  PROVE  LogOK'
<1>1. LogOK /\ known \subseteq known'
  BY KnownGrows DEF IInv
<1>2. SaveOK(Done(heard), known')
  BY NoneIsNothing DEF SaveOK, SaveFields, Done
<1>3. saves' = [j \in DOMAIN saves |-> IF j = i THEN Done(heard) ELSE saves[j]]
  <2>1. saves = [j \in DOMAIN saves |-> saves[j]]
    BY <1>1, LogParts
  <2> QED BY <2>1
<1>4. \A j \in DOMAIN saves : SaveOK(saves'[j], known')
  BY <1>1, <1>2, <1>3, SaveGrows DEF LogOK
<1>5. saves' = [j \in DOMAIN saves |-> saves'[j]]
  BY <1>3
<1> QED BY <1>1, <1>4, <1>5, LogStays

\* What the server answers to a batch of ours.
LEMMA OursIsServed ==
  ASSUME NEW i \in DOMAIN saves, Serve(i), SaveOK(saves[i], known)
  PROVE  \E answer \in Reply \ {"invalid", "heard"} :
           saves' = [saves EXCEPT ![i] = [saves[i] EXCEPT !.stage = "served", !.answer = answer]]
<1> DEFINE answer == IF Authorized(saves[i].auth) THEN Refusal(saves[i].batch) ELSE "unauthorized"
<1>1. saves[i].stage = "sent"
  BY DEF Serve
<1>2. \A m \in DOMAIN saves[i].batch : IsOurs(saves[i].batch[m])
  BY <1>1 DEF SaveOK, InputOK
<1>3. answer \in Reply \ {"invalid", "heard"}
  <2>1. \A m \in DOMAIN saves[i].batch :
          /\ is_consistent(saves[i].batch[m]) /\ KnockoutConsistency(saves[i].batch[m])
          /\ ~isKnockout => /\ saves[i].batch[m].advancement_winner = None
                            /\ saves[i].batch[m].pens_winner = None
    BY <1>2, OursIsValid
  <2>2. Refusal(saves[i].batch) \in {"unreadable", "closed", "kicked off", "ok"}
    BY <2>1 DEF Refusal
  <2> QED BY <2>2 DEF Reply
<1>4. saves' = [saves EXCEPT ![i].stage = "served", ![i].answer = answer]
  BY DEF Serve
<1>5. saves' = [saves EXCEPT ![i] = [saves[i] EXCEPT !.stage = "served", !.answer = answer]]
  <2> HIDE DEF answer
  <2> QED BY <1>4
<1> QED BY <1>3, <1>5

LEMMA ServeKeeps ==
  ASSUME IInv, [Next]_vars, NEW i \in DOMAIN saves, Serve(i)
  PROVE  LogOK'
<1>1. LogOK /\ known \subseteq known' /\ SaveOK(saves[i], known)
  BY KnownGrows DEF IInv, LogOK
<1>2. PICK answer \in Reply \ {"invalid", "heard"} :
        saves' = [saves EXCEPT ![i] = [saves[i] EXCEPT !.stage = "served", !.answer = answer]]
  BY <1>1, OursIsServed
<1> DEFINE served == [saves[i] EXCEPT !.stage = "served", !.answer = answer]
<1>3. saves[i].stage = "sent" /\ SaveOK(saves[i], known')
  BY <1>1, SaveGrows DEF Serve
<1>4. SaveOK(served, known')
  <2>1. /\ served.form = saves[i].form /\ served.stage = "served" /\ served.answer = answer
        /\ served.batch = saves[i].batch /\ served.typed = saves[i].typed
        /\ served.base = saves[i].base /\ DOMAIN served = SaveFields
    BY <1>3 DEF SaveOK, SaveFields
  <2> HIDE DEF served
  <2> QED BY <1>3, <2>1 DEF SaveOK
<1> HIDE DEF served
<1>5. saves' = [j \in DOMAIN saves |-> IF j = i THEN served ELSE saves[j]]
  <2>1. saves = [j \in DOMAIN saves |-> saves[j]]
    BY <1>1, LogParts
  <2>2. saves' = [saves EXCEPT ![i] = served]
    BY <1>2 DEF served
  <2> QED BY <2>1, <2>2
<1>6. \A j \in DOMAIN saves : SaveOK(saves'[j], known')
  BY <1>1, <1>4, <1>5, SaveGrows DEF LogOK
<1>7. saves' = [j \in DOMAIN saves |-> saves'[j]]
  BY <1>5
<1> QED BY <1>1, <1>6, <1>7, LogStays

\* What onSubmit sends for a row that is complete.
LEMMA PressedInput ==
  ASSUME IInv, data # None, NEW m \in Matches, Complete(rowFor(m))
  PROVE  InputOK(m, InputFor(data[m], rowFor(m)), edits[m], data[m], known)
<1> DEFINE p == data[m].my_prediction
           old == formRowFromApi(p)
           row == rowFor(m)
<1>1. /\ data[m].known => m \in known
      /\ p # None => IsOurs(p) /\ (p.advancement_winner # None => data[m].known)
  BY DEF IInv, AnswersOK, AnswerOK
<1>2. /\ IsEdit(edits[m])
      /\ DOMAIN edits[m] \cap {"advancementWinnerId", "pensYes"} # {} => isKnockout
      /\ "advancementWinnerId" \in DOMAIN edits[m] => m \in known
  BY DEF IInv, EditsOK, EditOK
<1>3. row = Spread(old, edits[m])
  BY DEF rowFor
<1>4. IsRow(old) /\ DOMAIN old = Field
  BY <1>1, RowFromApi
<1>5. old.advancementWinnerId # None => data[m].known
  BY <1>1 DEF formRowFromApi, EMPTY_FORM_ROW
<1>6. Complete(old) => p # None
  BY DEF Complete, formRowFromApi, EMPTY_FORM_ROW
<1>7. edits[m] = << >> => row = old
  <2>1. ASSUME edits[m] = << >> PROVE row = old
    <3>1. row = [f \in Field |-> old[f]]
      BY <1>3, <1>4, <2>1 DEF Spread
    <3>2. old = [f \in Field |-> old[f]]
      BY DEF formRowFromApi, EMPTY_FORM_ROW, Field
    <3> QED BY <3>1, <3>2
  <2> QED BY <2>1
<1> HIDE DEF old, p
<1>8. /\ IsRow(row) /\ DOMAIN row = Field
      /\ \A f \in DOMAIN edits[m] : row[f] = edits[m][f]
      /\ \A f \in Field \ DOMAIN edits[m] : row[f] = old[f]
  BY <1>2, <1>3, <1>4, RowFromEdits
<1> HIDE DEF row
<1>9. Complete(row)
  BY DEF row
<1>10. /\ IsOurs(InputFor(data[m], row))
       /\ InputFor(data[m], row).advancement_winner # None =>
            data[m].known \/ row.advancementWinnerId # None
  BY <1>8, <1>9, InputIsOurs
<1>11. row.advancementWinnerId # None => m \in known
  <2>1. CASE "advancementWinnerId" \in DOMAIN edits[m]
    BY <1>2, <2>1
  <2>2. CASE "advancementWinnerId" \notin DOMAIN edits[m]
    <3>1. row["advancementWinnerId"] = old["advancementWinnerId"]
      BY <1>8, <2>2 DEF Field
    <3> QED BY <1>1, <1>5, <3>1
  <2> QED BY <2>1, <2>2
<1>12. \A f \in DOMAIN edits[m] : Tells(InputFor(data[m], row), f, edits[m][f])
  BY <1>2, <1>8, <1>9, InputTells
<1>13. edits[m] = << >> => p # None /\ row = old
  BY <1>6, <1>7, <1>9
<1>14. InputOK(m, InputFor(data[m], row), edits[m], data[m], known)
  BY <1>1, <1>10, <1>11, <1>12, <1>13 DEF InputOK, old, p
<1> QED BY <1>14 DEF row

\* A log to which a save is appended.
LEMMA AppendLog ==
  ASSUME LogOK, NEW s, saves' = Append(saves, s)
  PROVE  /\ saves' = [i \in 1..Len(saves') |-> saves'[i]]
         /\ DOMAIN saves' = 1..Len(saves) + 1 /\ Len(saves') = Len(saves) + 1
         /\ \A i \in DOMAIN saves : i \in DOMAIN saves' /\ saves'[i] = saves[i]
         /\ saves'[Len(saves) + 1] = s
<1> DEFINE n == Len(saves)
           S == {saves[i] : i \in DOMAIN saves} \cup {s}
<1>1. n \in Nat /\ DOMAIN saves = 1..n /\ saves = [i \in 1..n |-> saves[i]]
  BY LogParts
<1> HIDE DEF n
<1>2. saves \in Seq(S) /\ s \in S
  <2>1. saves \in [1..n -> S]
    BY <1>1
  <2> HIDE DEF S
  <2>2. s \in S
    BY DEF S
  <2> QED BY <1>1, <2>1, <2>2, SeqDef
<1> HIDE DEF S
<1>3. /\ Append(saves, s) \in Seq(S) /\ Len(Append(saves, s)) = Len(saves) + 1
      /\ \A i \in 1..Len(saves) : Append(saves, s)[i] = saves[i]
      /\ Append(saves, s)[Len(saves) + 1] = s
  BY <1>2, AppendProperties
<1>4. saves' \in Seq(S) /\ Len(saves') = n + 1
  BY <1>3 DEF n
<1>5. saves' = [i \in 1..(n + 1) |-> saves'[i]]
  BY <1>4, LenProperties
<1>6. DOMAIN saves' = 1..(n + 1)
  BY <1>5
<1>7. \A i \in DOMAIN saves : i \in DOMAIN saves' /\ saves'[i] = saves[i]
  <2>1. ASSUME NEW i \in 1..n PROVE i \in 1..(n + 1) /\ saves'[i] = saves[i]
    BY <1>1, <1>3, <2>1 DEF n
  <2> QED BY <1>1, <1>6, <2>1
<1> QED BY <1>3, <1>4, <1>5, <1>6, <1>7 DEF n

LEMMA PressKeeps ==
  ASSUME IInv, [Next]_vars, Press
  PROVE  LogOK'
<1>1. LogOK /\ AnswersOK /\ known \subseteq known'
  BY KnownGrows DEF IInv
<1> DEFINE sent == {m \in Matches : Complete(rowFor(m)) /\ ~Locked(m)}
           batch == [m \in sent |-> InputFor(data[m], rowFor(m))]
           s == [form |-> "shown", stage |-> "sent", answer |-> None,
                 auth |-> opened, batch |-> batch, typed |-> edits, base |-> data]
<1>2. data # None /\ saves' = Append(saves, s)
  BY DEF Press, Form
<1>3. AnswerOK(data, known)
  BY <1>1, <1>2 DEF AnswersOK
<1>4. ASSUME NEW m \in DOMAIN batch PROVE InputOK(m, batch[m], edits[m], data[m], known)
  <2>1. m \in Matches /\ Complete(rowFor(m)) /\ batch[m] = InputFor(data[m], rowFor(m))
    OBVIOUS
  <2> QED BY <1>2, <2>1, PressedInput
<1> HIDE DEF batch
<1>5. SaveOK(s, known)
  BY <1>3, <1>4, NoneIsNothing DEF SaveOK, SaveFields
<1> HIDE DEF s
<1>6. /\ saves' = [i \in 1..Len(saves') |-> saves'[i]] /\ Len(saves') \in Nat
      /\ DOMAIN saves' = 1..Len(saves) + 1 /\ Len(saves) \in Nat /\ DOMAIN saves = 1..Len(saves)
      /\ \A i \in DOMAIN saves : saves'[i] = saves[i]
      /\ saves'[Len(saves) + 1] = s
  BY <1>1, <1>2, AppendLog, LogParts
<1>7. ASSUME NEW i \in DOMAIN saves' PROVE SaveOK(saves'[i], known')
  <2>1. i \in DOMAIN saves \/ i = Len(saves) + 1
    BY <1>6
  <2> QED BY <1>1, <1>5, <1>6, <2>1, SaveGrows DEF LogOK
<1> QED BY <1>6, <1>7 DEF LogOK

LEMMA LogKeeps ==
  ASSUME IInv, [Next]_vars
  PROVE  LogOK'
<1>1. LogOK /\ known \subseteq known'
  BY KnownGrows DEF IInv
<1>2. CASE UNCHANGED saves
  <2>1. saves' = [i \in DOMAIN saves |-> saves'[i]]
    BY <1>1, <1>2, LogParts
  <2>2. \A i \in DOMAIN saves : SaveOK(saves'[i], known')
    BY <1>1, <1>2, SaveGrows DEF LogOK
  <2> QED BY <1>1, <2>1, <2>2, LogStays
<1> QED BY <1>2, FormsGoKeeps, DoneKeeps, PressKeeps, ServeKeeps, SavesSteps

LEMMA InvalidSteps ==
  ASSUME [Next]_vars
  PROVE  data' = None \/ (invalid => invalid') \/ Arrive
BY DEF Next, Read, FetchFails, ListArrives, ListFails, Refetch, Press, Leave, Enter, Reopen,
       Tick, Serve, Answered, SaveFails, Resolve, Type, Reschedule, Elsewhere, Invalidate,
       queries, vars

\* No save is forgotten, and a form hears of success from the answer to its save only.
LEMMA HeardSteps ==
  ASSUME IInv, [Next]_vars, NEW i \in DOMAIN saves
  PROVE  /\ i \in DOMAIN saves'
         /\ saves'[i].answer = "heard" =>
              \/ saves[i].answer = "heard"
              \/ Answered(i) /\ saves[i].form = "shown" /\ saves[i].answer = "ok"
<1>1. LogOK /\ SaveOK(saves[i], known) /\ saves = [j \in DOMAIN saves |-> saves[j]]
  BY LogParts DEF IInv, LogOK
<1>2. CASE UNCHANGED saves
  BY <1>2
<1>3. ASSUME NEW form \in {"left", "closed"}, FormsGo(form)
      PROVE  i \in DOMAIN saves' /\ saves'[i].answer = saves[i].answer
  <2>1. PICK S \in SUBSET DOMAIN saves :
          saves' = [j \in DOMAIN saves |-> IF j \in S THEN [saves[j] EXCEPT !.form = form] ELSE saves[j]]
    BY <1>3 DEF FormsGo
  <2>2. [saves[i] EXCEPT !.form = form].answer = saves[i].answer
    BY <1>1 DEF SaveOK, SaveFields
  <2>3. DOMAIN saves' = DOMAIN saves
        /\ saves'[i] = IF i \in S THEN [saves[i] EXCEPT !.form = form] ELSE saves[i]
    BY <2>1
  <2> QED BY <2>2, <2>3
<1>4. CASE Press
  <2>1. \E s : saves' = Append(saves, s)
    BY <1>4 DEF Press
  <2> QED BY <1>1, <2>1, AppendLog
<1>5. ASSUME NEW j \in DOMAIN saves, Serve(j)
      PROVE  i \in DOMAIN saves' /\ (saves'[i].answer = "heard" => saves[i].answer = "heard")
  <2>1. LogOK /\ SaveOK(saves[j], known)
    BY <1>1 DEF LogOK
  <2>2. PICK answer \in Reply \ {"invalid", "heard"} :
          saves' = [saves EXCEPT ![j] = [saves[j] EXCEPT !.stage = "served", !.answer = answer]]
    BY <1>5, <2>1, OursIsServed
  <2>3. [saves[j] EXCEPT !.stage = "served", !.answer = answer].answer = answer
    BY <2>1 DEF SaveOK, SaveFields
  <2> QED BY <1>1, <2>2, <2>3
<1>6. ASSUME NEW j \in DOMAIN saves, Answered(j)
      PROVE  i \in DOMAIN saves' /\
             (saves'[i].answer = "heard" =>
                \/ saves[i].answer = "heard"
                \/ Answered(i) /\ saves[i].form = "shown" /\ saves[i].answer = "ok")
  <2>1. saves' = [saves EXCEPT ![j] = Done(saves[j].form = "shown" /\ saves[j].answer = "ok")]
    BY <1>6 DEF Answered
  <2>2. \A heard \in BOOLEAN : Done(heard).answer = "heard" => heard
    BY NoneIsNothing DEF Done
  <2>3. (saves[j].form = "shown" /\ saves[j].answer = "ok") \in BOOLEAN
    OBVIOUS
  <2>4. DOMAIN saves' = DOMAIN saves /\ (i # j => saves'[i] = saves[i])
    BY <1>1, <2>1
  <2>5. i = j => saves'[i] = Done(saves[j].form = "shown" /\ saves[j].answer = "ok")
    BY <1>1, <2>1
  <2>6. CASE i # j
    BY <2>4, <2>6
  <2>7. CASE i = j
    <3>1. saves'[i].answer = "heard" => saves[j].form = "shown" /\ saves[j].answer = "ok"
      BY <2>2, <2>3, <2>5, <2>7
    <3> QED BY <1>6, <2>4, <2>7, <3>1
  <2> QED BY <2>6, <2>7
<1>7. ASSUME NEW j \in DOMAIN saves, SaveFails(j)
      PROVE  i \in DOMAIN saves' /\ (saves'[i].answer = "heard" => saves[i].answer = "heard")
  <2>1. saves' = [saves EXCEPT ![j] = Done(FALSE)]
    BY <1>7 DEF SaveFails
  <2>2. Done(FALSE).answer # "heard"
    BY NoneIsNothing DEF Done
  <2> QED BY <1>1, <2>1, <2>2
<1>8. CASE ListArrives \/ ListFails \/ Leave \/ Reopen
  BY <1>2, <1>3, <1>8, UnmountGoes, ReopenGoes DEF ListArrives, ListFails, Leave
<1>9. CASE \E j \in DOMAIN saves : Serve(j) \/ Answered(j) \/ SaveFails(j)
  BY <1>5, <1>6, <1>7, <1>9
<1>10. CASE \/ Read \/ Arrive \/ FetchFails \/ Refetch \/ Enter \/ Tick
            \/ \E m \in Matches :
                 \/ Resolve(m)
                 \/ \E patch \in Patches : Type(m, patch)
                 \/ \E t \in Kickoffs : Reschedule(m, t)
                 \/ \E p \in Earlier : Elsewhere(m, p)
            \/ UNCHANGED vars
  BY <1>2, <1>10 DEF Read, Arrive, FetchFails, Refetch, Enter, Tick, Resolve, Type, Reschedule,
                     Elsewhere, vars
<1> QED BY <1>4, <1>8, <1>9, <1>10 DEF Next

\* The row of a match whose writer has heard of it was not written in this step.
LEMMA HeardRows ==
  ASSUME IInv, [Next]_vars, NEW m \in Matches, Heard(m)'
  PROVE  rows'[m] = rows[m] /\ writer'[m] = writer[m] /\ writer[m] # 0
<1>1. RowsOK /\ HeardOK /\ LogOK
  BY DEF IInv
<1>2. writer'[m] # 0 /\ saves'[writer'[m]].answer = "heard"
  BY DEF Heard
<1>3. CASE UNCHANGED <<rows, writer>>
  BY <1>2, <1>3
<1>4. ASSUME NEW i \in DOMAIN saves, Serve(i)
      PROVE  rows'[m] = rows[m] /\ writer'[m] = writer[m]
  <2> DEFINE written == IF (IF Authorized(saves[i].auth) THEN Refusal(saves[i].batch)
                            ELSE "unauthorized") = "ok"
                        THEN DOMAIN saves[i].batch ELSE {}
  <2>1. /\ rows'[m] = IF m \in written THEN Stored(saves[i].batch[m], rows[m]) ELSE rows[m]
        /\ writer'[m] = IF m \in written THEN i ELSE writer[m]
    BY <1>4 DEF Serve
  <2> HIDE DEF written
  <2>2. saves[i].stage = "sent" /\ SaveOK(saves[i], known)
    BY <1>1, <1>4 DEF LogOK, Serve
  <2>3. saves[i].answer # "heard" /\ ~Answered(i)
    BY <2>2 DEF SaveOK, Answered
  <2>4. saves'[i].answer # "heard"
    BY <2>3, HeardSteps
  <2>5. m \notin written
    BY <1>2, <2>1, <2>4
  <2> QED BY <2>1, <2>5
<1>5. ASSUME NEW n \in Matches, NEW p \in Earlier, Elsewhere(n, p)
      PROVE  rows'[m] = rows[m] /\ writer'[m] = writer[m]
  <2>1. rows' = [rows EXCEPT ![n] = Stored(p, rows[n])] /\ writer' = [writer EXCEPT ![n] = 0]
    BY <1>5 DEF Elsewhere
  <2>2. m # n
    BY <1>1, <1>2, <2>1 DEF HeardOK
  <2> QED BY <1>1, <2>1, <2>2 DEF RowsOK, HeardOK
<1> QED BY <1>2, <1>3, <1>4, <1>5, RowsSteps

LEMMA HeardKeeps ==
  ASSUME IInv, [Next]_vars
  PROVE  HeardOK'
<1>1. HeardOK /\ TypeOK /\ \A i \in DOMAIN saves : i \in DOMAIN saves'
  BY HeardSteps DEF IInv
<1>2. writer' = [m \in Matches |-> writer'[m]]
  BY <1>1, RowsSteps DEF HeardOK, Serve, Elsewhere
<1>3. ASSUME NEW m \in Matches, writer'[m] # 0 PROVE writer'[m] \in DOMAIN saves'
  <2>1. writer'[m] = writer[m] \/ writer'[m] \in DOMAIN saves
    BY <1>1, <1>3, RowsSteps DEF HeardOK, Serve, Elsewhere
  <2> QED BY <1>1, <1>3, <2>1 DEF HeardOK
<1>4. ASSUME NEW m \in Matches, Heard(m)'
      PROVE  /\ fetch' # None /\ fetch'.stage = "read" /\ fetch'.data # None
                  => fetch'.data[m].my_prediction = rows'[m]
             /\ invalid' \/ data' = None \/ data'[m].my_prediction = rows'[m]
  <2>1. rows'[m] = rows[m] /\ writer'[m] = writer[m] /\ writer[m] # 0
    BY <1>4, HeardRows
  <2>2. writer[m] \in DOMAIN saves /\ saves'[writer[m]].answer = "heard"
    BY <1>1, <1>4, <2>1 DEF HeardOK, Heard
  <2>3. CASE saves[writer[m]].answer = "heard"
    <3>1. /\ fetch # None /\ fetch.stage = "read" /\ fetch.data # None
               => fetch.data[m].my_prediction = rows[m]
          /\ invalid \/ data = None \/ data[m].my_prediction = rows[m]
      BY <1>1, <2>1, <2>3 DEF HeardOK, Heard
    <3>2. ASSUME fetch' # None, fetch'.stage = "read", fetch'.data # None
          PROVE  fetch'.data[m].my_prediction = rows'[m]
      <4>1. CASE fetch' = fetch
        BY <2>1, <3>1, <3>2, <4>1
      <4>2. CASE fetch' = Asked
        BY <3>2, <4>2 DEF Asked
      <4>3. CASE Read
        <5>1. fetch'.data = MatchesWithPredictions
          BY <3>2, <4>3 DEF Read
        <5>2. MatchesWithPredictions[m].my_prediction = rows[m]
          BY DEF MatchesWithPredictions
        <5> QED BY <2>1, <5>1, <5>2
      <4> QED BY <3>2, <4>1, <4>2, <4>3, FetchSteps
    <3>3. invalid' \/ data' = None \/ data'[m].my_prediction = rows'[m]
      <4>1. CASE Arrive
        <5>1. /\ fetch # None /\ fetch.stage = "read"
              /\ data' = IF fetch.data = None THEN data ELSE fetch.data
              /\ failed' = (fetch.data = None) /\ invalid' = (invalid /\ failed')
          BY <4>1 DEF Arrive
        <5>2. CASE fetch.data = None
          BY <2>1, <3>1, <5>1, <5>2
        <5>3. CASE fetch.data # None
          BY <2>1, <3>1, <5>1, <5>3
        <5> QED BY <5>2, <5>3
      <4>2. CASE data' # None /\ ~Arrive
        <5>1. data' = data /\ (invalid => invalid')
          BY <4>2, DataSteps, InvalidSteps
        <5> QED BY <2>1, <3>1, <5>1
      <4> QED BY <4>1, <4>2
    <3> QED BY <3>2, <3>3
  <2>4. CASE Answered(writer[m]) /\ saves[writer[m]].form = "shown" /\ saves[writer[m]].answer = "ok"
    <3>1. Mounted
      <4>1. Pending
        BY <2>2, <2>4 DEF Pending, Answered
      <4> QED BY <1>1, <4>1 DEF TypeOK
    <3>2. invalid' = TRUE /\ fetch' = Asked
      BY <2>4, <3>1 DEF Answered, Invalidate
    <3> QED BY <3>2 DEF Asked
  <2> QED BY <2>2, <2>3, <2>4, HeardSteps
<1>5. \A m \in Matches :
        /\ writer'[m] # 0 => writer'[m] \in DOMAIN saves'
        /\ Heard(m)' =>
             /\ fetch' # None /\ fetch'.stage = "read" /\ fetch'.data # None
                  => fetch'.data[m].my_prediction = rows'[m]
             /\ invalid' \/ data' = None \/ data'[m].my_prediction = rows'[m]
  BY <1>3, <1>4
<1> QED BY <1>2, <1>5 DEF HeardOK

\* A save whose form is there and waits for its answer.
Waits(i) == saves[i].form = "shown" /\ saves[i].stage # "done"

LEMMA UnmountEnds ==
  ASSUME LogOK, Unmount \/ Reopen
  PROVE  edits' = NoEdits /\ DOMAIN saves' = DOMAIN saves /\ \A i \in DOMAIN saves : ~Waits(i)'
<1>1. edits' = NoEdits /\ DOMAIN saves' = DOMAIN saves
  BY DEF Unmount, Reopen
<1>2. ASSUME NEW i \in DOMAIN saves PROVE ~Waits(i)'
  <2>1. SaveOK(saves[i], known)
    BY DEF LogOK
  <2>2. \A form : [saves[i] EXCEPT !.form = form].form = form
    BY <2>1 DEF SaveOK, SaveFields
  <2>3. CASE Unmount
    <3>1. saves'[i] = IF Waits(i) THEN [saves[i] EXCEPT !.form = "left"] ELSE saves[i]
      BY <2>3 DEF Unmount, Waits
    <3> QED BY <2>2, <3>1 DEF Waits
  <2>4. CASE Reopen
    <3>1. saves'[i] = IF saves[i].stage # "done"
                      THEN [saves[i] EXCEPT !.form = "closed"] ELSE saves[i]
      BY <2>4 DEF Reopen
    <3> QED BY <2>2, <3>1 DEF Waits
  <2> QED BY <2>3, <2>4
<1> QED BY <1>1, <1>2

\* Only a press makes a form wait.
LEMMA WaitSteps ==
  ASSUME IInv, [Next]_vars, ~Press
  PROVE  DOMAIN saves' = DOMAIN saves /\ \A i \in DOMAIN saves : Waits(i)' => Waits(i)
<1>1. LogOK /\ saves = [j \in DOMAIN saves |-> saves[j]]
  BY LogParts DEF IInv
<1>2. CASE UNCHANGED saves
  BY <1>2 DEF Waits
<1>3. ASSUME NEW form \in {"left", "closed"}, FormsGo(form)
      PROVE  DOMAIN saves' = DOMAIN saves /\ \A i \in DOMAIN saves : Waits(i)' => Waits(i)
  <2>1. PICK S \in SUBSET DOMAIN saves :
          saves' = [j \in DOMAIN saves |-> IF j \in S THEN [saves[j] EXCEPT !.form = form] ELSE saves[j]]
    BY <1>3 DEF FormsGo
  <2>2. \A i \in DOMAIN saves : [saves[i] EXCEPT !.form = form].form = form
    BY <1>1 DEF LogOK, SaveOK, SaveFields
  <2>3. \A i \in DOMAIN saves :
          saves'[i] = IF i \in S THEN [saves[i] EXCEPT !.form = form] ELSE saves[i]
    BY <2>1
  <2>4. \A i \in DOMAIN saves : Waits(i)' => Waits(i)
    BY <1>3, <2>2, <2>3 DEF Waits
  <2> QED BY <2>1, <2>4
<1>4. ASSUME NEW j \in DOMAIN saves, Serve(j)
      PROVE  DOMAIN saves' = DOMAIN saves /\ \A i \in DOMAIN saves : Waits(i)' => Waits(i)
  <2>1. SaveOK(saves[j], known) /\ saves[j].stage = "sent"
    BY <1>1, <1>4 DEF LogOK, Serve
  <2>2. PICK answer \in Reply \ {"invalid", "heard"} :
          saves' = [saves EXCEPT ![j] = [saves[j] EXCEPT !.stage = "served", !.answer = answer]]
    BY <1>4, <2>1, OursIsServed
  <2>3. [saves[j] EXCEPT !.stage = "served", !.answer = answer].form = saves[j].form
    BY <2>1 DEF SaveOK, SaveFields
  <2>4. DOMAIN saves' = DOMAIN saves /\ saves'[j].form = saves[j].form
        /\ \A i \in DOMAIN saves \ {j} : saves'[i] = saves[i]
    BY <1>1, <2>2, <2>3
  <2> QED BY <2>1, <2>4 DEF Waits
<1>5. ASSUME NEW j \in DOMAIN saves, NEW heard \in BOOLEAN, saves' = [saves EXCEPT ![j] = Done(heard)]
      PROVE  DOMAIN saves' = DOMAIN saves /\ \A i \in DOMAIN saves : Waits(i)' => Waits(i)
  <2>1. Done(heard).form = "left"
    BY DEF Done
  <2>2. DOMAIN saves' = DOMAIN saves /\ saves'[j] = Done(heard)
        /\ \A i \in DOMAIN saves \ {j} : saves'[i] = saves[i]
    BY <1>1, <1>5
  <2> QED BY <2>1, <2>2 DEF Waits
<1> QED BY <1>2, <1>3, <1>4, <1>5, SavesSteps

\* The section goes with what is typed, and with the saves that wait.
LEMMA MountSteps ==
  ASSUME [Next]_vars, ~Mounted'
  PROVE  \/ ~Mounted /\ edits' \in {edits, NoEdits} /\ ~Press
         \/ Unmount \/ Reopen
<1>1. CASE ListArrives \/ ListFails \/ Leave
  <2>1. ListArrives => UNCHANGED tab /\ (list' = "shown" \/ Unmount) /\ tab
    BY DEF ListArrives
  <2>2. ListFails \/ Leave => Unmount
    BY DEF ListFails, Leave
  <2> QED BY <1>1, <2>1, <2>2 DEF Mounted
<1>2. CASE Enter
  BY <1>2 DEF Enter, Mounted, Press, Form
<1>3. ASSUME NEW m \in Matches, NEW patch \in Patches, Type(m, patch) PROVE FALSE
  BY <1>3 DEF Type, Form, Mounted, queries
<1>4. CASE Press
  BY <1>4 DEF Press, Form, Mounted, queries
<1>5. CASE \/ Read \/ Arrive \/ FetchFails \/ Refetch \/ Tick
           \/ \E i \in DOMAIN saves : Serve(i) \/ Answered(i) \/ SaveFails(i)
           \/ \E m \in Matches :
                \/ Resolve(m)
                \/ \E t \in Kickoffs : Reschedule(m, t)
                \/ \E p \in Earlier : Elsewhere(m, p)
           \/ UNCHANGED vars
  <2>1. UNCHANGED <<tab, list>> /\ edits' \in {edits, NoEdits}
    BY <1>5 DEF Read, Arrive, FetchFails, Refetch, Tick, Serve, Answered, SaveFails, Resolve,
                Reschedule, Elsewhere, queries, vars
  <2>2. ~Mounted
    BY <2>1 DEF Mounted
  <2> QED BY <2>1, <2>2 DEF Press, Form
<1> QED BY <1>1, <1>2, <1>3, <1>4, <1>5 DEF Next

LEMMA FormsKeep ==
  ASSUME IInv, [Next]_vars
  PROVE  /\ ~Mounted' => edits' = NoEdits /\ ~Pending'
         /\ \A i, j \in DOMAIN saves' :
              i < j /\ saves'[i].stage # "done" => saves'[i].form # "shown"
<1>1. /\ LogOK
      /\ ~Mounted => edits = NoEdits /\ \A i \in DOMAIN saves : ~Waits(i)
      /\ \A i, j \in DOMAIN saves : i < j => ~Waits(i)
  BY DEF IInv, TypeOK, Pending, Waits
<1>2. ASSUME ~Mounted' PROVE edits' = NoEdits /\ \A i \in DOMAIN saves' : ~Waits(i)'
  <2>1. CASE ~Mounted /\ edits' \in {edits, NoEdits} /\ ~Press
    BY <1>1, <2>1, WaitSteps
  <2>2. CASE Unmount \/ Reopen
    BY <1>1, <2>2, UnmountEnds
  <2> QED BY <1>2, <2>1, <2>2, MountSteps
<1>3. ASSUME NEW i \in DOMAIN saves', NEW j \in DOMAIN saves', i < j PROVE ~Waits(i)'
  <2>1. CASE Press
    <3>1. (\E s : saves' = Append(saves, s)) /\ \A k \in DOMAIN saves : ~Waits(k)
      BY <2>1 DEF Press, Pending, Waits
    <3>2. /\ DOMAIN saves' = 1..Len(saves) + 1 /\ DOMAIN saves = 1..Len(saves) /\ Len(saves) \in Nat
          /\ \A k \in DOMAIN saves : saves'[k] = saves[k]
      BY <1>1, <3>1, AppendLog, LogParts
    <3>3. i \in DOMAIN saves
      BY <1>3, <3>2
    <3> QED BY <3>1, <3>2, <3>3 DEF Waits
  <2>2. CASE ~Press
    BY <1>1, <1>3, <2>2, WaitSteps
  <2> QED BY <2>1, <2>2
<1> QED BY <1>2, <1>3 DEF Pending, Waits

LEMMA OursIsComplete ==
  ASSUME NEW p, IsOurs(p), p # None
  PROVE  is_consistent(p) /\ Complete(formRowFromApi(p))
BY OursIsValid, NoneIsNothing DEF IsOurs, Complete, formRowFromApi

LEMMA ClockSteps ==
  ASSUME TypeOK, [Next]_vars
  PROVE  /\ now' \in Time /\ at' \in Time /\ opened' \in Int /\ opened' <= now'
         /\ deadline' \in Kickoffs
<1>1. /\ now \in Nat /\ now <= MaxTime /\ at \in Time /\ opened \in Int /\ opened <= now
      /\ deadline \in Kickoffs /\ MaxTime \in Nat
  BY ConstantsAssumption DEF TypeOK, Time
<1>2. at' = at \/ at' = now
  BY DEF Next, Read, Arrive, FetchFails, ListArrives, ListFails, Refetch, Press, Leave, Enter, Reopen,
         Tick, Serve, Answered, SaveFails, Resolve, Type, Reschedule, Elsewhere, world, vars
<1>3. opened' = opened \/ opened' = now
  BY DEF Next, Read, Arrive, FetchFails, ListArrives, ListFails, Refetch, Press, Leave, Enter, Reopen,
         Tick, Serve, Answered, SaveFails, Resolve, Type, Reschedule, Elsewhere, world, vars
<1>4. deadline' = deadline
  BY DEF Next, Read, Arrive, FetchFails, ListArrives, ListFails, Refetch, Press, Leave, Enter, Reopen,
         Tick, Serve, Answered, SaveFails, Resolve, Type, Reschedule, Elsewhere, world, vars
<1>5. \/ now' = now
      \/ now' = now + 1 /\ now < MaxTime
  <2>1. now' = now \/ Tick
    BY DEF Next, Read, Arrive, FetchFails, ListArrives, ListFails, Refetch, Press, Leave, Enter,
           Reopen, Serve, Answered, SaveFails, Resolve, Type, Reschedule, Elsewhere, vars
  <2> QED BY <2>1 DEF Tick
<1>6. now' \in Nat /\ now' <= MaxTime /\ now <= now'
  BY <1>1, <1>5
<1>7. at' \in Nat /\ at' <= MaxTime
  BY <1>1, <1>2 DEF Time
<1>8. opened' \in Int /\ opened' <= now'
  BY <1>1, <1>6, <1>3
<1> QED BY <1>1, <1>6, <1>7, <1>8, <1>4 DEF Time

LEMMA FlagSteps ==
  ASSUME TypeOK, [Next]_vars
  PROVE  /\ tab' \in BOOLEAN /\ failed' \in BOOLEAN /\ invalid' \in BOOLEAN
         /\ list' \in {"loading", "shown", "closed", "error"}
<1>1. tab' \in {tab, TRUE, FALSE} /\ list' \in {list, "loading", "shown", "closed", "error"}
  BY DEF Next, Read, Arrive, FetchFails, ListArrives, ListFails, Refetch, Press, Leave, Enter, Reopen,
         Tick, Serve, Answered, SaveFails, Resolve, Type, Reschedule, Elsewhere, queries, vars
<1>2. failed' = failed \/ failed' \in BOOLEAN
  BY DEF Next, Read, Arrive, FetchFails, ListArrives, ListFails, Refetch, Press, Leave, Enter, Reopen,
         Tick, Serve, Answered, SaveFails, Resolve, Type, Reschedule, Elsewhere, queries, vars
<1>3. CASE Arrive
  <2>1. invalid' = (invalid /\ failed') /\ (invalid /\ failed') \in BOOLEAN
    BY <1>3 DEF Arrive
  <2> QED BY <1>1, <1>2, <2>1 DEF TypeOK
<1>4. CASE ~Arrive
  <2>1. invalid' \in {invalid, TRUE, FALSE}
    BY <1>4 DEF Next, Read, FetchFails, ListArrives, ListFails, Refetch, Press, Leave, Enter, Reopen,
                Tick, Serve, Answered, SaveFails, Resolve, Type, Reschedule, Elsewhere, Invalidate,
                queries, vars
  <2> QED BY <1>1, <1>2, <2>1 DEF TypeOK
<1> QED BY <1>3, <1>4

LEMMA TypesKeep ==
  ASSUME IInv, [Next]_vars
  PROVE  TypeOK'
<1>1. RowsOK' /\ TypeOK
  BY RowsKeep DEF IInv
<1>2. \A m \in Matches :
        rows'[m] # None => is_consistent(rows'[m]) /\ Complete(formRowFromApi(rows'[m]))
  BY <1>1, OursIsComplete DEF RowsOK
<1> QED BY <1>1, <1>2, FormsKeep, ClockSteps, FlagSteps DEF TypeOK

LEMMA InvInit == Init => IInv
<1> SUFFICES ASSUME Init PROVE IInv
  OBVIOUS
<1>1. PICK start \in Starts : /\ deadline = start.deadline /\ kickoff = start.kickoff
                              /\ known = start.known /\ opened = start.opened
  BY DEF Init
<1>2. deadline \in Kickoffs /\ opened \in Int /\ opened <= 0
  BY <1>1, ConstantsAssumption
<1>3. saves = << >> /\ DOMAIN saves = {} /\ Len(saves) = 0 /\ saves = [i \in 1..Len(saves) |-> saves[i]]
  BY DEF Init
<1>4. rows \in [Matches -> {Stored(p, None) : p \in Earlier} \cup {None}]
      /\ \A m \in Matches : rows[m] # None => Fits(m, rows[m])
  BY DEF Init
<1>5. RowsOK
  <2>1. \A p \in Earlier : IsOurs(Stored(p, None))
    BY StoredIsOurs, ConstantsAssumption
  <2>2. ASSUME NEW m \in Matches, rows[m] # None PROVE IsOurs(rows[m])
    <3>1. PICK p \in Earlier : rows[m] = Stored(p, None)
      BY <1>4, <2>2
    <3> QED BY <2>1, <3>1
  <2>3. rows = [m \in Matches |-> rows[m]]
    BY <1>4
  <2> QED BY <1>4, <2>2, <2>3 DEF RowsOK
<1>6. AnswersOK
  BY DEF Init, AnswersOK
<1>7. EditsOK
  BY NothingTyped DEF Init, EditsOK, NoEdits
<1>8. LogOK
  BY <1>3 DEF LogOK
<1>9. HeardOK
  BY DEF Init, HeardOK, Heard
<1>10. TypeOK
  <2>1. \A m \in Matches :
          rows[m] # None => is_consistent(rows[m]) /\ Complete(formRowFromApi(rows[m]))
    BY <1>5, OursIsComplete DEF RowsOK
  <2>2. 0 \in Time /\ now = 0 /\ at = 0
    BY ConstantsAssumption DEF Time, Init
  <2> QED BY <1>2, <1>3, <2>1, <2>2 DEF Init, TypeOK, Pending
<1> QED BY <1>5, <1>6, <1>7, <1>8, <1>9, <1>10 DEF IInv

LEMMA Inductive == Spec => []IInv
<1>1. IInv /\ [Next]_vars => IInv'
  BY TypesKeep, RowsKeep, AnswersKeep, EditsKeep, LogKeeps, HeardKeeps DEF IInv
<1> QED BY <1>1, InvInit, PTL DEF Spec

\* A save that is on its way is told "ok" by the server alone.
LEMMA ServedOnly ==
  ASSUME IInv, [Next]_vars, NEW i \in DOMAIN saves, saves[i].stage = "sent", saves'[i].answer = "ok"
  PROVE  Serve(i)
<1>1. LogOK /\ SaveOK(saves[i], known) /\ saves = [j \in DOMAIN saves |-> saves[j]]
  BY LogParts DEF IInv, LogOK
<1>2. saves[i].answer # "ok" /\ DOMAIN saves[i] = SaveFields
  BY <1>1, NoneIsNothing DEF SaveOK
<1>3. CASE UNCHANGED saves
  BY <1>2, <1>3
<1>4. ASSUME NEW form \in {"left", "closed"}, FormsGo(form) PROVE FALSE
  <2>1. PICK S \in SUBSET DOMAIN saves :
          saves' = [j \in DOMAIN saves |-> IF j \in S THEN [saves[j] EXCEPT !.form = form] ELSE saves[j]]
    BY <1>4 DEF FormsGo
  <2>2. [saves[i] EXCEPT !.form = form].answer = saves[i].answer
    BY <1>2 DEF SaveFields
  <2> QED BY <1>2, <2>1, <2>2
<1>5. CASE Press
  <2>1. \E s : saves' = Append(saves, s)
    BY <1>5 DEF Press
  <2>2. saves'[i] = saves[i]
    BY <1>1, <2>1, AppendLog
  <2> QED BY <1>2, <2>2
<1>6. ASSUME NEW j \in DOMAIN saves, Serve(j) PROVE Serve(i)
  <2>1. i # j => saves'[i] = saves[i]
    BY <1>1, <1>6 DEF Serve
  <2> QED BY <1>2, <1>6, <2>1
<1>7. ASSUME NEW j \in DOMAIN saves, NEW heard \in BOOLEAN, saves' = [saves EXCEPT ![j] = Done(heard)]
      PROVE  FALSE
  <2>1. Done(heard).answer # "ok"
    BY NoneIsNothing DEF Done
  <2>2. saves'[i] = saves[i] \/ saves'[i] = Done(heard)
    BY <1>1, <1>7
  <2> QED BY <1>2, <2>1, <2>2
<1> QED BY <1>3, <1>4, <1>5, <1>6, <1>7, SavesSteps

-----------------------------------------------------------------------------
(* The theorems.                                                           *)

\* The state is well typed: stored predictions are consistent and complete, and a form
\* that is not there has neither edits nor a save to wait for (ParentSection).
THEOREM TypeCorrectness == Spec => []TypeOK
<1>1. IInv => TypeOK
  BY DEF IInv
<1> QED BY <1>1, Inductive, PTL

\* Whatever is typed, in whatever order, validate_predictions of the API has nothing to
\* say against the batch onSubmit makes of it.
THEOREM NothingToRefuse == Spec => []BatchesAreValid
<1>1. IInv => BatchesAreValid
  BY DEF IInv, LogOK, SaveOK, BatchesAreValid
<1> QED BY <1>1, Inductive, PTL

\* However saves, refetches and failures interleave: when all is quiet, the window that
\* wrote a row last, and heard of it, shows it (invalidateQueries of onSuccess).
THEOREM SavedShows == Spec => []SavedIsShown
<1>1. IInv => SavedIsShown
  BY DEF IInv, HeardOK, Heard, Quiet, SavedIsShown
<1> QED BY <1>1, Inductive, PTL

\* As long as its form is there, an edit is given up only to another one or to the answer
\* that says that it is stored (patchEdit and onSuccess of ParentSection).
THEOREM EditsAreKept == Spec => EditsStand
<1> DEFINE StoredOne ==
      \E i \in DOMAIN saves :
        /\ saves[i].form = "shown" /\ saves[i].answer = "ok"
        /\ saves[i].stage = "served" /\ saves'[i].stage = "done"
        /\ \A m \in DOMAIN saves[i].batch : \A f \in DOMAIN edits[m] :
             f \in DOMAIN saves[i].typed[m] /\ saves[i].typed[m][f] = edits[m][f]
               => Tells(saves[i].batch[m], f, edits[m][f])
      Kept == Mounted /\ Mounted' /\ edits' # edits /\ ~Typing => StoredOne
<1>1. IInv /\ [Next]_vars => [Kept]_vars
  <2> SUFFICES ASSUME IInv, Next, Mounted, Mounted', edits' # edits, ~Typing
               PROVE  StoredOne
    BY DEF vars
  <2>1. LogOK /\ saves = [i \in DOMAIN saves |-> saves[i]]
    BY LogParts DEF IInv
  <2>2. ASSUME NEW m \in Matches, NEW patch \in Patches PROVE ~Type(m, patch)
    BY DEF Type, Typing
  <2>3. ~ListArrives /\ ~ListFails /\ ~Leave /\ ~Reopen
    BY DEF ListArrives, ListFails, Leave, Reopen, Mounted
  <2>4. PICK i \in DOMAIN saves : Answered(i) /\ saves[i].answer = "ok" /\ saves[i].form = "shown"
    BY <2>2, <2>3 DEF Next, Read, Arrive, FetchFails, Refetch, Press, Enter, Tick, Serve, Answered,
                      SaveFails, Resolve, Reschedule, Elsewhere
  <2>5. saves[i].stage = "served" /\ SaveOK(saves[i], known)
    BY <2>1, <2>4 DEF Answered, LogOK
  <2>6. saves'[i].stage = "done"
    <3>1. PICK heard \in BOOLEAN : saves' = [saves EXCEPT ![i] = Done(heard)]
      <4>1. (saves[i].form = "shown" /\ saves[i].answer = "ok") \in BOOLEAN
        OBVIOUS
      <4> QED BY <2>4, <4>1 DEF Answered
    <3>2. saves'[i] = Done(heard)
      BY <2>1, <3>1
    <3> QED BY <3>2 DEF Done
  <2>7. \A m \in DOMAIN saves[i].batch : \A f \in DOMAIN saves[i].typed[m] :
          Tells(saves[i].batch[m], f, saves[i].typed[m][f])
    BY <2>5 DEF SaveOK, InputOK
  <2> QED BY <2>4, <2>5, <2>6, <2>7
<1> QED BY <1>1, Inductive, PTL DEF Spec, EditsStand

-----------------------------------------------------------------------------
(* Rows that are sent again.                                               *)

\* A prediction that was read is of a row that is still there.
Backed(d) == \A m \in Matches : d[m].my_prediction # None => rows[m] # None

BackedInv ==
  /\ data # None => Backed(data)
  /\ fetch # None /\ fetch.stage = "read" /\ fetch.data # None => Backed(fetch.data)
  /\ \A i \in DOMAIN saves : saves[i].stage # "done" => Backed(saves[i].base)

\* No row is ever deleted.
LEMMA StoredIsRow ==
  ASSUME NEW p, NEW old, IsOurs(p)
  PROVE  Stored(p, old) # None
<1>1. Stored(p, old) \in Columns
  <2>1. (old # None) \in BOOLEAN
    OBVIOUS
  <2> QED BY <2>1 DEF Stored, Columns, IsOurs
<1> QED BY <1>1, ConstantsAssumption

LEMMA RowsLast ==
  ASSUME IInv, [Next]_vars, NEW m \in Matches, rows[m] # None
  PROVE  rows'[m] # None
<1>1. CASE UNCHANGED <<rows, writer>>
  BY <1>1
<1>2. ASSUME NEW i \in DOMAIN saves, Serve(i) PROVE rows'[m] # None
  <2>1. saves[i].stage = "sent" /\ SaveOK(saves[i], known)
    BY <1>2 DEF Serve, IInv, LogOK
  <2>2. rows'[m] = rows[m] \/ (m \in DOMAIN saves[i].batch /\ rows'[m] = Stored(saves[i].batch[m], rows[m]))
    BY <1>2 DEF Serve
  <2>3. m \in DOMAIN saves[i].batch => IsOurs(saves[i].batch[m])
    BY <2>1 DEF SaveOK, InputOK
  <2> QED BY <2>2, <2>3, StoredIsRow
<1>3. ASSUME NEW n \in Matches, NEW p \in Earlier, Elsewhere(n, p) PROVE rows'[m] # None
  <2>1. rows' = [rows EXCEPT ![n] = Stored(p, rows[n])] /\ rows = [k \in Matches |-> rows[k]]
    BY <1>3 DEF Elsewhere, IInv, RowsOK
  <2>2. rows'[m] = IF m = n THEN Stored(p, rows[n]) ELSE rows[m]
    BY <2>1
  <2>3. Stored(p, rows[n]) # None
    BY StoredIsRow, ConstantsAssumption
  <2> QED BY <2>2, <2>3
<1> QED BY <1>1, <1>2, <1>3, RowsSteps

LEMMA BackedSaves ==
  ASSUME IInv, [Next]_vars, BackedInv, NEW i \in DOMAIN saves', saves'[i].stage # "done"
  PROVE  Backed(saves'[i].base)
<1>1. LogOK /\ saves = [j \in DOMAIN saves |-> saves[j]]
  BY LogParts DEF IInv
<1>2. \A j \in DOMAIN saves : DOMAIN saves[j] = SaveFields
  BY <1>1 DEF LogOK, SaveOK
<1>3. \A j \in DOMAIN saves : saves[j].stage # "done" => Backed(saves[j].base)
  BY DEF BackedInv
<1>4. CASE UNCHANGED saves
  BY <1>3, <1>4
<1>5. ASSUME NEW form \in {"left", "closed"}, FormsGo(form) PROVE Backed(saves'[i].base)
  <2>1. PICK S \in SUBSET DOMAIN saves :
          saves' = [j \in DOMAIN saves |-> IF j \in S THEN [saves[j] EXCEPT !.form = form] ELSE saves[j]]
    BY <1>5 DEF FormsGo
  <2>2. i \in DOMAIN saves
    BY <2>1
  <2>3. saves'[i].stage = saves[i].stage /\ saves'[i].base = saves[i].base
    BY <1>2, <2>1, <2>2 DEF SaveFields
  <2> QED BY <1>3, <2>2, <2>3
<1>6. CASE Press
  <2> DEFINE sent == {m \in Matches : Complete(rowFor(m)) /\ ~Locked(m)}
             s == [form |-> "shown", stage |-> "sent", answer |-> None, auth |-> opened,
                   batch |-> [m \in sent |-> InputFor(data[m], rowFor(m))],
                   typed |-> edits, base |-> data]
  <2>1. data # None /\ saves' = Append(saves, s)
    BY <1>6 DEF Press, Form
  <2>2. s.base = data
    OBVIOUS
  <2> HIDE DEF s
  <2>3. /\ DOMAIN saves' = 1..Len(saves) + 1 /\ DOMAIN saves = 1..Len(saves) /\ Len(saves) \in Nat
        /\ \A j \in DOMAIN saves : saves'[j] = saves[j]
        /\ saves'[Len(saves) + 1] = s
    BY <1>1, <2>1, AppendLog, LogParts
  <2>4. i \in DOMAIN saves \/ i = Len(saves) + 1
    BY <2>3
  <2>5. CASE i \in DOMAIN saves
    BY <1>3, <2>3, <2>5
  <2>6. CASE i = Len(saves) + 1
    BY <2>1, <2>2, <2>3, <2>6 DEF BackedInv
  <2> QED BY <2>4, <2>5, <2>6
<1>7. ASSUME NEW j \in DOMAIN saves, Serve(j) PROVE Backed(saves'[i].base)
  <2>1. saves[j].stage = "sent" /\ SaveOK(saves[j], known)
    BY <1>1, <1>7 DEF Serve, LogOK
  <2>2. PICK answer : saves' = [saves EXCEPT ![j] = [saves[j] EXCEPT !.stage = "served", !.answer = answer]]
    BY <1>7, <2>1, OursIsServed
  <2>3. [saves[j] EXCEPT !.stage = "served", !.answer = answer].base = saves[j].base
    BY <1>2 DEF SaveFields
  <2>4. i \in DOMAIN saves /\ saves'[i] = IF i = j THEN [saves[j] EXCEPT !.stage = "served", !.answer = answer]
                                          ELSE saves[i]
    BY <1>1, <2>2
  <2> QED BY <1>3, <2>1, <2>3, <2>4
<1>8. ASSUME NEW j \in DOMAIN saves, NEW heard \in BOOLEAN, saves' = [saves EXCEPT ![j] = Done(heard)]
      PROVE  Backed(saves'[i].base)
  <2>1. i \in DOMAIN saves /\ saves'[i] = IF i = j THEN Done(heard) ELSE saves[i]
    BY <1>1, <1>8
  <2>2. Done(heard).stage = "done"
    BY DEF Done
  <2> QED BY <1>3, <2>1, <2>2
<1> QED BY <1>4, <1>5, <1>6, <1>7, <1>8, SavesSteps

LEMMA BackedKeeps ==
  ASSUME IInv, [Next]_vars, BackedInv
  PROVE  BackedInv'
<1>1. ASSUME data' # None PROVE Backed(data)'
  <2>1. Backed(data')
    <3>1. CASE UNCHANGED data
      BY <1>1, <3>1 DEF BackedInv
    <3>2. CASE Arrive
      BY <1>1, <3>2 DEF Arrive, BackedInv
    <3> QED BY <1>1, <3>1, <3>2, DataSteps
  <2>2. \A m \in Matches : rows[m] # None => rows'[m] # None
    BY RowsLast
  <2> QED BY <2>1, <2>2 DEF Backed
<1>2. ASSUME fetch' # None, fetch'.stage = "read", fetch'.data # None PROVE Backed(fetch.data)'
  <2>1. Backed(fetch'.data)
    <3>1. CASE fetch' = fetch
      BY <1>2, <3>1 DEF BackedInv
    <3>2. CASE fetch' = Asked
      BY <1>2, <3>2 DEF Asked
    <3>3. CASE Read
      <4>1. fetch'.data = MatchesWithPredictions
        BY <1>2, <3>3 DEF Read
      <4> QED BY <4>1 DEF Backed, MatchesWithPredictions
    <3> QED BY <1>2, <3>1, <3>2, <3>3, FetchSteps
  <2>2. \A m \in Matches : rows[m] # None => rows'[m] # None
    BY RowsLast
  <2> QED BY <2>1, <2>2 DEF Backed
<1>3. ASSUME NEW i \in DOMAIN saves', saves'[i].stage # "done" PROVE Backed(saves[i].base)'
  <2>1. Backed(saves'[i].base)
    BY <1>3, BackedSaves
  <2>2. \A m \in Matches : rows[m] # None => rows'[m] # None
    BY RowsLast
  <2> QED BY <2>1, <2>2 DEF Backed
<1> QED BY <1>1, <1>2, <1>3 DEF BackedInv

LEMMA BackedAlways == Spec => []BackedInv
<1>1. Init => BackedInv
  BY DEF Init, BackedInv
<1>2. IInv /\ BackedInv /\ [Next]_vars => BackedInv'
  BY BackedKeeps
<1> QED BY <1>1, <1>2, Inductive, PTL DEF Spec

\* A row the user has not touched is stored as the window last read it, but for a winner
\* that is filled in, whatever is there by now, and counts as picked again (rowFor,
\* onSubmit and the ON CONFLICT clause of upsert).
THEOREM RepeatsAreRepicks == Spec => UntouchedIsRepicked
<1> DEFINE Repicked ==
             \A i \in DOMAIN saves : saves[i].stage = "sent" /\ saves'[i].answer = "ok" =>
               \A m \in DOMAIN saves[i].batch :
                 saves[i].typed[m] = << >> =>
                   /\ rows'[m].was_changed
                   /\ Same(saves[i].base[m].my_prediction, rows'[m], saves[i].base[m])
           AsStated ==
             \A i \in DOMAIN saves : saves[i].stage = "sent" /\ saves'[i].answer = "ok" =>
               \A m \in DOMAIN saves[i].batch :
                 LET read == saves[i].base[m].my_prediction
                     new  == rows'[m]
                 IN  saves[i].typed[m] = << >> =>
                       /\ new.was_changed
                       /\ new.reg_home = read.reg_home /\ new.reg_away = read.reg_away
                       /\ new.pens_winner = read.pens_winner
                       /\ \/ new.advancement_winner = read.advancement_winner
                          \/ /\ read.advancement_winner = None /\ saves[i].base[m].known
                             /\ ~predicted_reg_draw(read) /\ new.advancement_winner = Leader(read)
<1>1. IInv /\ BackedInv /\ [Next]_vars => [Repicked]_vars
  <2> SUFFICES ASSUME IInv, BackedInv, [Next]_vars, NEW i \in DOMAIN saves, saves[i].stage = "sent",
                      saves'[i].answer = "ok", NEW m \in DOMAIN saves[i].batch,
                      saves[i].typed[m] = << >>
               PROVE  /\ rows'[m].was_changed
                      /\ Same(saves[i].base[m].my_prediction, rows'[m], saves[i].base[m])
    OBVIOUS
  <2> DEFINE read == saves[i].base[m].my_prediction
  <2>1. LogOK /\ SaveOK(saves[i], known)
    BY DEF IInv, LogOK
  <2>2. Serve(i)
    BY ServedOnly
  <2>3. /\ m \in Matches /\ read # None
        /\ saves[i].batch[m] = InputFor(saves[i].base[m], formRowFromApi(read))
    BY <2>1 DEF SaveOK, InputOK
  <2>4. IsOurs(read) /\ (read.advancement_winner # None => saves[i].base[m].known)
    BY <2>1, <2>3 DEF SaveOK, AnswerOK
  <2>5. Same(read, saves[i].batch[m], saves[i].base[m])
    BY <2>3, <2>4, InputRepeats
  <2>6. rows[m] # None
    BY <2>3 DEF BackedInv, Backed
  <2>7. rows'[m] = Stored(saves[i].batch[m], rows[m])
    <3> DEFINE refusal == IF Authorized(saves[i].auth) THEN Refusal(saves[i].batch) ELSE "unauthorized"
               written == IF refusal = "ok" THEN DOMAIN saves[i].batch ELSE {}
    <3>1. /\ saves' = [saves EXCEPT ![i].stage = "served", ![i].answer = refusal]
          /\ rows' = [n \in Matches |-> IF n \in written THEN Stored(saves[i].batch[n], rows[n]) ELSE rows[n]]
      BY <2>2 DEF Serve
    <3>2. saves = [j \in DOMAIN saves |-> saves[j]] /\ DOMAIN saves[i] = SaveFields
      BY <2>1, LogParts DEF SaveOK
    <3> HIDE DEF refusal
    <3>3. saves'[i].answer = refusal
      BY <3>1, <3>2 DEF SaveFields
    <3>4. m \in written
      BY <3>3
    <3> HIDE DEF written
    <3> QED BY <2>3, <3>1, <3>4
  <2>8. Same(read, rows'[m], saves[i].base[m])
    BY <2>5, <2>7 DEF Stored, Same
  <2>9. rows'[m].was_changed = (rows[m] # None)
    BY <2>7 DEF Stored
  <2>10. rows'[m].was_changed
    BY <2>6, <2>9, Zenon
  <2> QED BY <2>8, <2>10
<1>2. Repicked <=> AsStated
  BY DEF Same
<1> QED BY <1>1, <1>2, Inductive, BackedAlways, PTL DEF Spec, UntouchedIsRepicked

=============================================================================
