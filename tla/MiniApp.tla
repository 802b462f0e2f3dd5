------------------------------ MODULE MiniApp ------------------------------
(***************************************************************************)
(* The Matches tab of the Mini App, for one parent (a group or a knockout  *)
(* phase) and one pickem: what is shown is what the server last answered   *)
(* with, under what the user has typed since.  Queries are refetched in    *)
(* the background, saves take their time, both may fail, the session       *)
(* expires, the ingester moves matches, and the user may have the Mini App *)
(* open elsewhere.  An HTTP request is sent, handled and answered in three *)
(* steps; the handlers, which MatchPredictions has call by call, are one   *)
(* step here.                                                              *)
(***************************************************************************)
EXTENDS Scoring, Sequences

CONSTANTS
  Matches,      \* ids of the parent's matches
  isKnockout,   \* the kind of the parent
  Patches,      \* what one change of one control may be
  Earlier,      \* what the user may have predicted of a match before, or elsewhere
  Kickoffs,     \* kickoffs the matches may have
  Starts,       \* deadlines, fixtures and sessions to begin with
  MaxTime,      \* bound: the last instant
  MaxAge,       \* MAX_AGE_SECS of the session
  MaxSaves,     \* bound: presses of the button
  MaxEvents     \* bound: controls changed, tabs left, Mini Apps closed, calls that fail,
                \* matches moved, teams made known, saves elsewhere

Time == 0..MaxTime

Field == {"regHome", "regAway", "advancementWinnerId", "pensYes"}
Side  == {"home", "away"}
Reply == {"ok", "closed", "kicked off", "invalid", "unreadable", "unauthorized", "heard"}

Leader(p) == IF p.reg_home > p.reg_away THEN "home" ELSE "away"

\* A prediction as the form makes them, now or at another time.
IsOurs(p) ==
  /\ p.reg_home \in Nat /\ p.reg_away \in Nat
  /\ p.advancement_winner \in Side \cup {None}
  /\ p.pens_winner \in {None, p.advancement_winner}
  /\ p.pens_winner # None => predicted_reg_draw(p)
  /\ p.advancement_winner # None =>
       isKnockout /\ (predicted_reg_draw(p) \/ p.advancement_winner = Leader(p))

\* A body serde reads: its scores are i32.
Readable(p) == IsI32(p.reg_home) /\ IsI32(p.reg_away)

\* The columns of a row of `predictions` the form has to do with.
Columns ==
  [reg_home : Nat, reg_away : Nat, advancement_winner : Side \cup {None},
   pens_winner : Side \cup {None}, was_changed : BOOLEAN]

\* What a change may put into the fields of a row.
IsEdit(patch) ==
  \A f \in DOMAIN patch :
    \/ f \in {"regHome", "regAway"} /\ patch[f] \in Nat \cup {None}
    \/ f = "advancementWinnerId" /\ patch[f] \in Side
    \/ f = "pensYes" /\ patch[f] \in BOOLEAN

ASSUME ConstantsAssumption ==
  /\ isKnockout \in BOOLEAN
  /\ \A patch \in Patches : IsEdit(patch)
  /\ \A p \in Earlier : IsOurs(p) /\ Readable(p)
  /\ \A start \in Starts :
       /\ start.kickoff \in [Matches -> Kickoffs]
       /\ start.deadline \in Kickoffs
       /\ start.opened \in Int /\ start.opened <= 0
       /\ start.known \subseteq Matches /\ (isKnockout \/ start.known = Matches)
       /\ \A m \in Matches : start.deadline <= start.kickoff[m]
  /\ None \notin Nat \cup Side \cup Reply /\ None \notin Columns
  /\ MaxTime \in Nat /\ MaxAge \in Nat

VARIABLES
  now,
  kickoff,   \* kickoff_at of the matches
  known,     \* the matches whose teams are known
  deadline,  \* deadline_at of the parent
  rows,      \* the user's rows of `predictions`
  opened,    \* auth_date of the initData
  tab,       \* whether the tab is the active one
  list,      \* what the queries of the active parents have come to
  data,      \* what the query of the matches holds, None before the first answer
  failed,    \* whether the last fetch of the matches failed
  invalid,   \* whether that query has been invalidated
  fetch,     \* the fetch of the matches in flight, and its answer
  edits,     \* what the user has typed and not saved
  at,        \* the `now` of the last render
  saves,     \* the POSTs, in the order of the presses
  writer,    \* history: the save that wrote each row last, 0 for none of these
  events

world   == <<kickoff, known, deadline>>
queries == <<list, data, failed, invalid, fetch>>
vars == <<now, world, rows, opened, tab, queries, edits, at, saves, writer, events>>

\* The row an upsert leaves.
Stored(p, old) ==
  [reg_home |-> p.reg_home, reg_away |-> p.reg_away,
   advancement_winner |-> p.advancement_winner, pens_winner |-> p.pens_winner,
   was_changed |-> old # None]

NoEdits == [m \in Matches |-> << >>]
Asked   == [stage |-> "asked", data |-> None]

\* Nobody can have picked a team of a match before it was known who plays.
Fits(m, p) == p.advancement_winner # None => m \in known

Init ==
  /\ now = 0
  /\ \E start \in Starts :
       /\ deadline = start.deadline /\ kickoff = start.kickoff
       /\ known = start.known /\ opened = start.opened
  /\ rows \in [Matches -> {Stored(p, None) : p \in Earlier} \cup {None}]
  /\ \A m \in Matches : rows[m] # None => Fits(m, rows[m])
  /\ tab = TRUE
  /\ list = "loading"
  /\ data = None
  /\ failed = FALSE /\ invalid = FALSE
  /\ fetch = None
  /\ edits = NoEdits
  /\ at = 0
  /\ saves = << >>
  /\ writer = [m \in Matches |-> 0]
  /\ events = 0

-----------------------------------------------------------------------------
(* MatchesTab.tsx: rows of the form.                                       *)

EMPTY_FORM_ROW ==
  [regHome |-> None, regAway |-> None, advancementWinnerId |-> None, pensYes |-> FALSE]

\* Mutant: the shootout is not read back.
FormRowWithoutPens(p) ==
  IF p = None THEN EMPTY_FORM_ROW
  ELSE [regHome |-> p.reg_home, regAway |-> p.reg_away,
        advancementWinnerId |-> p.advancement_winner, pensYes |-> FALSE]

formRowFromApi(p) ==
  IF p = None THEN EMPTY_FORM_ROW
  ELSE [regHome |-> p.reg_home, regAway |-> p.reg_away,
        advancementWinnerId |-> p.advancement_winner, pensYes |-> p.pens_winner # None]

\* { ...old, ...patch }
Spread(old, patch) ==
  [f \in DOMAIN old \cup DOMAIN patch |-> IF f \in DOMAIN patch THEN patch[f] ELSE old[f]]

rowFor(m) == Spread(formRowFromApi(data[m].my_prediction), edits[m])

\* Both counters are numbers (None stands for what parseScore refuses).
Complete(row) == row.regHome # None /\ row.regAway # None

isDraw(row) == Complete(row) /\ row.regHome = row.regAway

Locked(m) == data[m].kickoff <= at

winningTeamId(match, row) ==
  IF ~match.known \/ row.regHome = row.regAway THEN None
  ELSE IF row.regHome > row.regAway THEN "home" ELSE "away"

\* Mutant: the check box counts whatever the score is.
InputKeepsPens(match, row) ==
  LET winner == IF ~isKnockout THEN None
                ELSE IF isDraw(row) THEN row.advancementWinnerId
                ELSE winningTeamId(match, row)
  IN  [ reg_home |-> row.regHome, reg_away |-> row.regAway, advancement_winner |-> winner,
        pens_winner |-> IF isKnockout /\ row.pensYes THEN winner ELSE None ]

\* The prediction onSubmit sends for a row.
InputFor(match, row) ==
  LET winner == IF ~isKnockout THEN None
                ELSE IF isDraw(row) THEN row.advancementWinnerId
                ELSE winningTeamId(match, row)
  IN  [ reg_home |-> row.regHome, reg_away |-> row.regAway, advancement_winner |-> winner,
        pens_winner |-> IF isKnockout /\ isDraw(row) /\ row.pensYes THEN winner ELSE None ]

-----------------------------------------------------------------------------
(* The server.                                                             *)

\* verify_init_data.
Authorized(auth_date) == now - auth_date <= MaxAge

\* Whether submit_matches, or the extractor of its body, lets a batch through.
Refusal(batch) ==
  IF \E m \in DOMAIN batch : ~Readable(batch[m]) THEN "unreadable"
  ELSE IF deadline <= now THEN "closed"
  ELSE IF \E m \in DOMAIN batch : kickoff[m] <= now THEN "kicked off"
  ELSE IF \E m \in DOMAIN batch :
            \/ ~isKnockout /\ (batch[m].advancement_winner # None \/ batch[m].pens_winner # None)
            \/ ~is_consistent(batch[m])
            \/ ~KnockoutConsistency(batch[m])
       THEN "invalid"
  ELSE "ok"

\* merge_predictions: what group_matches and knockout_matches answer with.
MatchesWithPredictions ==
  [m \in Matches |->
     [kickoff |-> kickoff[m], known |-> m \in known, my_prediction |-> rows[m]]]

\* One save is handled.
Serve(i) ==
  LET s == saves[i]
      refusal == IF Authorized(s.auth) THEN Refusal(s.batch) ELSE "unauthorized"
      written == IF refusal = "ok" THEN DOMAIN s.batch ELSE {}
  IN  /\ s.stage = "sent"
      /\ saves' = [saves EXCEPT ![i].stage = "served", ![i].answer = refusal]
      /\ rows' = [m \in Matches |->
                    IF m \in written THEN Stored(s.batch[m], rows[m]) ELSE rows[m]]
      /\ writer' = [m \in Matches |-> IF m \in written THEN i ELSE writer[m]]
      /\ UNCHANGED <<now, world, opened, tab, queries, edits, at, events>>

\* One fetch of the matches is handled.
Read ==
  /\ fetch = Asked
  /\ fetch' = [stage |-> "read",
               data |-> IF Authorized(opened) THEN MatchesWithPredictions ELSE None]
  /\ UNCHANGED <<now, world, rows, opened, tab, list, data, failed, invalid, edits, at,
                 saves, writer, events>>

-----------------------------------------------------------------------------
(* The window.                                                             *)

Event == events < MaxEvents /\ events' = events + 1

\* Whether the section of the parent is mounted.
Mounted == tab /\ list = "shown"

\* Whether the form is shown.
Form == Mounted /\ data # None /\ ~failed

\* A query that is observed again is fetched if it holds nothing or was invalidated;
\* one in flight is not asked for twice.
Mount ==
  fetch' = IF fetch = None /\ (data = None \/ invalid) THEN Asked ELSE fetch

\* The state of the form is gone; its save, if any, goes on without it.
Unmount ==
  /\ edits' = NoEdits
  /\ saves' = [i \in DOMAIN saves |->
                 IF saves[i].form = "shown" /\ saves[i].stage # "done"
                 THEN [saves[i] EXCEPT !.form = "left"] ELSE saves[i]]

\* The queries of the active groups and knockouts have their answers: the section of
\* the parent is mounted as long as the parent is open.
ListArrives ==
  /\ tab /\ Authorized(opened)
  /\ IF now < deadline
     THEN /\ list # "shown"
          /\ list' = "shown"
          /\ Mount
          /\ at' = now
          /\ UNCHANGED <<edits, saves>>
     ELSE /\ list # "closed"
          /\ list' = "closed"
          /\ Unmount
          /\ UNCHANGED <<fetch, at>>
  /\ UNCHANGED <<now, world, rows, opened, tab, data, failed, invalid, writer, events>>

\* One of them fails, and so does its retry: the tab shows the error.
ListFails ==
  /\ tab /\ list # "error"
  /\ IF Authorized(opened) THEN Event ELSE UNCHANGED events
  /\ list' = "error"
  /\ Unmount
  /\ UNCHANGED <<now, world, rows, opened, tab, data, failed, invalid, fetch, at, writer>>

\* The window is focused, or online again: the query is refetched.
Refetch ==
  /\ Mounted /\ fetch = None
  /\ fetch' = Asked
  /\ UNCHANGED <<now, world, rows, opened, tab, list, data, failed, invalid, edits, at,
                 saves, writer, events>>

\* Mutant: what is fetched takes the place of what is typed.
ArriveClears ==
  /\ fetch # None /\ fetch.stage = "read"
  /\ fetch' = None
  /\ data' = IF fetch.data = None THEN data ELSE fetch.data
  /\ failed' = (fetch.data = None)
  /\ invalid' = (invalid /\ failed')
  /\ at' = now
  /\ edits' = NoEdits
  /\ UNCHANGED <<now, world, rows, opened, tab, list, saves, writer, events>>

Arrive ==
  /\ fetch # None /\ fetch.stage = "read"
  /\ fetch' = None
  /\ data' = IF fetch.data = None THEN data ELSE fetch.data
  /\ failed' = (fetch.data = None)
  /\ invalid' = (invalid /\ failed')
  /\ at' = now
  /\ UNCHANGED <<now, world, rows, opened, tab, list, edits, saves, writer, events>>

\* A fetch and its retry fail.
FetchFails ==
  /\ fetch # None
  /\ Event
  /\ fetch' = None
  /\ failed' = TRUE
  /\ UNCHANGED <<now, world, rows, opened, tab, list, data, invalid, edits, at, saves,
                 writer>>

\* One control of a row changes; those of a knockout's draw are there when it is one.
Type(m, patch) ==
  /\ Form /\ ~Locked(m)
  /\ Event
  /\ DOMAIN patch \cap {"advancementWinnerId", "pensYes"} # {} =>
       isKnockout /\ isDraw(rowFor(m))
  /\ "advancementWinnerId" \in DOMAIN patch => data[m].known
  /\ edits' = [edits EXCEPT ![m] = Spread(@, patch)]
  /\ at' = now
  /\ UNCHANGED <<now, world, rows, opened, tab, queries, saves, writer>>

\* Mutant: the button stays enabled.
NeverPending == FALSE

Pending ==
  \E i \in DOMAIN saves : saves[i].form = "shown" /\ saves[i].stage # "done"

\* onSubmit sends every complete row that is not locked, whoever typed it and when.
Press ==
  LET sent  == {m \in Matches : Complete(rowFor(m)) /\ ~Locked(m)}
      batch == [m \in sent |-> InputFor(data[m], rowFor(m))]
  IN  /\ Form /\ ~Pending
      /\ sent # {}
      /\ Len(saves) < MaxSaves
      /\ saves' = Append(saves,
           [form |-> "shown", stage |-> "sent", answer |-> None,
            auth |-> opened, batch |-> batch, typed |-> edits, base |-> data])
      /\ at' = now
      /\ UNCHANGED <<now, world, rows, opened, tab, queries, edits, writer, events>>

\* Mutant: a refetch that is in flight is good enough.
InvalidateKeeping ==
  IF Mounted /\ fetch = None
  THEN fetch' = Asked /\ UNCHANGED invalid
  ELSE invalid' = TRUE /\ UNCHANGED fetch

\* invalidateQueries: an observed query is fetched again, from the start; another one
\* when it is next observed.
Invalidate ==
  /\ invalid' = TRUE
  /\ fetch' = IF Mounted THEN Asked ELSE fetch

\* Of a save that is over it is only remembered whether its form has heard of success.
Done(heard) ==
  [form |-> "left", stage |-> "done", answer |-> IF heard THEN "heard" ELSE None,
   auth |-> 0, batch |-> << >>, typed |-> NoEdits, base |-> None]

\* The answer to a save.  onSuccess runs in a form that is gone, too, but the edits it
\* clears are those of that form.
Answered(i) ==
  LET s == saves[i]
  IN  /\ s.stage = "served"
      /\ saves' = [saves EXCEPT ![i] = Done(s.form = "shown" /\ s.answer = "ok")]
      /\ at' = IF s.form = "shown" THEN now ELSE at
      /\ IF s.answer = "ok" /\ s.form # "closed"
         THEN /\ Invalidate
              /\ edits' = IF s.form = "shown" THEN NoEdits ELSE edits
         ELSE UNCHANGED <<invalid, fetch, edits>>
      /\ UNCHANGED <<now, world, rows, opened, tab, list, data, failed, writer, events>>

\* A save is lost on its way, or its answer on the way back.
SaveFails(i) ==
  /\ saves[i].stage \in {"sent", "served"}
  /\ Event
  /\ saves' = [saves EXCEPT ![i] = Done(FALSE)]
  /\ UNCHANGED <<now, world, rows, opened, tab, queries, edits, at, writer>>

\* Another tab is chosen.
Leave ==
  /\ tab
  /\ Event
  /\ tab' = FALSE
  /\ Unmount
  /\ UNCHANGED <<now, world, rows, opened, queries, at, writer>>

\* Back to this one.
Enter ==
  /\ ~tab
  /\ tab' = TRUE
  /\ IF list = "shown" THEN Mount ELSE UNCHANGED fetch
  /\ at' = now
  /\ UNCHANGED <<now, world, rows, opened, list, data, failed, invalid, edits, saves,
                 writer, events>>

\* The Mini App is closed and opened again.
Reopen ==
  /\ Event
  /\ opened' = now
  /\ tab' = TRUE
  /\ list' = "loading"
  /\ data' = None
  /\ failed' = FALSE /\ invalid' = FALSE
  /\ fetch' = None
  /\ edits' = NoEdits
  /\ saves' = [i \in DOMAIN saves |->
                 IF saves[i].stage # "done" THEN [saves[i] EXCEPT !.form = "closed"] ELSE saves[i]]
  /\ UNCHANGED <<now, world, rows, at, writer>>

-----------------------------------------------------------------------------
(* The rest of the world.                                                  *)

Tick ==
  /\ now < MaxTime
  /\ now' = now + 1
  /\ UNCHANGED <<world, rows, opened, tab, queries, edits, at, saves, writer, events>>

\* The ingester moves a match that has not begun.
Reschedule(m, t) ==
  /\ now < kickoff[m] /\ now < t /\ t # kickoff[m]
  /\ Event
  /\ kickoff' = [kickoff EXCEPT ![m] = t]
  /\ UNCHANGED <<now, known, deadline, rows, opened, tab, queries, edits, at, saves, writer>>

\* It learns who plays.
Resolve(m) ==
  /\ m \notin known
  /\ Event
  /\ known' = known \cup {m}
  /\ UNCHANGED <<now, kickoff, deadline, rows, opened, tab, queries, edits, at, saves,
                 writer>>

\* The user saves a prediction in another window.
Elsewhere(m, p) ==
  /\ Fits(m, p) /\ Refusal([x \in {m} |-> p]) = "ok"
  /\ Event
  /\ rows' = [rows EXCEPT ![m] = Stored(p, @)]
  /\ writer' = [writer EXCEPT ![m] = 0]
  /\ UNCHANGED <<now, world, opened, tab, queries, edits, at, saves>>

Next ==
  \/ Read \/ Arrive \/ FetchFails \/ ListArrives \/ ListFails \/ Refetch
  \/ Press \/ Leave \/ Enter \/ Reopen \/ Tick
  \/ \E i \in DOMAIN saves : Serve(i) \/ Answered(i) \/ SaveFails(i)
  \/ \E m \in Matches :
       \/ Resolve(m)
       \/ \E patch \in Patches : Type(m, patch)
       \/ \E t \in Kickoffs : Reschedule(m, t)
       \/ \E p \in Earlier : Elsewhere(m, p)

Spec == Init /\ [][Next]_vars
-----------------------------------------------------------------------------
(* What the user is promised.                                              *)

TypeOK ==
  /\ now \in Time /\ deadline \in Kickoffs
  /\ \A m \in Matches : rows[m] # None => is_consistent(rows[m]) /\ Complete(formRowFromApi(rows[m]))
  /\ tab \in BOOLEAN /\ failed \in BOOLEAN /\ invalid \in BOOLEAN
  /\ list \in {"loading", "shown", "closed", "error"}
  /\ at \in Time /\ opened \in Int /\ opened <= now
  /\ ~Mounted => edits = NoEdits /\ ~Pending
  /\ \A i, j \in DOMAIN saves :
       i < j /\ saves[i].stage # "done" => saves[i].form # "shown"

\* Whatever the user clicks together, in whatever order, validation has nothing to say
\* against the batch the form makes of it: only time, the session and a number that no
\* i32 holds (parseScore takes any) refuse a save.
BatchesAreValid == \A i \in DOMAIN saves : saves[i].answer # "invalid"

\* What the window sent says of an edit.
Tells(input, f, v) ==
  CASE f = "regHome" -> input.reg_home = v
    [] f = "regAway" -> input.reg_away = v
    [] f = "advancementWinnerId" -> predicted_reg_draw(input) => input.advancement_winner = v
    [] f = "pensYes" -> predicted_reg_draw(input) /\ input.advancement_winner # None
                          => predicted_goes_to_pens(input) = v

Typing ==
  \E m \in Matches, patch \in Patches : edits' = [edits EXCEPT ![m] = Spread(@, patch)]

\* As long as its form is there, an edit is given up only to another one, or when the
\* answer to a save of this very form says that it is stored.  (Given up with it are
\* the edits of rows that were incomplete or locked, and those made meanwhile.)
EditsStand ==
  [][Mounted /\ Mounted' /\ edits' # edits /\ ~Typing
       => \E i \in DOMAIN saves :
            /\ saves[i].form = "shown" /\ saves[i].answer = "ok"
            /\ saves[i].stage = "served" /\ saves'[i].stage = "done"
            /\ \A m \in DOMAIN saves[i].batch : \A f \in DOMAIN edits[m] :
                 f \in DOMAIN saves[i].typed[m] /\ saves[i].typed[m][f] = edits[m][f]
                   => Tells(saves[i].batch[m], f, edits[m][f])]_vars

\* A row the user has not touched is sent again with every save, and is picked again by
\* that: it costs the re-pick penalty from then on, although its prediction is the one
\* the window last read.  That one is stored whatever another window or another save
\* has put there since, with a winner filled in at most: the leader's, once the teams
\* are known.
UntouchedIsRepicked ==
  [][\A i \in DOMAIN saves : saves[i].stage = "sent" /\ saves'[i].answer = "ok" =>
       \A m \in DOMAIN saves[i].batch :
         LET read == saves[i].base[m].my_prediction
             new  == rows'[m]
         IN  saves[i].typed[m] = << >> =>
               /\ new.was_changed
               /\ new.reg_home = read.reg_home /\ new.reg_away = read.reg_away
               /\ new.pens_winner = read.pens_winner
               /\ \/ new.advancement_winner = read.advancement_winner
                  \/ /\ read.advancement_winner = None /\ saves[i].base[m].known
                     /\ ~predicted_reg_draw(read) /\ new.advancement_winner = Leader(read)]_vars

\* When all is quiet, the window that wrote a row last, and heard of it, shows it: no
\* refetch that began before the save has the last word.
Quiet == data # None /\ fetch = None /\ ~invalid /\ ~failed

SavedIsShown ==
  \A m \in Matches : writer[m] # 0 =>
    LET s == saves[writer[m]]
    IN  s.answer = "heard" /\ Quiet
          => data[m].my_prediction = rows[m]

-----------------------------------------------------------------------------
(* What a comment of the code says of it and the code does not do.         *)

\* MatchesTab.tsx: "background refetches do not clobber in-progress edits".
RefetchesKeepEdits ==
  [][edits # NoEdits /\ edits' = NoEdits =>
       \/ ~tab' \/ list' \in {"loading", "closed"}
       \/ \E i \in DOMAIN saves : saves[i].stage = "served" /\ saves'[i].stage = "done"]_vars
=============================================================================
