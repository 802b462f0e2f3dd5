-------------------------- MODULE MatchPredictions --------------------------
(***************************************************************************)
(* POST /api/predictions/matches of services/api, for one user, one pickem *)
(* and one parent (a tournament group or a knockout phase): membership,    *)
(* parent, fixtures, validation of the whole batch, then one upsert per    *)
(* prediction with no transaction around them.  Each of those calls is an  *)
(* await, during which other requests of the user run, the ingester moves  *)
(* kickoffs, the bootstrap rewrites the deadline and the client may hang   *)
(* up.                                                                     *)
(***************************************************************************)
EXTENDS Naturals, Sequences

CONSTANTS
  Matches,     \* ids of rows of `matches`
  Picks,       \* what one can predict of a match: goals and winners
  Requests,    \* POSTs the user sends
  Bodies,      \* the prediction lists they may carry
  None,        \* no row, no answer, not a match of the parent
  MaxTime,     \* bound: the last instant
  MaxMoves,    \* bound: kickoffs and deadlines rewritten
  MaxFaults    \* bound: failed calls and dropped requests

Time == 0..MaxTime

\* What becomes of an input whatever the state: it can be stored; validation
\* refuses it (winners on a group match, Prediction::is_consistent); or it
\* passes, and names as winner a team that is no row of `teams`.
Fit == {"good", "refused", "dangling"}

Input == [match : Matches, pick : Picks, fit : Fit]
Row   == [pick : Picks, at : Time, changed : BOOLEAN]
Stage == {"idle", "member", "parent", "list", "write", "done"}
Answer == {"ok", "forbidden", "closed", "bad", "error", "none"}

ASSUME ConstantsAssumption ==
  /\ Bodies \subseteq Seq(Input)
  /\ None \notin Row
  /\ None \notin Input
  /\ None \notin Nat
  /\ MaxTime \in Nat
  /\ MaxMoves \in Nat
  /\ MaxFaults \in Nat

VARIABLES
  now,       \* Utc::now()
  member,    \* whether the user has joined the pickem
  parent,    \* state and deadline_at of the parent's row
  kickoff,   \* kickoff_at of the parent's matches
  rows,      \* the user's rows of `predictions`
  pc, body, answer,
  at,        \* `now` of the handler, read once
  next,      \* the prediction whose upsert is in flight
  adrift,    \* a statement that outlives its request, in the server's hands
  wrote,     \* history: the inputs of each request that reached the table
  rivals,    \* history: the requests each one has met
  writes,    \* history: how often each row was written
  latest,    \* history: the latest kickoff and deadline there have been
  moves, faults

clock    == <<now, moves, faults>>
schedule == <<member, parent, kickoff, latest>>
request  == <<pc, body, answer, at, next, rivals>>
table    == <<rows, wrote, writes>>
vars == <<now, member, parent, kickoff, rows, pc, body, answer, at, next, adrift,
          wrote, rivals, writes, latest, moves, faults>>

Later(t, u) == IF t = None \/ t <= u THEN u ELSE t

Init ==
  /\ now = 0
  /\ member \in BOOLEAN
  /\ parent \in [open : BOOLEAN, deadline : Time]
  /\ kickoff \in [Matches -> Time \cup {None}]
  /\ rows = [m \in Matches |-> None]
  /\ pc = [r \in Requests |-> "idle"]
  /\ body = [r \in Requests |-> <<>>]
  /\ answer = [r \in Requests |-> "none"]
  /\ at = [r \in Requests |-> 0]
  /\ next = [r \in Requests |-> 1]
  /\ adrift = [r \in Requests |-> None]
  /\ wrote = [r \in Requests |-> {}]
  /\ rivals = [r \in Requests |-> {}]
  /\ writes = [m \in Matches |-> 0]
  /\ latest = [kickoff |-> kickoff, deadline |-> parent.deadline]
  /\ moves = 0
  /\ faults = 0

-----------------------------------------------------------------------------
(* The table.                                                              *)

\* Mutant: ON CONFLICT DO NOTHING.
KeepFirst(old, pick, t) ==
  IF old = None THEN [pick |-> pick, at |-> t, changed |-> FALSE] ELSE old
\* Mutant: the conflict path takes EXCLUDED.was_changed.
FlagReset(old, pick, t) == [pick |-> pick, at |-> t, changed |-> FALSE]

\* INSERT ... ON CONFLICT (user_id, pickem_group_id, match_id) DO UPDATE.
Upserted(old, pick, t) == [pick |-> pick, at |-> t, changed |-> old # None]

\* The statement of input i of request r.
WriteRow(r, i) ==
  LET m == body[r][i].match
  IN /\ rows' = [rows EXCEPT ![m] = Upserted(@, body[r][i].pick, at[r])]
     /\ wrote' = [wrote EXCEPT ![r] = @ \cup {i}]
     /\ writes' = [writes EXCEPT ![m] = @ + 1]

-----------------------------------------------------------------------------
(* The handler, one action per stretch between two awaits.                 *)

Unsettled(r) == pc[r] \notin {"idle", "done"} \/ adrift[r] # None

\* The client sends r.
Send(r) ==
  /\ pc[r] = "idle"
  /\ \E b \in Bodies : body' = [body EXCEPT ![r] = b]
  /\ pc' = [pc EXCEPT ![r] = "member"]
  /\ rivals' = [s \in Requests |->
                  IF s = r THEN {q \in Requests : Unsettled(q)}
                  ELSE IF pc[s] # "idle" THEN rivals[s] \cup {r}
                  ELSE rivals[s]]
  /\ UNCHANGED <<clock, schedule, table, answer, at, next, adrift>>

Reply(r, a) ==
  /\ pc' = [pc EXCEPT ![r] = "done"]
  /\ answer' = [answer EXCEPT ![r] = a]

\* require_membership; the handler reads the clock as soon as it returns.
RequireMembership(r) ==
  /\ pc[r] = "member"
  /\ IF member
     THEN /\ pc' = [pc EXCEPT ![r] = "parent"]
          /\ at' = [at EXCEPT ![r] = now]
          /\ UNCHANGED answer
     ELSE Reply(r, "forbidden") /\ UNCHANGED at
  /\ UNCHANGED <<clock, schedule, table, body, next, adrift, rivals>>

\* The parent's row: open, and its deadline ahead of the handler's clock.
FindParent(r) ==
  /\ pc[r] = "parent"
  /\ IF parent.open /\ parent.deadline > at[r]
     THEN pc' = [pc EXCEPT ![r] = "list"] /\ UNCHANGED answer
     ELSE Reply(r, "closed")
  /\ UNCHANGED <<clock, schedule, table, body, at, next, adrift, rivals>>

\* Mutant: a match that kicks off at this very instant is accepted.
ValidAtKickoff(r) ==
  \A i \in DOMAIN body[r] :
    /\ kickoff[body[r][i].match] # None
    /\ kickoff[body[r][i].match] >= at[r]
    /\ body[r][i].fit # "refused"

\* The loop that builds to_upsert.
Valid(r) ==
  \A i \in DOMAIN body[r] :
    /\ kickoff[body[r][i].match] # None
    /\ kickoff[body[r][i].match] > at[r]
    /\ body[r][i].fit # "refused"

\* Mutant: the fixtures are asked for again until the batch is valid.
ListMatchesUntilValid(r) ==
  /\ pc[r] = "list" /\ Valid(r)
  /\ IF body[r] = <<>> THEN Reply(r, "ok")
     ELSE pc' = [pc EXCEPT ![r] = "write"] /\ UNCHANGED answer
  /\ UNCHANGED <<clock, schedule, table, body, at, next, adrift, rivals>>

\* The fixtures of the parent, and the whole validation on that answer.
ListMatches(r) ==
  /\ pc[r] = "list"
  /\ IF ~Valid(r) THEN Reply(r, "bad")
     ELSE IF body[r] = <<>> THEN Reply(r, "ok")
     ELSE pc' = [pc EXCEPT ![r] = "write"] /\ UNCHANGED answer
  /\ UNCHANGED <<clock, schedule, table, body, at, next, adrift, rivals>>

\* Mutant: the loop runs past the last prediction.
UpsertPastEnd(r) ==
  /\ pc[r] = "write" /\ body[r][next[r]].fit = "good"
  /\ WriteRow(r, next[r])
  /\ next' = [next EXCEPT ![r] = @ + 1]
  /\ UNCHANGED <<clock, schedule, pc, body, answer, at, rivals, adrift>>

\* One turn of the upsert loop; after the last one the handler answers.
Upsert(r) ==
  /\ pc[r] = "write" /\ body[r][next[r]].fit = "good"
  /\ WriteRow(r, next[r])
  /\ IF next[r] = Len(body[r]) THEN Reply(r, "ok") /\ UNCHANGED next
     ELSE next' = [next EXCEPT ![r] = @ + 1] /\ UNCHANGED <<pc, answer>>
  /\ UNCHANGED <<clock, schedule, body, at, rivals, adrift>>

\* The foreign key on the winner's team refuses the row.
UpsertRefused(r) ==
  /\ pc[r] = "write" /\ body[r][next[r]].fit = "dangling"
  /\ Reply(r, "error")
  /\ UNCHANGED <<clock, schedule, table, body, at, next, adrift, rivals>>

Fault == faults < MaxFaults /\ faults' = faults + 1

\* A call fails: a read, an upsert that did not run, or one that committed and
\* whose reply was lost.
CallFails(r) ==
  /\ pc[r] \notin {"idle", "done"}
  /\ Fault
  /\ Reply(r, "error")
  /\ \/ UNCHANGED table
     \/ pc[r] = "write" /\ body[r][next[r]].fit = "good" /\ WriteRow(r, next[r])
  /\ UNCHANGED <<now, moves, schedule, body, at, next, adrift, rivals>>

\* The client hangs up or the process dies, and the handler is dropped at its
\* await: the statement it was waiting for is lost, or may still be carried out.
Drop(r) ==
  /\ pc[r] \notin {"idle", "done"}
  /\ Fault
  /\ Reply(r, "none")
  /\ \/ UNCHANGED adrift
     \/ /\ pc[r] = "write" /\ body[r][next[r]].fit = "good"
        /\ adrift' = [adrift EXCEPT ![r] = next[r]]
  /\ UNCHANGED <<now, moves, schedule, table, body, at, next, rivals>>

\* The server carries out a statement whose request is gone.
Land(r) ==
  /\ adrift[r] # None
  /\ WriteRow(r, adrift[r])
  /\ adrift' = [adrift EXCEPT ![r] = None]
  /\ UNCHANGED <<clock, schedule, request>>

-----------------------------------------------------------------------------
(* The rest of the system.                                                 *)

Tick ==
  /\ now < MaxTime
  /\ now' = now + 1
  /\ UNCHANGED <<moves, faults, schedule, table, request, adrift>>

\* /join of the bot; there is no way to leave.
Join ==
  /\ ~member
  /\ member' = TRUE
  /\ UNCHANGED <<clock, parent, kickoff, latest, table, request, adrift>>

Move == moves < MaxMoves /\ moves' = moves + 1

\* The ingester stores a match of the parent or rewrites its kickoff.
Ingest(m) ==
  /\ Move
  /\ \E t \in Time \ {kickoff[m]} :
       /\ kickoff' = [kickoff EXCEPT ![m] = t]
       /\ latest' = [latest EXCEPT !.kickoff[m] = Later(@, t)]
  /\ UNCHANGED <<now, faults, member, parent, table, request, adrift>>

\* A bootstrap (there is one as long as a knockout phase is missing) seeds the
\* parent again: open, under a new deadline.
Reseed ==
  /\ Move
  /\ \E t \in Time :
       /\ parent' = [open |-> TRUE, deadline |-> t]
       /\ latest' = [latest EXCEPT !.deadline = Later(@, t)]
  /\ parent' # parent
  /\ UNCHANGED <<now, faults, member, kickoff, table, request, adrift>>

Handle(r) ==
  \/ RequireMembership(r) \/ FindParent(r) \/ ListMatches(r)
  \/ Upsert(r) \/ UpsertRefused(r)

Next ==
  \/ \E r \in Requests : Send(r) \/ Handle(r) \/ CallFails(r) \/ Drop(r) \/ Land(r)
  \/ Tick \/ Join \/ Reseed
  \/ \E m \in Matches : Ingest(m)

Spec == Init /\ [][Next]_vars

\* Every call of the handler returns (the pool's acquire times out, a statement
\* waits for no lock another one keeps) and the runtime polls every request.
FairSpec == Spec /\ \A r \in Requests : WF_vars(Handle(r))
-----------------------------------------------------------------------------
(* What the endpoint promises.                                             *)

Types ==
  /\ now \in Time
  /\ member \in BOOLEAN
  /\ parent \in [open : BOOLEAN, deadline : Time]
  /\ kickoff \in [Matches -> Time \cup {None}]
  /\ rows \in [Matches -> Row \cup {None}]
  /\ pc \in [Requests -> Stage]
  /\ body \in [Requests -> Seq(Input)]
  /\ answer \in [Requests -> Answer]
  /\ at \in [Requests -> Time]
  /\ next \in [Requests -> Nat]
  /\ adrift \in [Requests -> Nat \cup {None}]
  /\ wrote \in [Requests -> SUBSET Nat]
  /\ rivals \in [Requests -> SUBSET Requests]
  /\ writes \in [Matches -> Nat]
  /\ latest \in [kickoff : [Matches -> Time \cup {None}], deadline : Time]
  /\ moves \in 0..MaxMoves
  /\ faults \in 0..MaxFaults

\* Nothing is written before the upsert loop, the loop points at a prediction of
\* its own body as long as it runs, an answer ends the request, and a statement
\* adrift belongs to a request that got none.
LoopOK(r) ==
  /\ pc[r] \notin {"write", "done"} => next[r] = 1 /\ wrote[r] = {}
  /\ pc[r] = "write" => next[r] \in DOMAIN body[r]
  /\ answer[r] # "none" => pc[r] = "done"
  /\ adrift[r] # None => /\ pc[r] = "done" /\ answer[r] = "none"
                         /\ adrift[r] \in DOMAIN body[r]

\* Types, and where a request can be at all.
TypeOK == Types /\ \A r \in Requests : LoopOK(r)

Timely(r) ==
  /\ at[r] < latest.deadline
  /\ \A i \in DOMAIN body[r] :
       /\ body[r][i].fit # "refused"
       /\ latest.kickoff[body[r][i].match] # None
       /\ at[r] < latest.kickoff[body[r][i].match]

\* Not one row of a batch is written unless every prediction of the batch passes
\* validation and was in time: handled before some deadline the parent has had
\* and before some kickoff its match has had, the ones still to be written
\* included.
OnlyTimelyBatches == \A r \in Requests : wrote[r] # {} => Timely(r)

\* The re-pick flag says exactly that the row was written more than once, in
\* whatever order requests, repeated matches in one body and late statements
\* arrive.
ChangedIffRewritten ==
  \A m \in Matches :
    /\ rows[m] = None <=> writes[m] = 0
    /\ rows[m] # None => (rows[m].changed <=> writes[m] > 1)

\* The inputs of r that no later one of the same body overwrites.
LastWords(r) ==
  {i \in DOMAIN body[r] :
     \A j \in DOMAIN body[r] : j > i => body[r][j].match # body[r][i].match}

Stands(r, i) ==
  LET row == rows[body[r][i].match]
  IN row # None /\ row.pick = body[r][i].pick /\ row.at = at[r]

\* A submission answered with "ok" that met no other one stands as it was sent,
\* until another one comes: what the user was told is what is stored.
AcknowledgedStands ==
  \A r \in Requests : answer[r] = "ok" /\ rivals[r] = {} =>
    \A i \in LastWords(r) : Stands(r, i)

\* Whatever happens to it, a request comes to an end.
EveryRequestEnds == \A r \in Requests : pc[r] = "member" ~> pc[r] = "done"

-----------------------------------------------------------------------------
(* Why they hold: what is true between two awaits as well.                 *)

\* What the handler has read is no better than the best there has been.
GatesOK ==
  /\ parent.deadline <= latest.deadline
  /\ \A m \in Matches : kickoff[m] # None =>
       latest.kickoff[m] # None /\ kickoff[m] <= latest.kickoff[m]
  /\ \A r \in Requests :
       /\ pc[r] = "list" => at[r] < latest.deadline
       /\ pc[r] = "write" \/ adrift[r] # None => Timely(r)

\* A request that has not met s can only find s at rest.
RivalsOK ==
  \A r, s \in Requests :
    pc[r] # "idle" /\ s # r /\ Unsettled(s) => s \in rivals[r]

\* The inputs the loop is done with.
Passed(r) ==
  {i \in DOMAIN body[r] : answer[r] = "ok" \/ (pc[r] = "write" /\ i < next[r])}

\* Half way through the loop the same holds of the part that is done.
StandsOK ==
  \A r \in Requests : rivals[r] = {} =>
    \A i \in Passed(r) :
      (\A j \in Passed(r) : j > i => body[r][j].match # body[r][i].match)
        => Stands(r, i)

IInv ==
  /\ TypeOK /\ GatesOK /\ OnlyTimelyBatches
  /\ ChangedIffRewritten /\ RivalsOK /\ StandsOK

-----------------------------------------------------------------------------
(* What comments of the code say of it and the code does not do.           *)

\* submit_matches: "Validation runs over the whole batch before any write so a
\* partial failure cannot leave the caller with half-updated rows."
NoHalfUpdatedRows ==
  \A r \in Requests : answer[r] = "error" => wrote[r] = {}
=============================================================================
