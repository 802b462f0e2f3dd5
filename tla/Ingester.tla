------------------------------ MODULE Ingester ------------------------------
(***************************************************************************)
(* The ingestion daemon of services/events: a loop that fetches every      *)
(* fixture of the tournament from the upstream feed, upserts the ones that *)
(* changed into the table `matches`, and publishes MatchFinished when a    *)
(* stored match turns finished.  One tick is several awaits long, the      *)
(* upstream keeps moving meanwhile, any call may fail and the process may  *)
(* die between any two of them; everything but the table is then lost.     *)
(***************************************************************************)
EXTENDS Naturals

CONSTANTS
  Matches,         \* upstream match ids (MatchDto.id, matches.external_id)
  Ids,             \* row ids (matches.id)
  Scores,          \* results a feed may carry
  FeedSnapshots,   \* what upstream may say of a match at some moment
  None,            \* no row, no score, no match in hand
  MaxFeedChanges,  \* bound: changes upstream makes after the start
  MaxFaults        \* bound: failed calls and crashes

Status == {"scheduled", "timed", "in_play", "paused", "finished",
           "suspended", "postponed", "cancelled", "awarded"}
Live == {"in_play", "paused"}

\* What becomes of a snapshot whatever the state: it is stored; it has no
\* parent in the indexes or no readable kickoff ("unmapped"); or the row built
\* from it breaks a CHECK or a foreign key of the table ("rejected").
Fit == {"good", "unmapped", "rejected"}

Snapshot == [status : Status, score : Scores \cup {None}, fit : Fit]
Row      == [id : Ids, status : Status, score : Scores \cup {None}]
Work     == [match : Matches, prev : Row \cup {None}, new : Row, fit : Fit]
Event    == [match : Matches, id : Ids, score : Scores]
Report   == [ok : BOOLEAN, live : SUBSET Matches, skipped : SUBSET Matches]

ASSUME ConstantsAssumption ==
  /\ FeedSnapshots \subseteq Snapshot
  /\ None \notin Row
  /\ None \notin Scores
  /\ None \notin Work
  /\ None \notin [Matches -> Snapshot]
  /\ MaxFeedChanges \in Nat
  /\ MaxFaults \in Nat

VARIABLES
  feed,      \* what upstream would answer now
  rows,      \* the table `matches`
  pc,        \* where the daemon is
  payload,   \* the answer the running tick works on (None between ticks)
  todo,      \* the DTOs of the payload not processed yet
  cur,       \* process_match's locals, between its awaits
  report,    \* TickReport, with the matches it counts
  wait,      \* the sleep the last tick chose
  wire,      \* the MatchFinished events the NATS client has taken
  emitted,   \* history: how many it has taken for each match
  turns,     \* history: how often each row turned finished, with a score
             \* or without
  changes, faults

daemon == <<pc, payload, todo, cur, report, wait>>
table  == <<rows, turns>>
bus    == <<wire, emitted>>
vars   == <<feed, rows, pc, payload, todo, cur, report, wait, wire, emitted,
            turns, changes, faults>>

EmptyReport == [ok |-> FALSE, live |-> {}, skipped |-> {}]

Init ==
  /\ feed \in [Matches -> FeedSnapshots]
  /\ rows = [m \in Matches |-> None]
  /\ pc = "down"
  /\ payload = None
  /\ todo = {}
  /\ cur = None
  /\ report = EmptyReport
  /\ wait = "slow"
  /\ wire = {}
  /\ emitted = [m \in Matches |-> 0]
  /\ turns = [m \in Matches |-> [scored |-> 0, unscored |-> 0]]
  /\ changes = 0
  /\ faults = 0

-----------------------------------------------------------------------------
(* The table.                                                              *)

\* Mutant: a known score is never overwritten.
KeepScore(old, new) ==
  IF old = None THEN new
  ELSE [new EXCEPT !.id = old.id,
                   !.score = IF old.score = None THEN new.score ELSE old.score]

\* INSERT ... ON CONFLICT (external_id) DO UPDATE: everything but the id.
Overwrite(old, new) == IF old = None THEN new ELSE [new EXCEPT !.id = old.id]

IsFinished(row) == row # None /\ row.status = "finished"

\* The history of one write: did this row turn finished, and with a score?
CountTurn(count, old, new) ==
  IF IsFinished(old) \/ ~IsFinished(new) THEN count
  ELSE IF new.score = None THEN [count EXCEPT !.unscored = @ + 1]
  ELSE [count EXCEPT !.scored = @ + 1]

UpsertRow(m, new) ==
  LET row == Overwrite(rows[m], new) IN
  /\ rows' = [rows EXCEPT ![m] = row]
  /\ turns' = [turns EXCEPT ![m] = CountTurn(@, rows[m], row)]

-----------------------------------------------------------------------------
(* process_match, one action per stretch between two awaits.               *)

UsedIds == {rows[m].id : m \in {n \in Matches : rows[n] # None}}
             \cup {e.id : e \in wire}

FreshIds == Ids \ UsedIds

\* Mutant: every DTO gets a new uuid.
AlwaysFreshIds(prev) == FreshIds

\* prev.id, or a new uuid for a match never stored.
MatchIds(prev) == IF prev = None THEN FreshIds ELSE {prev.id}

DtoToMatch(dto, id) == [id |-> id, status |-> dto.status, score |-> dto.score]

\* Mutant: the prior status is not looked at.
NoPriorCheck(prev, new) == new.status = "finished"
\* Mutant: a match first seen finished (the None arm) is no transition.
NoFirstSight(prev, new) ==
  /\ new.status = "finished"
  /\ prev # None /\ prev.status # "finished"

IsFinishedTransition(prev, new) ==
  /\ new.status = "finished"
  /\ prev = None \/ prev.status # "finished"

\* Mutant: only the status is compared.
SameStatus(prev, new) == prev # None /\ prev.status = new.status

\* prev.as_ref() == Some(&new_match)
Unchanged(prev, new) == prev = new

\* poll_once's accounting of Ok(outcome) and of Err(_) for one DTO.
CountOk(m, status) ==
  IF status \in Live THEN [report EXCEPT !.live = @ \cup {m}] ELSE report
CountErr(m) == [report EXCEPT !.skipped = @ \cup {m}]

\* process_match returns: the loop of poll_once takes the next DTO.
Return(m, counted) ==
  /\ pc' = "next"
  /\ todo' = todo \ {m}
  /\ cur' = None
  /\ report' = counted
  /\ UNCHANGED <<payload, wait>>

Fault == faults < MaxFaults /\ faults' = faults + 1

\* No parent, or no readable kickoff: an error before any write.
SkipUnmapped(m) ==
  /\ pc = "next" /\ m \in todo
  /\ payload[m].fit = "unmapped"
  /\ Return(m, CountErr(m))
  /\ UNCHANGED <<feed, table, bus, changes, faults>>

FindByExternalFails(m) ==
  /\ pc = "next" /\ m \in todo
  /\ payload[m].fit # "unmapped"
  /\ Fault
  /\ Return(m, CountErr(m))
  /\ UNCHANGED <<feed, table, bus, changes>>

\* Mutant: the early return forgets status_after.
SkipUnchangedUncounted(m) ==
  /\ pc = "next" /\ m \in todo
  /\ payload[m].fit = "good"
  /\ rows[m] # None
  /\ Unchanged(rows[m], DtoToMatch(payload[m], rows[m].id))
  /\ Return(m, report)
  /\ UNCHANGED <<feed, table, bus, changes, faults>>

\* The prior row is read and equals the new one: nothing is written.  (A row
\* the table would reject differs from every stored one.)
SkipUnchanged(m) ==
  /\ pc = "next" /\ m \in todo
  /\ payload[m].fit = "good"
  /\ rows[m] # None
  /\ Unchanged(rows[m], DtoToMatch(payload[m], rows[m].id))
  /\ Return(m, CountOk(m, payload[m].status))
  /\ UNCHANGED <<feed, table, bus, changes, faults>>

FindByExternal(m) ==
  /\ pc = "next" /\ m \in todo
  /\ payload[m].fit # "unmapped"
  /\ \E id \in MatchIds(rows[m]) :
       LET new == DtoToMatch(payload[m], id) IN
       /\ payload[m].fit = "good" => ~Unchanged(rows[m], new)
       /\ cur' = [match |-> m, prev |-> rows[m], new |-> new,
                  fit |-> payload[m].fit]
  /\ pc' = "upsert"
  /\ UNCHANGED <<feed, table, bus, payload, todo, report, wait, changes, faults>>

\* Mutant: the scores are not looked at before the publish.
UpsertUndeferred ==
  /\ pc = "upsert" /\ cur.fit = "good"
  /\ UpsertRow(cur.match, cur.new)
  /\ IF IsFinishedTransition(cur.prev, cur.new)
     THEN /\ pc' = "publish"
          /\ UNCHANGED <<payload, todo, cur, report, wait>>
     ELSE Return(cur.match, CountOk(cur.match, cur.new.status))
  /\ UNCHANGED <<feed, bus, changes, faults>>

\* The row is written.  What follows it: nothing, nothing because the scores
\* have not landed ("deferred"), or the publish.
Upsert ==
  /\ pc = "upsert" /\ cur.fit = "good"
  /\ UpsertRow(cur.match, cur.new)
  /\ IF IsFinishedTransition(cur.prev, cur.new) /\ cur.new.score # None
     THEN /\ pc' = "publish"
          /\ UNCHANGED <<payload, todo, cur, report, wait>>
     ELSE Return(cur.match, CountOk(cur.match, cur.new.status))
  /\ UNCHANGED <<feed, bus, changes, faults>>

\* The table refuses the row.
UpsertRejected ==
  /\ pc = "upsert" /\ cur.fit = "rejected"
  /\ Return(cur.match, CountErr(cur.match))
  /\ UNCHANGED <<feed, table, bus, changes, faults>>

\* The call fails: before the statement ran, or after it committed and only
\* its reply was lost.
UpsertFails ==
  /\ pc = "upsert" /\ cur.fit = "good"
  /\ Fault
  /\ UNCHANGED table \/ UpsertRow(cur.match, cur.new)
  /\ Return(cur.match, CountErr(cur.match))
  /\ UNCHANGED <<feed, bus, changes>>

FinishedEvent ==
  [match |-> cur.match, id |-> cur.new.id, score |-> cur.new.score]

Publish ==
  /\ pc = "publish"
  /\ wire' = wire \cup {FinishedEvent}
  /\ emitted' = [emitted EXCEPT ![cur.match] = @ + 1]
  /\ Return(cur.match, CountOk(cur.match, cur.new.status))
  /\ UNCHANGED <<feed, table, changes, faults>>

PublishFails ==
  /\ pc = "publish"
  /\ Fault
  /\ Return(cur.match, CountErr(cur.match))
  /\ UNCHANGED <<feed, table, bus, changes>>

-----------------------------------------------------------------------------
(* poll_once and the driver's loop.                                        *)

\* Bootstrap is done (its own story): the first tick fires at once.
Boot ==
  /\ pc = "down"
  /\ pc' = "fetch"
  /\ UNCHANGED <<feed, table, bus, payload, todo, cur, report, wait, changes,
                 faults>>

Fetch ==
  /\ pc = "fetch"
  /\ pc' = "next"
  /\ payload' = feed
  /\ todo' = Matches
  /\ report' = [EmptyReport EXCEPT !.ok = TRUE]
  /\ UNCHANGED <<feed, table, bus, cur, wait, changes, faults>>

FetchFails ==
  /\ pc = "fetch"
  /\ Fault
  /\ pc' = "sleep"
  /\ report' = EmptyReport
  /\ wait' = "slow"
  /\ UNCHANGED <<feed, table, bus, payload, todo, cur, changes>>

EndTick ==
  /\ pc = "next" /\ todo = {}
  /\ pc' = "sleep"
  /\ payload' = None
  /\ wait' = IF report.live # {} THEN "fast" ELSE "slow"
  /\ UNCHANGED <<feed, table, bus, todo, cur, report, changes, faults>>

Wake ==
  /\ pc = "sleep"
  /\ pc' = "fetch"
  /\ UNCHANGED <<feed, table, bus, payload, todo, cur, report, wait, changes,
                 faults>>

\* The process dies; the table and what NATS has taken survive it.
Crash ==
  /\ pc # "down"
  /\ Fault
  /\ pc' = "down"
  /\ payload' = None /\ todo' = {} /\ cur' = None
  /\ report' = EmptyReport /\ wait' = "slow"
  /\ UNCHANGED <<feed, table, bus, changes>>

\* Upstream moves: scores are corrected, results are taken back, at any time.
FeedChanges(m) ==
  /\ changes < MaxFeedChanges
  /\ changes' = changes + 1
  /\ \E s \in FeedSnapshots \ {feed[m]} : feed' = [feed EXCEPT ![m] = s]
  /\ UNCHANGED <<table, bus, daemon, faults>>

ProcessMatch ==
  \/ \E m \in todo : SkipUnmapped(m) \/ SkipUnchanged(m) \/ FindByExternal(m)
  \/ Upsert \/ UpsertRejected \/ Publish

Daemon == Boot \/ Fetch \/ ProcessMatch \/ EndTick \/ Wake

Failure ==
  \/ \E m \in todo : FindByExternalFails(m)
  \/ UpsertFails \/ PublishFails \/ FetchFails \/ Crash

Next == Daemon \/ Failure \/ \E m \in Matches : FeedChanges(m)

Spec == Init /\ [][Next]_vars

\* Every await of the loop ends (requests time out, sleeps expire) and the
\* container restarts after a crash; faults and upstream changes are left free.
FairSpec == Spec /\ WF_vars(Daemon)
-----------------------------------------------------------------------------
(* What the ingester promises.                                             *)

\* Types of the table, of the daemon's locals and of the history; process_match
\* has a match in hand exactly between its lookup and its return, and scores in
\* hand when it comes to the publish.
TypeOK ==
  /\ feed \in [Matches -> Snapshot]
  /\ rows \in [Matches -> Row \cup {None}]
  /\ pc \in {"down", "fetch", "next", "upsert", "publish", "sleep"}
  /\ payload \in [Matches -> Snapshot] \cup {None}
  /\ todo \subseteq Matches
  /\ cur \in Work \cup {None}
  /\ report \in Report
  /\ wait \in {"fast", "slow"}
  /\ wire \subseteq Event
  /\ emitted \in [Matches -> Nat]
  /\ turns \in [Matches -> [scored : Nat, unscored : Nat]]
  /\ changes \in 0..MaxFeedChanges
  /\ faults \in 0..MaxFaults
  /\ (cur # None) <=> pc \in {"upsert", "publish"}
  /\ (payload # None) <=> pc \in {"next", "upsert", "publish"}
  /\ pc = "publish" => cur.new.score # None

\* A match is never announced more often than its row turned finished with a
\* score: no event from re-reading the same payload, none twice, none across a
\* restart ("idempotent", poll_once's doc).
AtMostOncePerTurn == \A m \in Matches : emitted[m] <= turns[m].scored

\* As long as no call failed and the process did not die, every turn with a
\* score is announced before the next DTO is taken.
NothingLostWithoutFaults ==
  faults = 0 /\ pc # "publish" =>
    \A m \in Matches : emitted[m] = turns[m].scored

\* The match_id of every event ever published is the id of the match's row:
\* predictions point at that row (the reuse of prev.id in process_match).
EventsNameStoredRows ==
  \A e \in wire : rows[e.match] # None /\ rows[e.match].id = e.id

\* An event goes out only when the row is stored as finished, and with the score
\* the row holds: whoever reads the table on its arrival finds that result.
AnnounceFollowsStore ==
  [][\A m \in Matches : emitted'[m] # emitted[m] =>
       /\ IsFinished(rows[m])
       /\ [match |-> m, id |-> rows[m].id, score |-> rows[m].score] \in wire']_vars

\* After a tick in which nothing was skipped, a match stored as live means the
\* fast cadence, the ticks that wrote nothing included (the driver's doc).
NoLiveRowPolledSlowly ==
  pc = "sleep" /\ report.ok /\ report.skipped = {} /\ wait = "slow" =>
    \A m \in Matches : rows[m] = None \/ rows[m].status \notin Live

Synced ==
  \A m \in Matches : feed[m].fit = "good" =>
    /\ rows[m] # None
    /\ rows[m].status = feed[m].status
    /\ rows[m].score = feed[m].score

\* Once upstream and the faults come to rest, the table comes to say what the
\* feed says and stays so, whatever stale payload or half tick was in progress.
EventuallySynced == <>[]Synced

Notice == INSTANCE MatchNotice WITH
  finished <- {m \in Matches : IsFinished(rows[m])},
  owed     <- IF pc = "publish" THEN {cur.match} ELSE {},
  notices  <- emitted

\* The daemon implements MatchNotice: each turn opens one right to announce,
\* which a publish uses up and a failure or a crash forfeits.
ImplementsMatchNotice == Notice!Spec

-----------------------------------------------------------------------------
(* Why they hold: what is true between two awaits as well.                 *)

\* The locals of process_match agree with the table: nobody else writes a row
\* between the lookup and the publish.
HandOK ==
  /\ pc \in {"upsert", "publish"} => cur.match \in todo
  /\ pc = "upsert" => /\ cur.prev = rows[cur.match]
                      /\ cur.prev # None => cur.new.id = cur.prev.id
  /\ pc = "publish" => /\ rows[cur.match] = cur.new
                       /\ cur.new.status = "finished"

InFlight(m) == IF pc = "publish" /\ cur.match = m THEN 1 ELSE 0

AccountsOK ==
  \A m \in Matches :
    /\ emitted[m] + InFlight(m) <= turns[m].scored
    /\ faults = 0 => emitted[m] + InFlight(m) = turns[m].scored

\* Of the matches a tick is done with, those it did not skip are counted live if
\* their row is.
CadenceOK ==
  /\ pc \in {"next", "upsert", "publish", "sleep"} =>
       \A m \in Matches \ (todo \cup report.skipped) :
         report.ok /\ rows[m] # None /\ rows[m].status \in Live => m \in report.live
  /\ pc = "sleep" /\ report.ok => /\ todo = {}
                                  /\ wait = "slow" => report.live = {}

IInv == TypeOK /\ HandOK /\ AccountsOK /\ EventsNameStoredRows /\ CadenceOK

-----------------------------------------------------------------------------
(* What comments of the code say of it and the code does not do.           *)

\* poll.rs on a finished match without scores: "Defer emission rather than
\* publish a misleading 0-0; the next tick retries."  Without any fault, then, a
\* row that is finished and scored when a tick ends has been announced.
DeferredIsRetried ==
  faults = 0 /\ pc = "sleep" =>
    \A m \in Matches :
      IsFinished(rows[m]) /\ rows[m].score # None => emitted[m] > 0
=============================================================================
