# Fut Worlds Pickem: specifications

TLA+ models of the football pickem in this repository (a Telegram bot, an HTTP
API and an ingestion service around one PostgreSQL database), TLC configurations
that check them on small instances, and TLAPS proofs of all their safety
properties. Paths are relative to the repository.

```
football-data.org --> events: bootstrap, ingester --SQL--> PostgreSQL <--SQL-- api <-- Mini App
                               |                              ^
                               +--NATS: MatchFinished         +--SQL-- bot <--getUpdates-- Telegram
```

The parts share no memory. They meet in the tables, where every statement is a
transaction of its own unless the code opens one, and each of them awaits
between any two statements. Nearly everything that can go wrong here goes wrong
at such an await, so the models have one action for every stretch of code
between two of them.

## The system

| Component | State it keeps | Operations | What is hard | What makes it correct |
|---|---|---|---|---|
| Ingestion loop (`services/events/src/ingester/poll.rs`, `mod.rs`) | table `matches`; in memory the tick's payload, one match in hand, the report | a tick: fetch, then for every fixture look up, compare, upsert, publish; sleep fast or slow | upstream changes during a tick; any call fails; the process dies between upsert and publish; results before scores | a turn to finished is announced at most once, once without faults, after it is stored; the table catches up; live means the fast cadence |
| Bootstrap (`bootstrap.rs`, `bin/events_cli.rs`) | tables `tournaments`, `tournament_groups`, `knockout_phases`, `teams`, `tournament_group_teams` | ensure the tournament, the structure, the teams and their groups | no transaction; the daemon and the CLI at once; what a dead run leaves decides what the next one does | ids stand; phases after groups; the right ids in the index; the daemon gets through |
| Match predictions (`services/api/src/routes/predictions.rs`, `parents.rs`) | table `predictions` | membership, parent, fixtures, validation, one upsert per prediction | concurrent batches; kickoffs and deadlines that move; a failure among the upserts; a client that hangs up | only batches in time as a whole; the re-pick flag; an acknowledged batch stands |
| Best thirds and standings (`predictions.rs`, `best_thirds_predictions.rs`, `standings_predictions.rs`) | tables `best_thirds_predictions`, `group_standings_predictions` | membership, the global deadline both share, validation; DELETE + INSERTs in a transaction, or one upsert | READ COMMITTED snapshots, row locks, deadlock, a late upsert, the deadline read while groups are seeded | whole submissions; a lone request replaces; closed from the first kickoff on; no wait for ever |
| Bot (`services/bot/src/update_loop.rs`, `commands/`) | the offset in memory; tables `users`, `groups`, `group_members` | getUpdates, submit to the worker pool, `/start`, `/new_pickem`, `/join`, `/help`; `/play`, `/ranking` panic | redelivery after a crash; concurrent commands; a full pool; retries | no update is forgotten that no worker was given; one pickem per chat, its owner in it; true replies; it catches up |
| Throttle (`crates/telegram-client/src/throttle.rs`, `bot/src/main.rs`) | a bucket per chat, one for all | wait for a cell of each, send; the sweep of idle buckets | callers that overtake each other, two layers of waiting, a sweep at any moment | the limits hold over every stretch of time; every message goes out |
| Sports-data conversion (`football_data.rs`, `match_data.rs`) | none: pure | a match document to a row of `matches` | documents with parts missing, corrections, matches played again | no document sends the wrong team through |
| Scoring (`crates/domain/src/scoring`) | none: pure functions; `points_awarded` of a prediction | points of group matches, knockout matches, standings, best thirds; re-pick penalty | boundaries of integer arithmetic and of "exact"; predictions sent again | a prediction earns what the tables in the comments say of the match as it was played, and stands once it is scored |
| Mini App, matches tab (`frontend/miniapp/src/pages/predictions/MatchesTab.tsx`) | cached queries, the edits of a form, saves in flight | load, refetch, edit, save, invalidate; leave, enter, reopen | answers out of order; edits during a save; rows the user has not touched; an expired session | valid batches; edits are not lost; what was saved is shown |
| Scheduler, scorer, notification consumer, ranking | none | `todo!()` | | stubs |
| Mini App's other tabs, other reads, signature check, sports client, configuration, tracing, flags, infrastructure | | | | see "Not modelled" |

Two stubs matter to the rest. `scheduler::run` is a `todo!()`, polled by the
same `try_join!` as the ingester (`services/events/src/main.rs:35`), so the
events binary panics at start as it stands; `Ingester` and `Bootstrap` describe
the code as it is written, with a scheduler that waits. `/play` and `/ranking`
are `todo!()` too: in `Bot` they end their worker.

## The modules

**`MatchNotice`** is what a consumer may rely on: every turn of a match to
finished opens one right to a notice, which is used at most once or dropped.
**`Ingester`** is the daemon. `pc` is the await it is at, `payload` and `todo`
the fixtures of the tick, `cur` the locals of `process_match` (`prev`, `new`),
`report` the `TickReport` (as sets of matches, not counters), `wire` and
`emitted` what the NATS client has taken. A snapshot of a match is its status,
its score and its *fit*: whether the DTO maps to a row (`dto_to_match`) and
whether the table takes it. The order of the fixtures is arbitrary. `FeedChanges`
is upstream; `Crash` loses all but the table. `ImplementsMatchNotice` is the
refinement, with `owed` mapped to the match whose publication is next.

**`MatchPredictions`** is the endpoint for one user, one pickem and one parent,
with any number of requests. `RequireMembership`, `FindParent`, `ListMatches`
(which also reads the clock's `at` and validates the whole batch) and `Upsert`
are the stretches between awaits; `Drop` is a client that hangs up (hyper drops
the handler), whose statement may still `Land`. Around it `Tick`, `Join`,
`Ingest` (a kickoff moves) and `Reseed` (a bootstrap rewrites the parent's row).
Picks are opaque; the *fit* of an input says whether validation refuses it or a
foreign key does.

**`BestThirds`** has the two other endpoints of the user. Best thirds take a
transaction, which is there statement by statement: what each open transaction
has deleted and inserted, the snapshot its DELETE works on, who waits for whom
(`Blockers`), the deadlock detector, and what a rollback or a commit does to the
ones that wait. The standings of a group are one upsert (`UpsertOrder`), which
may also land when its client is gone. Both read the deadline with `ListActive`
(only rows still in the future, hence the minimum of those) and compare it with
the clock in `EnforceGlobalGroupDeadline`, while a bootstrap writes the groups'
deadlines one row at a time. The body of a request that was refused is forgotten.

**`ChatPickems`** is what the people of a chat may rely on from the bot: its
pickem is founded by one `/new_pickem` and never replaced, one gets in by `/join`
and never out, and a message is answered, if at all, with what is so at that time.
**`Bot`** is the loop, the pool and the handlers. Updates are numbered as
`update_id`s, `confirmed` is what Telegram has forgotten, `offset` the loop's
local variable, `work` the stretch each worker is about to run, `told` the
replies delivered. `Landed` is a statement whose reply was lost. A panic ends the
worker and frees its slot, which is what the external `rust_utils` pool is taken
to do. `ImplementsChatPickems` is the refinement: the two tables and the replies
as they are, the updates that were sent as what was asked; the loop, the pool,
the crashes and the users' rows are stutters.

**`Catalog`** is what a reader of the catalog may rely on while it is seeded: each
row is written once and keeps its id, and a row says that what comes before it
(tournament, groups, phases, teams, assignments) is complete.
**`Bootstrap`** is one run of the three functions for each seeder, the daemon
and `events-cli seed-tournament`. An id is the run that generated it. `index`,
`known` and `tid` are the ids a run goes by, which need not be the ones in the
tables. A foreign key refuses an assignment that names an id no row has
(`AssignRefused`). `ImplementsCatalog` is the refinement; the tables are the same
in both, and all the rest of a run is a stutter.

**`TwoBuckets`** is what the throttle comes down to: a leaky bucket per chat, one
for all, and for each sender the turn it holds in between.
**`Throttle`** is the decorator around the Telegram client. A call (`Call`)
takes a cell of the bucket of its chat (`AcquireChat`), then one of the bucket of
all (`AcquireGlobal`), goes out and returns. The buckets are `governor`'s (GCRA):
one is its *debt*, how far its theoretical arrival time is ahead of the clock,
and every `Tick` pays off one. A bucket without debt may be dropped (`Sweep`),
and a chat without a bucket has no debt. Waiting calls sleep and try again, so
they are not in a queue. The numbers of cells and messages of the last 0, 1, ...,
`Window` ticks are history. In `ImplementsTwoBuckets` a level is a debt and the
turn of a caller is the chat whose cell it has while it waits for the shared one;
a sweep, a new call and a return change nothing.

**`Scoring`** has the scoring rules as operators with the names of the Rust
functions, and **`Results`** is what they are for: the document upstream has for
one match (`doc`, made by `Document` from how the match really went, `game`, less
the part a *quirk* leaves out), the row the ingester makes of it (`Poll`, with
`resolve_scores` and `dto_to_match` of `football_data.rs` and the constraints of
the table), the prediction the user has sent (`Submit`), and the scorer. The
scorer itself is a `todo!()`; `Score` does what its comment asks for with what is
there: it takes the event, reads match and prediction, calls the scoring function
of the phase and records the points. One call of `Ingester` or `MatchPredictions`
is one step here; those modules leave the contents open, this one has them.

**`MiniApp`** is one `ParentSection` of the matches tab: the queries (`list`,
`data`, `fetch`), the `edits`, the saves with what they sent, and the server's
rows. A request is sent, handled and answered in three steps. Queries are
refetched in the background (`Refetch`), fail with their retry, and are asked
again after a save (`Invalidate`); react-query is external and modelled from how
the code uses it. The session expires (`MAX_AGE_SECS`), the ingester moves
matches and resolves teams, and the same user saves in another window. What was
saved before, or is saved there, is what some form may send (`IsOurs`): no winner
while the teams are not known (`Fits`), as there is no control for it.

The `MC*` modules give the constants for TLC, and the `*Proofs` modules hold the
theorems. `PROJECT.json` maps every definition
to the lines it stands for.

## Bounds

| Run | Instance | Why it is enough |
|---|---|---|
| `MCIngester` | 2 matches, 2 ids, 2 scores, 7 snapshots, 2 upstream changes, 1 fault | an event needs one match, the report and a fresh id a second; two changes take a match to finished, back and again, or correct a result; a fault at any await |
| `MCMatchPredictions` | 2 requests, 2 matches, 2 picks, 5 bodies, 2 instants, 1 move, 1 fault | two batches overlap on one or two matches, a body names a match twice, fails validation or a foreign key; before and at a kickoff; a kickoff or deadline moves once |
| `MCBestThirds` | 2 requests, 2 of 4 teams (instead of 8), 2 groups of 2, 7 bodies, 2 instants, 1 move, 1 fault | sets that are equal in the other order, disjoint, partly stored, unknown; orders that are reversed or of another group; a bootstrap half way through two groups |
| `MCBot` | 1 chat, 2 users, 5 messages, 3 updates, 2 workers (instead of 8), 2 attempts (instead of 5), 1 fault | two creators and a joiner at once; one update more than the pool takes; a crash at every step; retries used up |
| `MCBootstrap` | daemon and CLI, 2 groups, 2 phases, 2 teams, 3 runs each, 1 fault | every overlap of two runs, a death at any step and what two later runs make of it |
| `MCResults` | 6 courses of a match, 30 predictions (18 of them pass the validation), an i32 of 3 bits, 2 rules, 9 quirks, 3 kickoffs, 3 instants, 2 moves | draws and wins in 90 minutes, in extra time and on penalties; every bucket; drawn predictions with and without a winner and a shootout; a rule whose exact points are no others' and one whose are; a difference of goals that wraps around; a part of the document missing, put right, a match moved or played again |
| `MCMiniApp` | a knockout phase of 2 matches, 5 changes of a control, an i32 of 2 bits, 2 earlier predictions, 2 saves, 2 events, 2 instants | a draw with a shootout that is turned into a win and back; two saves with a refetch between them; a number that is no i32; a failure, a move or another window at any step; the session and the deadline end or do not. A group's form is that of a knockout without two controls |
| `MCThrottle` | 2 senders of 2 messages, a private chat with a burst of 2 and a group without, a window of 3 ticks | two calls that wait for the same bucket, or for different ones and then for the shared one; a sweep at any step. The default limits have no burst in a group or private chat |

Every bound is a constant (`MaxFeedChanges`, `MaxFaults`, `MaxTime`, `MaxMoves`,
`MaxUpdates`, `MaxRuns`, `MaxEvents`, `MaxSaves`, `MaxCalls`) and stands in the
guard of the action it limits; `Window` bounds what `Throttle` remembers. The
theorems hold for every value of them. The liveness properties are
therefore of the kind "once changes and faults cease", `EverySendGoesOut` of the
kind "among finitely many messages".

## What the runs show

`MCIngester`: `AtMostOncePerTurn` (no event twice, through restarts),
`NothingLostWithoutFaults`, `EventsNameStoredRows`, `AnnounceFollowsStore`,
`NoLiveRowPolledSlowly`, `ImplementsMatchNotice`, and `EventuallySynced` under
fairness.
`MCMatchPredictions`: `OnlyTimelyBatches`, `ChangedIffRewritten`,
`AcknowledgedStands`, `EveryRequestEnds`.
`MCBestThirds`: `WholeSubmissionsOnly`, `AcknowledgedReplaces`,
`LockedFromKickoffOn`, `EveryRequestEnds` (deadlocks are broken).
`MCBot`: `ImplementsChatPickems`, `RepliesTrue`, `ForgottenMeansSubmitted`,
`CatchesUp`; that an owner is a member is in its `TypeOK`.
`MCBootstrap`: `CanonicalTournament`, `SoloRunIsRight`, `ImplementsCatalog` (why
the code may take one group for all the groups and phases, whatever died or ran
beside it) and `DaemonGetsReady`.
`MCResults`: `ScoredAsPlayed` (the code's chain of conversions against
`ByTheTable`, the points the comments' tables give for the match as it was
played; as in the code's comment, exact is what earns the points of the exact
score), `RightTeamAdvances` (whatever the document lacks, the row names the
winner or nobody) and `ScoredStands` (a scored prediction is not written again,
unless upstream brought the match forward before the deadline of its parent,
which nobody moves with it).
`MCMiniApp`: `BatchesAreValid`, `EditsStand`, `SavedIsShown` and
`UntouchedIsRepicked`: a save stores every row of the form as the window last
read it, the untouched ones included, with a missing winner filled in at most, and
each of them counts as changed from then on. The run has saves that do so to a
row another window has changed since.
`MCThrottle`: `ImplementsTwoBuckets` (dropping an idle bucket gives nobody room),
`Paced` and `EverySendGoesOut`. `Paced` has a term for the callers
that wait for the shared bucket with the cell of their chat in hand: their
messages may bunch, by no more than their number. With one less the property is
violated.
Every module but `Throttle` and `Scoring` has a type invariant that also says
where its control can be.

Four runs show where a comment says one thing and the code does another:

| Run | The comment | What happens |
|---|---|---|
| `MCIngester_DeferredIsRetried` | `poll.rs:186` "the next tick retries" | the tick that defers has stored the row as finished: there is no transition left to announce |
| `MCMatchPredictions_NoHalfUpdatedRows` | `predictions.rs:72` "cannot leave the caller with half-updated rows" | the second upsert fails, the first stays |
| `MCBootstrap_ReadyMeansAssigned` | `bootstrap.rs:368` "make sure ... populated" | one team is taken for the whole catalog after a run that died |
| `MCMiniApp_RefetchesKeepEdits` | `MatchesTab.tsx:10` "background refetches do not clobber in-progress edits" | the list of active groups or knockouts fails to refresh, its error takes the place of the sections, and the edits are gone |

The models have other such traces, which no run of their own is spent on:

* two concurrent replaces of the best thirds may store the union of their sets
  (`best_thirds_predictions.rs:10` promises "stored set == requested set";
  `WholeSubmissionsOnly` says what does hold);
* saving the same prediction twice sets `was_changed`
  (`ChangedIffRewritten`; `penalty.rs:15` says "ever changed");
* the matches tab does that to every row: `onSubmit` (`MatchesTab.tsx:152`) sends
  all complete rows that are not locked with every save, so a user who has
  predicted a whole parent and corrects one match pays the re-pick penalty (25 %
  unless the rule says otherwise) on all the others, which nobody rewrote
  (`penalty.rs:15` "ever changed", `prediction.rs:27` "rewritten"). With the same
  save the window puts what it last read over what the user has stored elsewhere
  since. `UntouchedIsRepicked` states both;
* with a rule by which another bucket pays as much as the exact one, the combo is
  paid for a score that is not exact (`knockout_match.rs:132`; the comment above
  it means that, line 11 of the file says "reg=exact");
* neither the form nor the API limits the goals. A number that is no i32 makes the
  API refuse the whole batch it is in before `submit_matches` begins
  ("unreadable"; `parseScore`, `MatchesTab.tsx:336`), and two i32 whose difference
  is none have the wrong sign in a release build and end the scorer in a debug
  build (`group_match.rs:41`). Without its condition on the difference
  `ScoredAsPlayed` is violated;
* the shared bucket has its burst on top of its rate, both 25 by default (a
  `governor` quota's), so that after a pause nearly 50 messages may go out within
  a second; `throttle.rs:42` speaks of a ceiling of 30. `Paced` is about what the
  buckets do;
* a match that is brought forward while its parent is open, scored, annulled and
  set for a later day may be predicted again after it was scored, and standings
  and best thirds are open while the first match is played: the deadline is not
  moved with the matches (`bootstrap.rs:344`). `ScoredStands` and
  `LockedFromKickoffOn` leave that out;
* a crash before the next `getUpdates` makes the bot handle an update again
  (`update_loop.rs:14` speaks of at-most-once);
* the loser of two `/new_pickem` is told that something went wrong, although
  `groups.rs:24` has the caller tell him that there is a pickem;
* of the three rules the comment of `0007_predictions_v2.sql` lists, the CHECK
  lets a NULL winner pass the first, and has nothing of the third
  (`KnockoutConsistency` is the CHECK as it is);
* in the matches tab an edit made while a save is in flight is dropped with the
  edits the save has stored (`EditsStand` says so), and a form that is left while
  it saves may, when it is entered again, show what an older fetch brought until
  the next one.

`CHECK_DEADLOCK FALSE` stands where the environment's bounds let the system
rest: all requests answered, all updates handled, all runs ended. The ingester
never stops and is checked for deadlock.

## Fairness

* `Ingester`: weak fairness of the daemon as one process. It is a single task;
  every call returns or fails, and the container restarts it (`Boot`). Failures,
  crashes and upstream are not fair.
* `MatchPredictions`, `BestThirds`: weak fairness of each request's handler, a
  task of its own. Calls return: the pool has an acquire timeout (`pool.rs`), a
  statement waits only for locks, which end with their transaction or in the
  deadlock detector. Clients, the clock and the schedule are not fair.
* `Bot`: weak fairness of the loop and of each worker; the container restarts
  the process. Users write when they like.
* `Bootstrap`: weak fairness of each run and of the daemon's start. Nobody
  restarts the CLI.
* `Throttle`: weak fairness of the clock and of each caller, which wakes up when
  its wait is over and tries again. It may find the cell taken, also again and
  again; as the messages of a run are finitely many it is overtaken finitely
  often. For endless traffic `EverySendGoesOut` is not claimed.
* `Results`, `MiniApp`: none; their properties are of safety.

Where two actors compete for one thing only weak fairness is assumed, so no
property rests on one of them winning.

## What is proved

Every safety property of the passing runs, with TLAPS, for every value of the
constants that the module's assumptions allow:

| Module | Theorems | Of the run's properties |
|---|---|---|
| `IngesterProofs` | `TypesHold`, `AnnouncedAtMostOncePerTurn`, `AnnouncedWithoutFaults`, `EventsReferToRows`, `LiveMeansFast`, `StoreBeforeAnnounce`, `Refinement` | all but `EventuallySynced` |
| `MatchPredictionsProofs` | `TypesHold`, `BatchesInTime`, `FlagCountsWrites`, `Acknowledged` | all but `EveryRequestEnds` |
| `BestThirdsProofs` | `TypeCorrectness`, `WholeSubmissions`, `AcknowledgedIsStored`, `GateLocks` | all but `EveryRequestEnds` |
| `BotProofs` | `TypeCorrectness`, `NothingForgotten`, `TrueReplies`, `StagesFitCommands`, `Refinement`, `PickemsStand` | all but `CatchesUp` |
| `BootstrapProofs` | `TypeCorrectness`, `RowsKeepTheirIds`, `TournamentIsCanonical`, `GroupsComeFirst`, `SoloRunsAreRight`, `Refinement` | all but `DaemonGetsReady` |
| `ResultsProofs` | `TypeCorrectness`, `WinnersAdvance`, `PlayedIsScored`, `PointsStand` | all |
| `MiniAppProofs` | `TypeCorrectness`, `NothingToRefuse`, `SavedShows`, `EditsAreKept`, `RepeatsAreRepicks` | all |
| `ThrottleProofs` | `PaceIsKept`, `Refinement` | all but `EverySendGoesOut` |

`PickemsStand`, `RowsKeepTheirIds` and `GroupsComeFirst` say on the state of `Bot`
and `Bootstrap` what a reader may want to cite without the abstract module; no run
spends a property of its own on them.

Hardly any of the properties is inductive. What each proof adds, and why:

* `IngesterProofs`: `AtMostOncePerTurn` is not inductive: while an event is in
  hand the turn is counted and the event is not. `AccountsOK` counts the one in
  flight, `HandOK` says that the locals of `process_match` agree with the row
  (nobody else writes it), `CadenceOK` does for the fixtures a tick is done with
  what the property says when it has ended. The refinement maps each action to a
  step or a stutter of `MatchNotice`.
* `MatchPredictionsProofs`: `AcknowledgedStands` needs to know that a request met
  by nobody finds nobody at work (`RivalsOK`) and that half way through the loop
  the same holds of the part that is done (`StandsOK`); `OnlyTimelyBatches` needs
  what each gate has seen (`GatesOK`), against the latest deadline and kickoffs so
  far, because the ones that were read may have moved since.
* `BestThirdsProofs`: a commit takes away what its transaction has deleted, which
  may be part of what others have stored. So the invariant speaks of what is left
  of the table when any set of open transactions have had their DELETE (`Wholes`:
  whole submissions all the same), of what one transaction carries and holds
  (`Local`, `Held`), of a request that has met no other (`Alone`), and of any two:
  no row is held by both (`Apart`). `Deadlines` bounds what a request can have
  read while the groups are written one by one.
* `BotProofs`: `TablesInv` follows each handler from what it has found to what it
  may tell people, given that rows are only added (`TablesGrow`); `LoopInv` relates
  offset, batch and workers to what Telegram may forget, and `PoolOK` counts the
  updates that occupy a worker. The refinement needs `CommandsInv` besides: which
stages a worker can be at, and which replies it can have in hand, for the command
of its update; `WritesRefine` and `RepliesRefine` are its steps, all others
stutter.
* `BootstrapProofs`: invariants that each build on the ones before: where a
  run's loops are (`Typed`), the tournament it goes by (`GoesByInv`), that it has
  passed a list only when the table has a row for each element (`SeedingInv`), and,
  for a run that met no other, that its ids are those of the rows, and that the
  assignments are complete unless something failed (`SoloInv`). The refinement
rests on two more: what a run that is writing one table is past is complete in
the tables (`BuildingInv`), and a team that is assigned is in a group it belongs
to, by that group's id (`DrawInv`), so that a later upsert puts it where it is.
* `ResultsProofs`: the conversion of a document has a lemma for every part that may
  be missing; the points are compared with `ByTheTable` by cases on the phase and
  on how the match ended, over all scores whose differences fit (`DifferencesFit`:
  goals of a real match do). `DocOK` says that the document is of
  the game, `PredOK` that the prediction obeys the CHECK, `LateOK` that nothing is
  scored before the deadline.
* `MiniAppProofs`: `EditsOK` keeps the winner's controls consistent with the
  scores typed above them, on top of anything the server may answer (`RowsOK`,
  `AnswersOK`); `LogOK` says that each save still tells what was typed or repeats
  what was not; `HeardOK` that, once the window has heard of the save that wrote a
  row last, a fetch that has been read has that row, and data that has not is
  marked to be fetched again; `BackedInv` that a prediction the window has read, or
  a save was made from, is of a row that is still there, so that sending it again
  is a change.
* `ThrottleProofs`: a cell adds a period to a bucket's debt, a tick takes one off,
  and the debt never passes a burst. So a period for every cell of the last w ticks
  is at most the debt of now and w (`CellsPaid`, `SentPaid`); a message that is out
  has had its cell, and so has every caller that waits with one (`WireBacked`). The
same invariant carries the refinement of `TwoBuckets`.

TLC finds each of these invariants true on the instance of the module's run, too.

The assumptions: `ConstantsAssumption` of each module gives the types of the
parameters (what requests, documents and users may bring, which rows there may be
to begin with, bounds in `Nat`) and has `None` differ from the values it stands
beside; in `Results` that is `NoneAssumption`. `WidthAssumption` of `Scoring` has
the width of an i32 positive. The games of `Results` have i32 goals, and its
predictions i32 of either sign. `FeedAssumption` of `Bootstrap`
says that the lists are not empty, that no code is there twice and that the
fixtures put a team into one group; `RunsAssumption` that one of the seeders is
the daemon. `Earlier` of `MiniApp` has what a form may have sent before: anything
else would come back from the server and could be sent again untouched. TLC
evaluates all of them.

Only model-checked are the liveness properties (`EventuallySynced`,
`EveryRequestEnds` twice, `CatchesUp`, `DaemonGetsReady`, `EverySendGoesOut`): the
prover has no rules for `ENABLED`, and so none for fairness. Their runs show them
on the instances above. The four disagreements with a comment are
counterexamples, which TLC finds.

## Not modelled, and why

* Scheduler, notifier, rankings: stubs. The scorer is one, too; `Results` has the
  one its comment describes, and `MatchNotice` what it may rely on.
* The Mini App's tabs for standings and best thirds: the same pattern of edits
  over defaults, without reading back what is stored; `BestThirds` takes whatever
  they may send. The device's clock is taken to be right.
* Other reads write nothing. The signature of initData is checked without state
  and taken to hold; its age is in `MiniApp`.
* Flags, labels and country codes are strings; the lists of assignments made of
  them are constants of `Bootstrap`.
* The GCRA buckets, the worker pool and react-query are libraries, modelled from
  how the code uses them and marked external.
* Sports client: its retries end in an answer or an error (`Fetch`,
  `FetchFails`). Core NATS is not followed beyond the client that takes the
  message, as nothing consumes it.
* Configuration, tracing, deployment: no state. The restart policy is in the
  fairness.

## Plan

In the order of what matters most to a player's points:

1. `MatchNotice`, `Ingester` and its proofs: done.
2. `MatchPredictions` and its proofs: done.
3. `BestThirds` (both endpoints), `Bot`, `Bootstrap`, `Throttle` and their proofs:
   done.
4. `Scoring` and, on it, `Results`, which composes upstream, ingester, endpoint
   and scorer, and its proofs: done.
5. `MiniApp` and its proofs: done.
6. Abstract specifications and their refinements: `MatchNotice` of `Ingester`,
   `ChatPickems` of `Bot`, `Catalog` of `Bootstrap`, `TwoBuckets` of `Throttle`:
   done.
7. Proofs of every safety property: done. Liveness stays with TLC.

There is one passing run per module and one run per disagreement with a comment
that a player would notice.
