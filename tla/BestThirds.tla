----------------------------- MODULE BestThirds -----------------------------
(***************************************************************************)
(* POST /api/predictions/best-thirds and /standings of services/api, for   *)
(* one user and one pickem: membership, the global deadline, validation of *)
(* the teams; then the best thirds take a transaction that deletes the     *)
(* stored picks and inserts the new ones one by one, under PostgreSQL's    *)
(* READ COMMITTED, and the standings of a group one upsert of one row.     *)
(* Requests run at the same time when the user has two tabs open, taps     *)
(* twice, or sends several groups at once.                                 *)
(***************************************************************************)
EXTENDS Naturals, Sequences, FiniteSets

CONSTANTS
  Groups,      \* the tournament groups, in the order of the feed
  Teams,       \* ids of rows of `teams`
  Ids,         \* ids a client may send
  Requests,    \* POSTs the user sends
  Bodies,      \* what they may carry: team_ids, or the positions of a group
  TeamsOf,     \* the teams assigned to each group
  Earlier,     \* what earlier submissions of best thirds may have stored
  None,        \* no group seeded, no deadline read, no gate passed
  MaxTime,     \* bound: the last instant
  MaxMoves,    \* bound: first kickoffs moved and bootstraps that die
  MaxFaults,   \* bound: failed calls and dropped requests
  Required,    \* BEST_THIRDS_REQUIRED
  Places       \* the positions of a group

Time == 0..MaxTime

SetMin(S) == CHOOSE x \in S : \A y \in S : x <= y

ASSUME ConstantsAssumption ==
  /\ Teams \subseteq Ids
  /\ Groups \subseteq Nat
  /\ TeamsOf \in [Groups -> SUBSET Teams]
  /\ Bodies \subseteq [group : Groups \cup {None}, picks : Seq(Ids)]
  /\ Earlier \subseteq SUBSET Teams
  /\ None \notin Time \cup Groups
  /\ MaxTime \in Nat /\ MaxMoves \in Nat /\ MaxFaults \in Nat
  /\ Required \in Nat \ {0} /\ Places \in Nat

Stage == {"idle", "member", "groups", "gate", "teams", "delete", "wait", "insert", "commit",
          "find", "members", "upsert", "leaving", "landing", "done"}
Answer == {"ok", "refused", "error", "none"}

VARIABLES
  now,
  member,    \* whether the user has joined the pickem
  kickoff,   \* the first kickoff of the group stage, as upstream has it
  deadline,  \* deadline_at of the rows of `tournament_groups`
  phases,    \* whether all the rows of `knockout_phases` are there
  seeding,   \* the groups a bootstrap has still to write, and the deadline
  latest,    \* history: the latest deadline there has been
  rows,      \* the user's committed rows of best_thirds_predictions
  order,     \* the positions of the user's row of group_standings_predictions
  pc, body, answer,
  limit,     \* the deadline each request has read
  seen,      \* the rows of the snapshot of the transaction's DELETE still there
  deleted, inserted,   \* what the open transaction of each request has done
  next,      \* the team whose INSERT is in flight
  gate,      \* history: when each request passed the deadline
  rivals,    \* history: the requests each one has met
  moves, faults

stored   == <<rows, order>>
clock    == <<now, moves, faults>>
seeds    == <<deadline, phases, seeding, latest>>
schedule == <<member, kickoff, seeds>>
tx       == <<seen, deleted, inserted, next>>
request  == <<limit, gate, rivals>>
vars == <<now, member, kickoff, deadline, phases, seeding, latest, rows,
          order, pc, body, answer, limit, seen, deleted, inserted, next, gate, rivals, moves, faults>>

\* The body of a request that is still to come, or was answered and left no trace.
Nothing == [group |-> None, picks |-> <<>>]

Init ==
  /\ now = 0
  /\ member \in BOOLEAN
  /\ kickoff \in Time
  /\ phases \in BOOLEAN
  /\ deadline = [g \in Groups |-> IF phases THEN kickoff ELSE None]
  /\ seeding = None
  /\ latest = IF phases THEN kickoff ELSE None
  /\ rows \in Earlier
  /\ order = [g \in Groups |-> <<>>]
  /\ pc = [r \in Requests |-> "idle"]
  /\ body = [r \in Requests |-> Nothing]
  /\ answer = [r \in Requests |-> "none"]
  /\ limit = [r \in Requests |-> None]
  /\ seen = [r \in Requests |-> {}]
  /\ deleted = [r \in Requests |-> {}]
  /\ inserted = [r \in Requests |-> {}]
  /\ next = [r \in Requests |-> 1]
  /\ gate = [r \in Requests |-> None]
  /\ rivals = [r \in Requests |-> {}]
  /\ moves = 0
  /\ faults = 0

-----------------------------------------------------------------------------
(* Locks.  A row an open transaction has inserted or deleted makes every   *)
(* other one that comes to it wait for the end of that transaction.        *)

Open(r) ==
  /\ pc[r] \in {"wait", "insert", "commit", "leaving", "landing"}
  /\ body[r].group = None

\* The team_id whose INSERT is in flight.
Pick(r) == body[r].picks[next[r]]

Wanted(r) ==
  CASE pc[r] = "wait"   -> seen[r]
    [] pc[r] = "insert" -> {Pick(r)}
    [] OTHER            -> {}

Blockers(r) ==
  {s \in Requests \ {r} :
     Open(s) /\ Wanted(r) \cap (deleted[s] \cup inserted[s]) # {}}

IsRing(ring) ==
  /\ ring # {}
  /\ \A r \in ring : Blockers(r) \cap ring # {}

\* The waiters PostgreSQL's deadlock detector picks its victim from.
Deadlocked ==
  UNION {ring \in SUBSET Requests :
           IsRing(ring) /\ \A part \in SUBSET ring : IsRing(part) => part = ring}

-----------------------------------------------------------------------------
(* The handler and `replace`, one action per stretch between two awaits.   *)

\* The client sends r.
Send(r) ==
  /\ pc[r] = "idle"
  /\ \E b \in Bodies : body' = [body EXCEPT ![r] = b]
  /\ pc' = [pc EXCEPT ![r] = "member"]
  /\ rivals' = [s \in Requests |->
                  IF s = r THEN {q \in Requests : pc[q] \notin {"idle", "done"}}
                  ELSE IF pc[s] # "idle" THEN rivals[s] \cup {r}
                  ELSE rivals[s]]
  /\ UNCHANGED <<clock, schedule, stored, answer, tx, limit, gate>>

Reply(r, a) ==
  /\ pc' = [pc EXCEPT ![r] = "done"]
  /\ answer' = [answer EXCEPT ![r] = a]
  /\ body' = IF a = "ok" THEN body ELSE [body EXCEPT ![r] = Nothing]

Goto(r, stage) == pc' = [pc EXCEPT ![r] = stage] /\ UNCHANGED <<answer, body>>

RequireMembership(r) ==
  /\ pc[r] = "member"
  /\ IF member THEN Goto(r, "groups") ELSE Reply(r, "refused")
  /\ UNCHANGED <<clock, schedule, stored, tx, request>>

\* The deadlines list_active answers with: those that lie ahead, for the server.
Ahead == {deadline[g] : g \in Groups} \cap (now + 1)..MaxTime

\* The earliest of them; none, and the window is closed.
ListActive(r) ==
  /\ pc[r] = "groups"
  /\ IF Ahead = {} THEN Reply(r, "refused") /\ UNCHANGED limit
     ELSE Goto(r, "gate") /\ limit' = [limit EXCEPT ![r] = SetMin(Ahead)]
  /\ UNCHANGED <<clock, schedule, stored, tx, gate, rivals>>

AfterGate(r) == IF body[r].group = None THEN "teams" ELSE "find"

\* Mutant: the clock is not read.
EnforceNoDeadline(r) ==
  /\ pc[r] = "gate"
  /\ Goto(r, AfterGate(r))
  /\ gate' = [gate EXCEPT ![r] = now]
  /\ limit' = [limit EXCEPT ![r] = None]
  /\ UNCHANGED <<clock, schedule, stored, tx, rivals>>

\* The answer is there: the clock is read and must be before that deadline.
EnforceGlobalGroupDeadline(r) ==
  /\ pc[r] = "gate"
  /\ IF now < limit[r]
     THEN Goto(r, AfterGate(r)) /\ gate' = [gate EXCEPT ![r] = now]
     ELSE Reply(r, "refused") /\ UNCHANGED gate
  /\ limit' = [limit EXCEPT ![r] = None]
  /\ UNCHANGED <<clock, schedule, stored, tx, rivals>>

TeamIds(r) == {body[r].picks[i] : i \in DOMAIN body[r].picks}

\* As many team_ids as required, distinct, each a row of `teams`.
Valid(r) ==
  /\ Len(body[r].picks) = Required
  /\ Cardinality(TeamIds(r)) = Required
  /\ TeamIds(r) \subseteq Teams

CheckTeams(r) ==
  /\ pc[r] = "teams"
  /\ IF Valid(r) THEN Goto(r, "delete") ELSE Reply(r, "refused")
  /\ UNCHANGED <<clock, schedule, stored, tx, request>>

FindGroup(r) ==
  /\ pc[r] = "find"
  /\ IF deadline[body[r].group] = None THEN Reply(r, "refused") ELSE Goto(r, "members")
  /\ UNCHANGED <<clock, schedule, stored, tx, request>>

\* A team for each position, all of them different and of the group.
ValidOrder(r) ==
  /\ Cardinality(TeamIds(r)) = Places
  /\ TeamIds(r) \subseteq TeamsOf[body[r].group]

ListTeamsInGroup(r) ==
  /\ pc[r] = "members"
  /\ IF ValidOrder(r) THEN Goto(r, "upsert") ELSE Reply(r, "refused")
  /\ UNCHANGED <<clock, schedule, stored, tx, request>>

\* One statement: the row of that user, pickem and group, whichever came before.
Upserted(r) == order' = [order EXCEPT ![body[r].group] = body[r].picks]

UpsertOrder(r) ==
  /\ pc[r] = "upsert"
  /\ Upserted(r)
  /\ Reply(r, "ok")
  /\ UNCHANGED <<clock, schedule, rows, tx, request>>

\* BEGIN and the DELETE: what it will delete is what is committed now.
StartDelete(r) ==
  /\ pc[r] = "delete"
  /\ Goto(r, "wait")
  /\ seen' = [seen EXCEPT ![r] = rows]
  /\ UNCHANGED <<clock, schedule, stored, body, deleted, inserted, next, request>>

\* Mutant: the DELETE is missing.
SkipDelete(r) ==
  /\ pc[r] = "wait" /\ Blockers(r) = {}
  /\ Goto(r, "insert")
  /\ UNCHANGED <<clock, schedule, stored, body, tx, request>>

\* Of the rows of its snapshot, those nobody has deleted meanwhile.
Delete(r) ==
  /\ pc[r] = "wait" /\ Blockers(r) = {}
  /\ deleted' = [deleted EXCEPT ![r] = seen[r]]
  /\ Goto(r, "insert")
  /\ UNCHANGED <<clock, schedule, stored, body, seen, inserted, next, request>>

\* Mutant: the INSERT runs on the pool, outside the transaction.
InsertOutside(r) ==
  /\ pc[r] = "insert" /\ Blockers(r) = {}
  /\ Pick(r) \notin rows \ deleted[r]
  /\ rows' = rows \cup {Pick(r)}
  /\ inserted' = [inserted EXCEPT ![r] = @ \cup {Pick(r)}]
  /\ IF next[r] = Len(body[r].picks)
     THEN Goto(r, "commit") /\ UNCHANGED next
     ELSE next' = [next EXCEPT ![r] = @ + 1] /\ UNCHANGED <<pc, answer>>
  /\ UNCHANGED <<clock, schedule, order, body, seen, deleted, request>>

\* Mutant: the loop stops one pick short.
InsertAllButOne(r) ==
  /\ pc[r] = "insert" /\ Blockers(r) = {}
  /\ Pick(r) \notin rows \ deleted[r]
  /\ inserted' = [inserted EXCEPT ![r] = @ \cup {Pick(r)}]
  /\ IF next[r] = Len(body[r].picks) - 1
     THEN Goto(r, "commit") /\ UNCHANGED next
     ELSE next' = [next EXCEPT ![r] = @ + 1] /\ UNCHANGED <<pc, answer>>
  /\ UNCHANGED <<clock, schedule, stored, body, seen, deleted, request>>

Insert(r) ==
  /\ pc[r] = "insert" /\ Blockers(r) = {}
  /\ Pick(r) \notin rows \ deleted[r]
  /\ inserted' = [inserted EXCEPT ![r] = @ \cup {Pick(r)}]
  /\ IF next[r] = Len(body[r].picks)
     THEN Goto(r, "commit") /\ UNCHANGED next
     ELSE next' = [next EXCEPT ![r] = @ + 1] /\ UNCHANGED <<pc, answer>>
  /\ UNCHANGED <<clock, schedule, stored, body, seen, deleted, request>>

\* The transaction is given up: an error is on its way to the client while the
\* ROLLBACK is on its way to the server.
Leave(r) ==
  /\ pc' = [pc EXCEPT ![r] = "leaving"]
  /\ answer' = [answer EXCEPT ![r] = "error"]
  /\ UNCHANGED <<stored, tx>>

\* Mutant: a refused pick is tried again.
RetryRefused(r) ==
  /\ pc[r] = "insert" /\ Blockers(r) = {}
  /\ Pick(r) \in rows \ deleted[r]
  /\ UNCHANGED vars

\* The primary key refuses a pick a rival has committed since the DELETE began.
InsertRefused(r) ==
  /\ pc[r] = "insert" /\ Blockers(r) = {}
  /\ Pick(r) \in rows \ deleted[r]
  /\ Leave(r)
  /\ UNCHANGED <<clock, schedule, body, request>>

Deadlock(r) ==
  /\ r \in Deadlocked /\ pc[r] # "leaving"
  /\ Leave(r)
  /\ UNCHANGED <<clock, schedule, body, request>>

\* The end of a transaction releases its locks.
End(r) ==
  /\ deleted' = [deleted EXCEPT ![r] = {}]
  /\ inserted' = [inserted EXCEPT ![r] = {}]
  /\ next' = [next EXCEPT ![r] = 1]

Rollback(r) ==
  /\ pc[r] = "leaving"
  /\ Goto(r, "done")
  /\ seen' = [seen EXCEPT ![r] = {}]
  /\ End(r)
  /\ UNCHANGED <<clock, schedule, stored, body, request>>

\* A row inserted here is not in the snapshot of a DELETE that began before,
\* not even in the place of a row that was.
TakeEffect(r) ==
  /\ UNCHANGED order
  /\ rows' = (rows \ deleted[r]) \cup inserted[r]
  /\ seen' = [s \in Requests |-> IF s = r THEN {} ELSE seen[s] \ deleted[r]]
  /\ End(r)

Commit(r) ==
  /\ pc[r] = "commit"
  /\ TakeEffect(r)
  /\ Reply(r, "ok")
  /\ UNCHANGED <<clock, schedule, request>>

Fault == faults < MaxFaults /\ faults' = faults + 1

\* A call fails, or the client hangs up and the handler is dropped at its await
\* (an error nobody reads).
\* An open transaction is rolled back, unless the COMMIT was already out, as the
\* upsert may have been.
Fail(r) ==
  /\ pc[r] \notin {"idle", "leaving", "landing", "done"}
  /\ Fault
  /\ \/ ~Open(r) /\ Reply(r, "error") /\ UNCHANGED <<stored, tx>>
     \/ Open(r) /\ Leave(r) /\ UNCHANGED body
     \/ /\ pc[r] \in {"commit", "upsert"}
        /\ pc' = [pc EXCEPT ![r] = "landing"]
        /\ answer' = [answer EXCEPT ![r] = "error"]
        /\ UNCHANGED <<stored, tx, body>>
  /\ UNCHANGED <<now, moves, schedule, request>>

\* The server carries out a COMMIT or an upsert whose reply nobody reads.
Land(r) ==
  /\ pc[r] = "landing"
  /\ IF body[r].group = None THEN TakeEffect(r) ELSE Upserted(r) /\ UNCHANGED <<rows, tx>>
  /\ Goto(r, "done")
  /\ UNCHANGED <<clock, schedule, body, request>>

-----------------------------------------------------------------------------
(* The rest of the system.                                                 *)

Tick ==
  /\ now < MaxTime
  /\ now' = now + 1
  /\ UNCHANGED <<moves, faults, schedule, stored, pc, body, answer, tx, request>>

\* /join of the bot; there is no way to leave.
Join ==
  /\ ~member
  /\ member' = TRUE
  /\ UNCHANGED <<clock, kickoff, seeds, stored, pc, body, answer, tx, request>>

Move == moves < MaxMoves /\ moves' = moves + 1

\* Upstream moves a match: the first kickoff changes.
Reschedule ==
  /\ Move
  /\ \E t \in Time \ {kickoff} : kickoff' = t
  /\ UNCHANGED <<now, faults, member, seeds, stored, pc, body, answer, tx, request>>

\* The bootstrap, as long as a knockout phase is missing: it reads the first
\* kickoff, then writes it as the deadline of one group after the other.
StartSeeding ==
  /\ ~phases /\ seeding = None
  /\ seeding' = [todo |-> Groups, to |-> kickoff]
  /\ UNCHANGED <<clock, member, kickoff, deadline, phases, latest, stored, pc, body,
                 answer, tx, request>>

UpsertGroup(g) ==
  /\ seeding # None /\ seeding.todo # {} /\ g = SetMin(seeding.todo)
  /\ seeding' = [seeding EXCEPT !.todo = @ \ {g}]
  /\ deadline' = [deadline EXCEPT ![g] = seeding.to]
  /\ latest' = IF latest = None \/ latest < seeding.to THEN seeding.to ELSE latest
  /\ UNCHANGED <<clock, member, kickoff, phases, stored, pc, body, answer, tx, request>>

\* After the groups it seeds the phases, and is not run again.
SeedPhases ==
  /\ seeding # None /\ seeding.todo = {}
  /\ seeding' = None
  /\ phases' = TRUE
  /\ UNCHANGED <<clock, member, kickoff, deadline, latest, stored, pc, body, answer, tx,
                 request>>

\* It dies half way; what it has written stays.
SeedingDies ==
  /\ seeding # None
  /\ Move
  /\ seeding' = None
  /\ UNCHANGED <<now, faults, member, kickoff, deadline, phases, latest, stored, pc,
                 body, answer, tx, request>>

Handle(r) ==
  \/ RequireMembership(r) \/ ListActive(r) \/ EnforceGlobalGroupDeadline(r)
  \/ CheckTeams(r) \/ FindGroup(r) \/ ListTeamsInGroup(r) \/ UpsertOrder(r)
  \/ StartDelete(r) \/ Delete(r) \/ Insert(r) \/ InsertRefused(r) \/ Deadlock(r)
  \/ Rollback(r) \/ Commit(r) \/ Land(r)

Next ==
  \/ \E r \in Requests : Send(r) \/ Handle(r) \/ Fail(r)
  \/ Tick \/ Join \/ Reschedule
  \/ StartSeeding \/ SeedPhases \/ SeedingDies
  \/ \E g \in Groups : UpsertGroup(g)

Spec == Init /\ [][Next]_vars

\* Every call that is not waiting for a lock returns, and the deadlock detector
\* runs.
FairSpec == Spec /\ \A r \in Requests : WF_vars(Handle(r))
-----------------------------------------------------------------------------
(* What the endpoint promises.                                             *)

Types ==
  /\ now \in Time
  /\ member \in BOOLEAN
  /\ kickoff \in Time
  /\ deadline \in [Groups -> Time \cup {None}]
  /\ phases \in BOOLEAN
  /\ seeding \in [todo : SUBSET Groups, to : Time] \cup {None}
  /\ latest \in Time \cup {None}
  /\ rows \subseteq Teams
  /\ pc \in [Requests -> Stage]
  /\ order \in [Groups -> Seq(Teams)]
  /\ body \in [Requests -> [group : Groups \cup {None}, picks : Seq(Ids)]]
  /\ answer \in [Requests -> Answer]
  /\ limit \in [Requests -> Time \cup {None}]
  /\ seen \in [Requests -> SUBSET Teams]
  /\ deleted \in [Requests -> SUBSET Teams]
  /\ inserted \in [Requests -> SUBSET Teams]
  /\ next \in [Requests -> Nat]
  /\ gate \in [Requests -> Time \cup {None}]
  /\ rivals \in [Requests -> SUBSET Requests]
  /\ moves \in 0..MaxMoves
  /\ faults \in 0..MaxFaults

\* Only an open transaction holds anything, and only of its own picks and its own
\* snapshot; before the COMMIT is out every pick is inserted.
HoldsOK(r) ==
  /\ pc[r] = "gate" => limit[r] # None
  /\ pc[r] = "insert" => next[r] \in DOMAIN body[r].picks
  /\ ~Open(r) => seen[r] = {} /\ deleted[r] = {} /\ inserted[r] = {}
  /\ deleted[r] \subseteq seen[r] /\ inserted[r] \subseteq TeamIds(r)
  /\ Open(r) /\ pc[r] \in {"commit", "landing"} => inserted[r] = TeamIds(r)
  /\ pc[r] \in {"find", "members", "upsert"} => body[r].group # None

\* Types, and what each request may hold where it is.
TypeOK == Types /\ \A r \in Requests : HoldsOK(r)

\* r asked for g, the best thirds if g is None, and might: it was valid and came
\* before a deadline the groups have had.
InTime(r, g) ==
  /\ body[r].group = g
  /\ gate[r] # None /\ gate[r] < latest
  /\ IF g = None THEN Valid(r) ELSE ValidOrder(r)

\* What is stored is made of whole submissions, never of a part of one, whatever
\* failed half way or was refused; and each of them was valid and came before a
\* deadline the groups have had.
WholeSubmissionsOnly ==
  /\ \E sent \in SUBSET {r \in Requests : InTime(r, None)} :
       \E old \in Earlier \cup {{}} : rows = old \cup UNION {TeamIds(r) : r \in sent}
  /\ \A g \in Groups : order[g] = <<>> \/ \E r \in Requests :
                       InTime(r, g) /\ order[g] = body[r].picks

\* A submission answered with "ok" that met no other one is what is stored, until
\* another one comes.
AcknowledgedReplaces ==
  \A r \in Requests : answer[r] = "ok" /\ rivals[r] = {} =>
    IF body[r].group = None THEN rows = TeamIds(r)
    ELSE order[body[r].group] = body[r].picks

\* As long as upstream moves nothing, the gate is closed from the first kickoff of
\* the group stage on, while a bootstrap is under way as well.
LockedFromKickoffOn ==
  [][moves = 0 => \A r \in Requests : gate'[r] # gate[r] => now < kickoff]_vars

\* No request waits for ever: locks are released and deadlocks broken.
EveryRequestEnds == \A r \in Requests : []<>(pc[r] \in {"idle", "done"})

=============================================================================
