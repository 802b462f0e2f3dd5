----------------------------- MODULE Bootstrap -----------------------------
(***************************************************************************)
(* The one-shot bootstrap of services/events: the tournament's row, then   *)
(* tournament_groups and knockout_phases, then teams and their groups.     *)
(* The daemon runs it at every start and events-cli on demand, from the    *)
(* same functions and maybe at the same time.  No step shares a            *)
(* transaction with another; a run that fails or dies leaves what it has   *)
(* written, and the next one decides from that what is left to do.         *)
(***************************************************************************)
EXTENDS Naturals, Sequences

CONSTANTS
  Seeders,    \* the daemon, events-cli seed-tournament
  Daemon,     \* the one that is started again when it ends
  Fixtures,   \* the matches of the feed
  Labels,     \* their group labels (below)
  Stages,     \* ALL_STAGES
  Codes,      \* the country codes of the feed's teams, in its order
  None,       \* no row, no id; no value in the feed
  MaxRuns,    \* bound: how often each is started
  MaxFaults   \* bound: failed calls and crashes

ElementsOf(seq) == {seq[i] : i \in DOMAIN seq}

\* phase_from_stage: what is not a known knockout stage is the group stage.
IsGroupStage(match) == match.stage \notin ElementsOf(Stages)

\* The distinct labels of the group-stage matches, in the order they appear.
AreLabelsOf(labels, matches) ==
  LET Positions(g) == {i \in DOMAIN matches : IsGroupStage(matches[i]) /\ matches[i].group = g}
  IN /\ ElementsOf(labels) =
          {matches[i].group : i \in {j \in DOMAIN matches : IsGroupStage(matches[j])}} \ {None}
     /\ \A i, j \in DOMAIN labels : i < j =>
          \E p \in Positions(labels[i]) : \A q \in Positions(labels[j]) : p < q

\* group_assignments_from_matches: two for each match, the home team's and the
\* away team's.  One without a label or a code is left out there and skipped here.
Assignments ==
  [n \in 1..(2 * Len(Fixtures)) |->
     LET match == Fixtures[(n + 1) \div 2]
     IN [label |-> IF IsGroupStage(match) THEN match.group ELSE None,
         code |-> IF n % 2 = 1 THEN match.home ELSE match.away]]

\* What a run generates with Uuid::new_v4 (one for each row it writes).
Id == [by : Seeders, run : 1..MaxRuns]

\* The feed: some group, stage and team; no team listed twice or in two groups.
ASSUME FeedAssumption ==
  /\ Labels # <<>> /\ Labels \in Seq(ElementsOf(Labels)) /\ AreLabelsOf(Labels, Fixtures)
  /\ Stages # <<>> /\ Stages \in Seq(ElementsOf(Stages))
  /\ Codes # <<>> /\ Codes \in Seq(ElementsOf(Codes) \ {None})
  /\ \A i, j \in DOMAIN Codes : Codes[i] = Codes[j] => i = j
  /\ Fixtures \in Seq(ElementsOf(Fixtures))
  /\ \A m, n \in DOMAIN Assignments :
       Assignments[m].code = Assignments[n].code /\ None \notin {Assignments[m].label, Assignments[n].label}
         => Assignments[m].label = Assignments[n].label

ASSUME RunsAssumption ==
  /\ Daemon \in Seeders
  /\ None \notin Id
  /\ MaxRuns \in Nat /\ MaxFaults \in Nat

Stage == {"off", "find tournament", "upsert tournament", "read tournament",
          "list groups", "list phases", "find group", "upsert group", "find phase",
          "upsert phase", "list teams", "upsert team", "assign", "read teams", "ready"}

VARIABLES
  tournament,   \* the id of its row in tournaments
  groups,       \* the ids of the rows of tournament_groups
  phases,       \* the ids of the rows of knockout_phases
  teams,        \* the ids of the rows of teams
  assigned,     \* tournament_group_teams: the group of each team
  pc, run,
  tid,          \* the tournament each run goes by
  group_index, knockout_index,
  at,           \* position in the loop under way
  hand,         \* the id of the group or phase in hand
  country_to_id,
  catalog,      \* the codes of the team list the run ends with
  met,          \* history: whether another run overlapped this one
  overlapped,   \* history: whether any two runs did
  faults

tables == <<tournament, groups, phases, teams, assigned>>
locals == <<tid, group_index, knockout_index, at, hand, country_to_id, catalog>>
vars   == <<tournament, groups, phases, teams, assigned, pc, run, tid, group_index,
            knockout_index, at, hand, country_to_id, catalog, met, overlapped, faults>>

NoGroups == [g \in ElementsOf(Labels) |-> None]
NoPhases == [k \in ElementsOf(Stages) |-> None]
NoTeams  == [c \in ElementsOf(Codes) |-> None]

Init ==
  /\ tournament = None
  /\ groups = NoGroups
  /\ phases = NoPhases
  /\ teams = NoTeams
  /\ assigned = NoTeams
  /\ pc = [s \in Seeders |-> "off"]
  /\ run = [s \in Seeders |-> 0]
  /\ tid = [s \in Seeders |-> None]
  /\ group_index = [s \in Seeders |-> NoGroups]
  /\ knockout_index = [s \in Seeders |-> NoPhases]
  /\ at = [s \in Seeders |-> 1]
  /\ hand = [s \in Seeders |-> None]
  /\ country_to_id = [s \in Seeders |-> NoTeams]
  /\ catalog = [s \in Seeders |-> {}]
  /\ met = [s \in Seeders |-> FALSE]
  /\ overlapped = FALSE
  /\ faults = 0

-----------------------------------------------------------------------------
(* The repositories: one statement each.  The rows of groups and phases are *)
(* those of the one tournament there is.                                   *)

FindByExternalId == tournament

ListGroupsOf(t) == IF t = tournament THEN groups ELSE NoGroups
ListPhasesOf(t) == IF t = tournament THEN phases ELSE NoPhases

FindByName(t, g)  == ListGroupsOf(t)[g]
FindByStage(t, k) == ListPhasesOf(t)[k]

\* INSERT ... ON CONFLICT (natural key) DO UPDATE: the id is left alone.
Stored(old, id) == IF old = None THEN id ELSE old

TournamentUpsert(id) == tournament' = Stored(tournament, id)
GroupUpsert(g, id)   == groups' = [groups EXCEPT ![g] = Stored(@, id)]
PhaseUpsert(k, id)   == phases' = [phases EXCEPT ![k] = Stored(@, id)]
TeamUpsert(c, id)    == teams' = [teams EXCEPT ![c] = Stored(@, id)]

ListAllTeams == {c \in ElementsOf(Codes) : teams[c] # None}

-----------------------------------------------------------------------------

Fresh(s) == [by |-> s, run |-> run[s]]
Running(s) == pc[s] \notin {"off", "ready"}
Goto(s, stage) == pc' = [pc EXCEPT ![s] = stage]
Frame == UNCHANGED <<run, met, overlapped, faults>>

\* A process starts: nothing in memory.
Start(s) ==
  /\ pc[s] = "off" /\ run[s] < MaxRuns
  /\ Goto(s, "find tournament")
  /\ run' = [run EXCEPT ![s] = @ + 1]
  /\ tid' = [tid EXCEPT ![s] = None]
  /\ group_index' = [group_index EXCEPT ![s] = NoGroups]
  /\ knockout_index' = [knockout_index EXCEPT ![s] = NoPhases]
  /\ at' = [at EXCEPT ![s] = 1]
  /\ hand' = [hand EXCEPT ![s] = None]
  /\ country_to_id' = [country_to_id EXCEPT ![s] = NoTeams]
  /\ catalog' = [catalog EXCEPT ![s] = {}]
  /\ met' = [q \in Seeders |->
               IF q = s THEN \E other \in Seeders \ {s} : Running(other)
               ELSE met[q] \/ Running(q)]
  /\ overlapped' = (overlapped \/ \E other \in Seeders \ {s} : Running(other))
  /\ UNCHANGED <<tables, faults>>

(* ensure_tournament *)

FindTournament(s) ==
  /\ pc[s] = "find tournament"
  /\ tid' = [tid EXCEPT ![s] = FindByExternalId]
  /\ Goto(s, IF FindByExternalId # None THEN "list groups" ELSE "upsert tournament")
  /\ Frame
  /\ UNCHANGED <<tables, group_index, knockout_index, at, hand, country_to_id, catalog>>

UpsertTournament(s) ==
  /\ pc[s] = "upsert tournament"
  /\ TournamentUpsert(Fresh(s))
  /\ Goto(s, "read tournament")
  /\ Frame /\ UNCHANGED <<groups, phases, teams, assigned, locals>>

\* Mutant: the row is taken to be the one just sent.
TrustOwnTournament(s) ==
  /\ pc[s] = "read tournament"
  /\ tid' = [tid EXCEPT ![s] = Fresh(s)]
  /\ Goto(s, "list groups")
  /\ Frame
  /\ UNCHANGED <<tables, group_index, knockout_index, at, hand, country_to_id, catalog>>

ReadTournament(s) ==
  /\ pc[s] = "read tournament"
  /\ tid' = [tid EXCEPT ![s] = FindByExternalId]
  /\ Goto(s, "list groups")
  /\ Frame
  /\ UNCHANGED <<tables, group_index, knockout_index, at, hand, country_to_id, catalog>>

(* ensure_tournament_structure *)

ListGroups(s) ==
  /\ pc[s] = "list groups"
  /\ group_index' = [group_index EXCEPT ![s] = ListGroupsOf(tid[s])]
  /\ Goto(s, "list phases")
  /\ Frame
  /\ UNCHANGED <<tables, tid, knockout_index, at, hand, country_to_id, catalog>>

\* Mutant: only the half that is missing is seeded.
SeedMissingHalf(s) ==
  LET found == ListPhasesOf(tid[s])
  IN /\ pc[s] = "list phases"
     /\ knockout_index' = [knockout_index EXCEPT ![s] = found]
     /\ Goto(s, IF \A g \in ElementsOf(Labels) : group_index[s][g] = None THEN "find group"
                ELSE IF \E k \in ElementsOf(Stages) : found[k] = None THEN "find phase"
                ELSE "list teams")
     /\ Frame
     /\ UNCHANGED <<tables, tid, group_index, at, hand, country_to_id, catalog>>

\* Any group and every phase: that is the structure.  Otherwise the fixtures are
\* fetched and all of it is seeded.
ListPhases(s) ==
  LET found == ListPhasesOf(tid[s])
      complete == /\ \E g \in ElementsOf(Labels) : group_index[s][g] # None
                  /\ \A k \in ElementsOf(Stages) : found[k] # None
  IN /\ pc[s] = "list phases"
     /\ group_index' = [group_index EXCEPT ![s] = IF complete THEN @ ELSE NoGroups]
     /\ knockout_index' = [knockout_index EXCEPT ![s] = IF complete THEN found ELSE NoPhases]
     /\ Goto(s, IF complete THEN "list teams" ELSE "find group")
     /\ Frame
     /\ UNCHANGED <<tables, tid, at, hand, country_to_id, catalog>>

\* Mutant: the loop goes on past its last element.
AdvancePastEnd(s, seq, again, after) ==
  IF at[s] <= Len(seq)
  THEN at' = [at EXCEPT ![s] = @ + 1] /\ Goto(s, again)
  ELSE at' = [at EXCEPT ![s] = 1] /\ Goto(s, after)

\* The next turn of a loop over seq, or what follows it.
Advance(s, seq, again, after) ==
  IF at[s] < Len(seq)
  THEN at' = [at EXCEPT ![s] = @ + 1] /\ Goto(s, again)
  ELSE at' = [at EXCEPT ![s] = 1] /\ Goto(s, after)

(* ensure_groups_seeded *)

FindGroup(s) ==
  /\ pc[s] = "find group"
  /\ hand' = [hand EXCEPT ![s] = Stored(FindByName(tid[s], Labels[at[s]]), Fresh(s))]
  /\ Goto(s, "upsert group")
  /\ Frame
  /\ UNCHANGED <<tables, tid, group_index, knockout_index, at, country_to_id, catalog>>

UpsertGroup(s) ==
  LET g == Labels[at[s]]
  IN /\ pc[s] = "upsert group"
     /\ GroupUpsert(g, hand[s])
     /\ group_index' = [group_index EXCEPT ![s][g] = hand[s]]
     /\ hand' = [hand EXCEPT ![s] = None]
     /\ Advance(s, Labels, "find group", "find phase")
     /\ Frame
     /\ UNCHANGED <<tournament, phases, teams, assigned, tid, knockout_index,
                    country_to_id, catalog>>

(* ensure_knockouts_seeded *)

\* Mutant: the rows of the phases are not looked up.
NewPhase(s) ==
  /\ pc[s] = "find phase"
  /\ hand' = [hand EXCEPT ![s] = Fresh(s)]
  /\ Goto(s, "upsert phase")
  /\ Frame
  /\ UNCHANGED <<tables, tid, group_index, knockout_index, at, country_to_id, catalog>>

FindPhase(s) ==
  /\ pc[s] = "find phase"
  /\ hand' = [hand EXCEPT ![s] = Stored(FindByStage(tid[s], Stages[at[s]]), Fresh(s))]
  /\ Goto(s, "upsert phase")
  /\ Frame
  /\ UNCHANGED <<tables, tid, group_index, knockout_index, at, country_to_id, catalog>>

UpsertPhase(s) ==
  LET k == Stages[at[s]]
  IN /\ pc[s] = "upsert phase"
     /\ PhaseUpsert(k, hand[s])
     /\ knockout_index' = [knockout_index EXCEPT ![s][k] = hand[s]]
     /\ hand' = [hand EXCEPT ![s] = None]
     /\ Advance(s, Stages, "find phase", "list teams")
     /\ Frame
     /\ UNCHANGED <<tournament, groups, teams, assigned, tid, group_index,
                    country_to_id, catalog>>

(* ensure_teams_and_assignments_seeded *)

\* Mutant: no early return.
ListTeamsOnly(s) ==
  /\ pc[s] = "list teams"
  /\ Goto(s, "upsert team")
  /\ Frame /\ UNCHANGED <<tables, locals>>

\* One team, and the catalog counts as seeded.
ListTeams(s) ==
  /\ pc[s] = "list teams"
  /\ IF ListAllTeams = {}
     THEN Goto(s, "upsert team") /\ UNCHANGED catalog
     ELSE Goto(s, "ready") /\ catalog' = [catalog EXCEPT ![s] = ListAllTeams]
  /\ Frame
  /\ UNCHANGED <<tables, tid, group_index, knockout_index, at, hand, country_to_id>>

\* The id the run goes by is the one it sent, whatever the table kept.
UpsertTeam(s) ==
  LET c == Codes[at[s]]
  IN /\ pc[s] = "upsert team"
     /\ TeamUpsert(c, Fresh(s))
     /\ country_to_id' = [country_to_id EXCEPT ![s][c] = Fresh(s)]
     /\ Advance(s, Codes, "upsert team", "assign")
     /\ Frame
     /\ UNCHANGED <<tournament, groups, phases, assigned, tid, group_index,
                    knockout_index, hand, catalog>>

\* The assignment has a team of /teams and a group of the structure.
Resolves(s, a) ==
  /\ a.code \in ElementsOf(Codes) /\ country_to_id[s][a.code] # None
  /\ a.label # None /\ group_index[s][a.label] # None

\* What the foreign keys of tournament_group_teams want.
Referenced(s, a) ==
  /\ tid[s] = tournament
  /\ group_index[s][a.label] = groups[a.label]
  /\ country_to_id[s][a.code] = teams[a.code]

\* One assignment; the last one of a team stands.  What does not resolve is skipped.
Assign(s) ==
  LET a == Assignments[at[s]]
  IN /\ pc[s] = "assign"
     /\ \/ ~Resolves(s, a) /\ UNCHANGED assigned
        \/ /\ Resolves(s, a) /\ Referenced(s, a)
           /\ assigned' = [assigned EXCEPT ![a.code] = group_index[s][a.label]]
     /\ Advance(s, Assignments, "assign", "read teams")
     /\ Frame
     /\ UNCHANGED <<tournament, groups, phases, teams, tid, group_index, knockout_index,
                    hand, country_to_id, catalog>>

\* A foreign key refuses the assignment: the run ends with an error.
AssignRefused(s) ==
  LET a == Assignments[at[s]]
  IN /\ pc[s] = "assign"
     /\ Resolves(s, a) /\ ~Referenced(s, a)
     /\ Goto(s, "off")
     /\ Frame /\ UNCHANGED <<tables, locals>>

ReadTeams(s) ==
  /\ pc[s] = "read teams"
  /\ catalog' = [catalog EXCEPT ![s] = ListAllTeams]
  /\ Goto(s, "ready")
  /\ Frame
  /\ UNCHANGED <<tables, tid, group_index, knockout_index, at, hand, country_to_id>>

\* A call fails, or the process dies.  (A write whose reply is lost is a write
\* and a Die right after it.)
Die(s) ==
  /\ pc[s] # "off"
  /\ faults < MaxFaults /\ faults' = faults + 1
  /\ Goto(s, "off")
  /\ UNCHANGED <<tables, run, locals, met, overlapped>>

Step(s) ==
  \/ FindTournament(s) \/ UpsertTournament(s) \/ ReadTournament(s)
  \/ ListGroups(s) \/ ListPhases(s) \/ FindGroup(s) \/ UpsertGroup(s)
  \/ FindPhase(s) \/ UpsertPhase(s) \/ ListTeams(s) \/ UpsertTeam(s)
  \/ Assign(s) \/ AssignRefused(s) \/ ReadTeams(s)

Next == \E s \in Seeders : Start(s) \/ Step(s) \/ Die(s)

Spec == Init /\ [][Next]_vars

\* Calls return; the container restarts the daemon (nobody restarts the CLI).
FairSpec ==
  /\ Spec
  /\ WF_vars(Start(Daemon))
  /\ \A s \in Seeders : WF_vars(Step(s))
-----------------------------------------------------------------------------
(* What the bootstrap promises.                                            *)

Types ==
  /\ tournament \in Id \cup {None}
  /\ groups \in [ElementsOf(Labels) -> Id \cup {None}]
  /\ phases \in [ElementsOf(Stages) -> Id \cup {None}]
  /\ teams \in [ElementsOf(Codes) -> Id \cup {None}]
  /\ assigned \in [ElementsOf(Codes) -> Id \cup {None}]
  /\ pc \in [Seeders -> Stage]
  /\ run \in [Seeders -> 0..MaxRuns]
  /\ tid \in [Seeders -> Id \cup {None}]
  /\ group_index \in [Seeders -> [ElementsOf(Labels) -> Id \cup {None}]]
  /\ knockout_index \in [Seeders -> [ElementsOf(Stages) -> Id \cup {None}]]
  /\ at \in [Seeders -> Nat \ {0}]
  /\ hand \in [Seeders -> Id \cup {None}]
  /\ country_to_id \in [Seeders -> [ElementsOf(Codes) -> Id \cup {None}]]
  /\ catalog \in [Seeders -> SUBSET ElementsOf(Codes)]
  /\ met \in [Seeders -> BOOLEAN] /\ overlapped \in BOOLEAN
  /\ faults \in 0..MaxFaults

InItsLists(s) ==
  /\ pc[s] \in {"find group", "upsert group"} => at[s] \in DOMAIN Labels
  /\ pc[s] \in {"find phase", "upsert phase"} => at[s] \in DOMAIN Stages
  /\ pc[s] = "upsert team" => at[s] \in DOMAIN Codes
  /\ pc[s] = "assign" => at[s] \in DOMAIN Assignments
  /\ pc[s] \in {"upsert group", "upsert phase"} => hand[s] # None

\* Types; the loops stay inside their lists.
TypeOK == Types /\ \A s \in Seeders : InItsLists(s)

\* A row never changes its id, whichever runs overlap or start over: what points
\* at it stays valid (the ON CONFLICT clauses of the four upserts).
IdsStand ==
  [][/\ tournament # None => tournament' = tournament
     /\ \A g \in ElementsOf(Labels) : groups[g] # None => groups'[g] = groups[g]
     /\ \A k \in ElementsOf(Stages) : phases[k] # None => phases'[k] = phases[k]
     /\ \A c \in ElementsOf(Codes) : teams[c] # None => teams'[c] = teams[c]]_vars

\* A phase is stored only when every group is.  That is why ListPhases may take a
\* single group for all of them, after any crash.
PhasesAfterGroups ==
  \A k \in ElementsOf(Stages) : phases[k] # None =>
    \A g \in ElementsOf(Labels) : groups[g] # None

\* Every run goes by the id of the tournament's row, also when two of them
\* created it at the same time.
CanonicalTournament ==
  \A s \in Seeders :
    pc[s] \notin {"off", "find tournament", "upsert tournament", "read tournament"} =>
      tid[s] # None /\ tid[s] = tournament

\* The teams are where the matches put them.
AssignedAsPlayed ==
  \A n \in DOMAIN Assignments :
    LET a == Assignments[n]
    IN a.code \in ElementsOf(Codes) /\ a.label # None =>
         assigned[a.code] # None /\ assigned[a.code] = groups[a.label]

\* A run that no other one overlapped ends with the ids of all the rows, however
\* many runs died before it; and with every team of the matches in its group if no
\* run died and no two ever overlapped.
SoloRunIsRight ==
  \A s \in Seeders : pc[s] = "ready" /\ ~met[s] =>
    /\ \A g \in ElementsOf(Labels) : group_index[s][g] # None /\ group_index[s][g] = groups[g]
    /\ \A k \in ElementsOf(Stages) :
         knockout_index[s][k] # None /\ knockout_index[s][k] = phases[k]
    /\ faults = 0 /\ ~overlapped => catalog[s] = ElementsOf(Codes) /\ AssignedAsPlayed

\* The seeders implement Catalog, whichever of them overlap, fail, die and start
\* over: rows written once and in order, so that ListPhases may take a single group
\* for all of them, and a team that is in a group in that group for good.
Rows == INSTANCE Catalog WITH
  Groups <- ElementsOf(Labels), Phases <- ElementsOf(Stages), Teams <- ElementsOf(Codes),
  Belongs <- {<<Assignments[n].code, Assignments[n].label>> : n \in DOMAIN Assignments},
  Ids <- Id

ImplementsCatalog == Rows!Spec

\* The daemon gets through its bootstrap, after whatever died or was refused.
DaemonGetsReady == <>[](pc[Daemon] = "ready")

-----------------------------------------------------------------------------
(* What comments of the code say of it and the code does not do.           *)

\* bootstrap.rs: "Make sure teams and tournament_group_teams are populated ...
\* when any team row already exists ... a previous run finished".  So when a run
\* has ended well and none is under way every team is assigned.
ReadyMeansAssigned ==
  (\E s \in Seeders : pc[s] = "ready") /\ (\A s \in Seeders : ~Running(s)) => AssignedAsPlayed
=============================================================================
