-------------------------- MODULE BootstrapProofs --------------------------
(***************************************************************************)
(* The bootstrap's safety properties for any feed, any number of seeders,  *)
(* of their runs and of faults.                                            *)
(***************************************************************************)
EXTENDS Bootstrap, TLAPS

-----------------------------------------------------------------------------
(* Lists, loops and ids.                                                   *)

\* A position of a list is a positive number up to its length.
LEMMA Positions ==
  /\ Len(Labels) \in Nat \ {0} /\ DOMAIN Labels = 1..Len(Labels)
  /\ Len(Stages) \in Nat \ {0} /\ DOMAIN Stages = 1..Len(Stages)
  /\ Len(Codes) \in Nat \ {0} /\ DOMAIN Codes = 1..Len(Codes)
BY FeedAssumption

\* Every loop has a first turn.
LEMMA FirstPositions == 1 \in DOMAIN Labels /\ 1 \in DOMAIN Stages /\ 1 \in DOMAIN Codes
BY Positions

LEMMA LabelPositions ==
  \A i \in DOMAIN Labels : i \in Nat /\ 1 <= i /\ i <= Len(Labels)
BY Positions

\* The assignments are a list too, and each names a group of the structure or none.
LEMMA AssignmentList ==
  /\ Len(Assignments) \in Nat \ {0} /\ DOMAIN Assignments = 1..Len(Assignments)
  /\ \A n \in DOMAIN Assignments : Assignments[n].label \in ElementsOf(Labels) \cup {None}
<1>1. Len(Fixtures) \in Nat /\ DOMAIN Fixtures = 1..Len(Fixtures)
  BY FeedAssumption
<1>2. ElementsOf(Labels) =
        {Fixtures[i].group : i \in {j \in DOMAIN Fixtures : IsGroupStage(Fixtures[j])}} \ {None}
  BY FeedAssumption DEF AreLabelsOf
<1>3. Len(Fixtures) # 0
  <2>1. Labels[1] \in ElementsOf(Labels)
    BY Positions DEF ElementsOf
  <2>2. PICK i \in DOMAIN Fixtures : Fixtures[i].group = Labels[1]
    BY <1>2, <2>1
  <2> QED BY <1>1, <2>2
<1>4. Len(Assignments) = 2 * Len(Fixtures) /\ DOMAIN Assignments = 1..(2 * Len(Fixtures))
  BY <1>1 DEF Assignments
<1>5. ASSUME NEW n \in DOMAIN Assignments
      PROVE  Assignments[n].label \in ElementsOf(Labels) \cup {None}
  <2> DEFINE match == Fixtures[(n + 1) \div 2]
  <2>1. n \in Nat /\ 1 <= n /\ n <= 2 * Len(Fixtures)
    BY <1>1, <1>4
  <2>2. (n + 1) \div 2 \in DOMAIN Fixtures
    BY <1>1, <2>1
  <2>3. Assignments[n].label = IF IsGroupStage(match) THEN match.group ELSE None
    BY <1>4 DEF Assignments
  <2> QED BY <1>2, <2>2, <2>3
<1> QED BY <1>1, <1>3, <1>4, <1>5

LEMMA Elements ==
  /\ \A i \in DOMAIN Labels : Labels[i] \in ElementsOf(Labels)
  /\ \A i \in DOMAIN Stages : Stages[i] \in ElementsOf(Stages)
  /\ \A i \in DOMAIN Codes : Codes[i] \in ElementsOf(Codes)
BY DEF ElementsOf

LEMMA NoRowsType ==
  /\ NoGroups \in [ElementsOf(Labels) -> Id \cup {None}]
  /\ NoPhases \in [ElementsOf(Stages) -> Id \cup {None}]
  /\ NoTeams \in [ElementsOf(Codes) -> Id \cup {None}]
BY DEF NoGroups, NoPhases, NoTeams

LEMMA StoredType ==
  ASSUME NEW old \in Id \cup {None}, NEW id \in Id
  PROVE  Stored(old, id) \in Id /\ Stored(old, id) # None
BY RunsAssumption DEF Stored

-----------------------------------------------------------------------------
(* Types, and where a run is.                                              *)

\* A run under way has a number, so the ids it generates are ids.  Outside its
\* loops it has the position of a loop's start.
Placed(s) ==
  /\ InItsLists(s)
  /\ pc[s] # "off" => run[s] \in 1..MaxRuns
  /\ pc[s] \in {"find tournament", "upsert tournament", "read tournament", "list groups",
                "list phases", "list teams"} => at[s] = 1

Typed == Types /\ \A s \in Seeders : Placed(s)

LEMMA FreshType ==
  ASSUME NEW s \in Seeders, Placed(s), pc[s] # "off"
  PROVE  Fresh(s) \in Id
BY DEF Placed, Fresh, Id

\* The lists of a tournament's rows.
LEMMA ListsType ==
  ASSUME Types, NEW t
  PROVE  /\ ListGroupsOf(t) \in [ElementsOf(Labels) -> Id \cup {None}]
         /\ ListPhasesOf(t) \in [ElementsOf(Stages) -> Id \cup {None}]
BY NoRowsType DEF Types, ListGroupsOf, ListPhasesOf

\* A run changes pc at its own place only.
LEMMA GotoPc ==
  ASSUME Types, NEW s \in Seeders, NEW stage \in Stage, Goto(s, stage)
  PROVE  pc' \in [Seeders -> Stage] /\ pc'[s] = stage /\ \A q \in Seeders \ {s} : pc'[q] = pc[q]
BY DEF Types, Goto

\* What a step of another run leaves alone.
LEMMA OthersPlaced ==
  ASSUME NEW s \in Seeders, \A q \in Seeders : Placed(q), Placed(s)',
         \A q \in Seeders \ {s} :
           pc'[q] = pc[q] /\ at'[q] = at[q] /\ hand'[q] = hand[q] /\ run'[q] = run[q]
  PROVE  \A q \in Seeders : Placed(q)'
BY DEF Placed, InItsLists

\* A loop goes to its next turn, inside the list, or to what follows, at 1.
Advanced(s, seq, again, after) ==
  /\ at' \in [Seeders -> Nat \ {0}] /\ pc' \in [Seeders -> Stage]
  /\ \A q \in Seeders \ {s} : at'[q] = at[q] /\ pc'[q] = pc[q]
  /\ \/ pc'[s] = again /\ at[s] < Len(seq) /\ at'[s] = at[s] + 1 /\ at'[s] \in DOMAIN seq
     \/ pc'[s] = after /\ at[s] = Len(seq) /\ at'[s] = 1

LEMMA AdvanceCases ==
  ASSUME Types, NEW s \in Seeders, NEW seq, NEW again \in Stage, NEW after \in Stage,
         Advance(s, seq, again, after),
         Len(seq) \in Nat, DOMAIN seq = 1..Len(seq), at[s] \in DOMAIN seq
  PROVE  Advanced(s, seq, again, after)
<1>1. at \in [Seeders -> Nat \ {0}] /\ pc \in [Seeders -> Stage]
  BY DEF Types
<1>2. CASE at[s] < Len(seq)
  BY <1>1, <1>2 DEF Advance, Goto, Advanced
<1>3. CASE ~(at[s] < Len(seq))
  BY <1>1, <1>3 DEF Advance, Goto, Advanced
<1> QED BY <1>2, <1>3

-----------------------------------------------------------------------------

LEMMA InitTyped == Init => Typed
<1> SUFFICES ASSUME Init PROVE Typed
  OBVIOUS
<1>1. Types
  <2>1. 0 \in 0..MaxRuns /\ 0 \in 0..MaxFaults /\ 1 \in Nat \ {0} /\ "off" \in Stage
    BY RunsAssumption DEF Stage
  <2>2. /\ tournament \in Id \cup {None}
        /\ groups \in [ElementsOf(Labels) -> Id \cup {None}]
        /\ phases \in [ElementsOf(Stages) -> Id \cup {None}]
        /\ teams \in [ElementsOf(Codes) -> Id \cup {None}]
        /\ assigned \in [ElementsOf(Codes) -> Id \cup {None}]
    BY NoRowsType DEF Init
  <2>3. /\ tid \in [Seeders -> Id \cup {None}] /\ hand \in [Seeders -> Id \cup {None}]
        /\ group_index \in [Seeders -> [ElementsOf(Labels) -> Id \cup {None}]]
        /\ knockout_index \in [Seeders -> [ElementsOf(Stages) -> Id \cup {None}]]
        /\ country_to_id \in [Seeders -> [ElementsOf(Codes) -> Id \cup {None}]]
    BY NoRowsType DEF Init
  <2>4. /\ pc \in [Seeders -> Stage] /\ run \in [Seeders -> 0..MaxRuns]
        /\ at \in [Seeders -> Nat \ {0}] /\ faults \in 0..MaxFaults
        /\ catalog \in [Seeders -> SUBSET ElementsOf(Codes)]
        /\ met \in [Seeders -> BOOLEAN] /\ overlapped \in BOOLEAN
    BY <2>1 DEF Init
  <2> QED BY <2>2, <2>3, <2>4 DEF Types
<1>2. ASSUME NEW s \in Seeders PROVE Placed(s)
  <2>1. pc[s] = "off"
    BY DEF Init
  <2> QED BY <2>1 DEF Placed, InItsLists
<1> QED BY <1>1, <1>2 DEF Typed

\* Each step of a run keeps the types.
LEMMA NextTyped == Typed /\ [Next]_vars => Typed'
<1> SUFFICES ASSUME Types, \A q \in Seeders : Placed(q), [Next]_vars
             PROVE  Types' /\ \A q \in Seeders : Placed(q)'
  BY DEF Typed
<1>1. CASE UNCHANGED vars
  BY <1>1 DEF vars, Types, Placed, InItsLists
<1>2. ASSUME NEW s \in Seeders, Start(s) PROVE Types' /\ \A q \in Seeders : Placed(q)'
  <2>1. /\ pc' \in [Seeders -> Stage] /\ pc'[s] = "find tournament"
        /\ \A q \in Seeders \ {s} : pc'[q] = pc[q]
    BY <1>2, GotoPc DEF Start, Stage
  <2>2. /\ at' \in [Seeders -> Nat \ {0}] /\ hand' \in [Seeders -> Id \cup {None}]
        /\ run' \in [Seeders -> 0..MaxRuns]
        /\ at'[s] = 1 /\ run'[s] \in 1..MaxRuns
        /\ \A q \in Seeders \ {s} : at'[q] = at[q] /\ hand'[q] = hand[q] /\ run'[q] = run[q]
    <3>1. run[s] \in 0..MaxRuns /\ run[s] < MaxRuns /\ MaxRuns \in Nat
      BY <1>2, RunsAssumption DEF Start, Types
    <3>2. run[s] + 1 \in 1..MaxRuns /\ run[s] + 1 \in 0..MaxRuns
      BY <3>1
    <3>3. /\ at' = [at EXCEPT ![s] = 1] /\ hand' = [hand EXCEPT ![s] = None]
          /\ run' = [run EXCEPT ![s] = run[s] + 1]
      BY <1>2 DEF Start
    <3>4. /\ at \in [Seeders -> Nat \ {0}] /\ hand \in [Seeders -> Id \cup {None}]
          /\ run \in [Seeders -> 0..MaxRuns]
      BY DEF Types
    <3> QED BY <3>2, <3>3, <3>4
  <2>3. Types'
    BY <1>2, <2>1, <2>2, NoRowsType DEF Start, Types, tables
  <2>4. Placed(s)'
    BY <2>1, <2>2 DEF Placed, InItsLists
  <2> QED BY <2>1, <2>2, <2>3, <2>4, OthersPlaced
<1>3. ASSUME NEW s \in Seeders,
             FindTournament(s) \/ ReadTournament(s) \/ ListGroups(s) \/ ListPhases(s)
      PROVE  Types' /\ \A q \in Seeders : Placed(q)'
  <2>1. /\ at[s] = 1 /\ pc[s] # "off"
        /\ UNCHANGED <<tables, run, met, overlapped, faults, at, hand, country_to_id, catalog>>
    BY <1>3 DEF FindTournament, ReadTournament, ListGroups, ListPhases, Placed, Frame
  <2>2. \E stage \in {"list groups", "upsert tournament", "list phases", "list teams",
                      "find group"} : Goto(s, stage)
    BY <1>3 DEF FindTournament, ReadTournament, ListGroups, ListPhases
  <2>3. /\ pc' \in [Seeders -> Stage]
        /\ pc'[s] \in {"list groups", "upsert tournament", "list phases", "list teams",
                       "find group"}
        /\ \A q \in Seeders \ {s} : pc'[q] = pc[q]
    BY <2>2, GotoPc DEF Stage
  <2>4. /\ tid' \in [Seeders -> Id \cup {None}]
        /\ group_index' \in [Seeders -> [ElementsOf(Labels) -> Id \cup {None}]]
        /\ knockout_index' \in [Seeders -> [ElementsOf(Stages) -> Id \cup {None}]]
    <3>1. CASE FindTournament(s) \/ ReadTournament(s)
      <4>1. /\ tid' = [tid EXCEPT ![s] = tournament]
            /\ UNCHANGED <<group_index, knockout_index>>
        BY <3>1 DEF FindTournament, ReadTournament, FindByExternalId
      <4> QED BY <4>1 DEF Types
    <3>2. CASE ListGroups(s)
      BY <3>2, ListsType DEF ListGroups, Types
    <3>3. CASE ListPhases(s)
      BY <3>3, ListsType, NoRowsType DEF ListPhases, Types
    <3> QED BY <1>3, <3>1, <3>2, <3>3
  <2>5. Types'
    BY <2>1, <2>3, <2>4 DEF Types, tables
  <2>6. Placed(s)'
    <3>1. run' = run /\ at' = at
      BY <2>1
    <3>2. run[s] \in 1..MaxRuns
      BY <2>1, <2>3 DEF Placed
    <3> QED BY <2>1, <2>3, <3>1, <3>2, FirstPositions DEF Placed, InItsLists
  <2> QED BY <2>1, <2>3, <2>5, <2>6, OthersPlaced
<1>4. ASSUME NEW s \in Seeders, UpsertTournament(s)
      PROVE  Types' /\ \A q \in Seeders : Placed(q)'
  <2>1. /\ pc' \in [Seeders -> Stage] /\ pc'[s] = "read tournament" /\ pc[s] = "upsert tournament"
        /\ \A q \in Seeders \ {s} : pc'[q] = pc[q]
    BY <1>4, GotoPc DEF UpsertTournament, Stage
  <2>2. tournament' \in Id \cup {None}
    <3>1. Fresh(s) \in Id /\ tournament \in Id \cup {None}
      BY <2>1, FreshType DEF Types
    <3> QED BY <1>4, <3>1, StoredType DEF UpsertTournament, TournamentUpsert
  <2>3. Types'
    BY <1>4, <2>1, <2>2 DEF UpsertTournament, Frame, locals, Types
  <2>4. Placed(s)'
    BY <1>4, <2>1 DEF UpsertTournament, Frame, locals, Placed, InItsLists
  <2> QED BY <1>4, <2>1, <2>3, <2>4, OthersPlaced DEF UpsertTournament, Frame, locals
<1>5. ASSUME NEW s \in Seeders, FindGroup(s) \/ FindPhase(s)
      PROVE  Types' /\ \A q \in Seeders : Placed(q)'
  <2>1. /\ pc' \in [Seeders -> Stage]
        /\ \/ pc[s] = "find group" /\ pc'[s] = "upsert group"
           \/ pc[s] = "find phase" /\ pc'[s] = "upsert phase"
        /\ \A q \in Seeders \ {s} : pc'[q] = pc[q]
    BY <1>5, GotoPc DEF FindGroup, FindPhase, Stage
  <2>2. Fresh(s) \in Id
    BY <2>1, FreshType
  <2>3. \E old \in Id \cup {None} : hand' = [hand EXCEPT ![s] = Stored(old, Fresh(s))]
    <3>1. CASE FindGroup(s)
      <4>1. ListGroupsOf(tid[s])[Labels[at[s]]] \in Id \cup {None}
        BY <3>1, ListsType, Elements DEF FindGroup, Placed, InItsLists
      <4> QED BY <3>1, <4>1 DEF FindGroup, FindByName
    <3>2. CASE FindPhase(s)
      <4>1. ListPhasesOf(tid[s])[Stages[at[s]]] \in Id \cup {None}
        BY <3>2, ListsType, Elements DEF FindPhase, Placed, InItsLists
      <4> QED BY <3>2, <4>1 DEF FindPhase, FindByStage
    <3> QED BY <1>5, <3>1, <3>2
  <2>4. /\ hand' \in [Seeders -> Id \cup {None}] /\ hand'[s] # None
        /\ \A q \in Seeders \ {s} : hand'[q] = hand[q]
    <3>1. PICK old \in Id \cup {None} : hand' = [hand EXCEPT ![s] = Stored(old, Fresh(s))]
      BY <2>3
    <3>2. Stored(old, Fresh(s)) \in Id /\ Stored(old, Fresh(s)) # None
      BY <2>2, StoredType
    <3> QED BY <3>1, <3>2 DEF Types
  <2>5. UNCHANGED <<tables, run, met, overlapped, faults, tid, group_index, knockout_index, at,
                    country_to_id, catalog>>
    BY <1>5 DEF FindGroup, FindPhase, Frame
  <2>6. Types'
    BY <2>1, <2>4, <2>5 DEF Types, tables
  <2>7. Placed(s)'
    BY <2>1, <2>4, <2>5 DEF Placed, InItsLists
  <2> QED BY <2>1, <2>4, <2>5, <2>6, <2>7, OthersPlaced
<1>6. ASSUME NEW s \in Seeders, UpsertGroup(s)
      PROVE  Types' /\ \A q \in Seeders : Placed(q)'
  <2>1. /\ pc[s] = "upsert group" /\ at[s] \in DOMAIN Labels /\ hand[s] \in Id
        /\ Labels[at[s]] \in ElementsOf(Labels)
    BY <1>6, Elements DEF UpsertGroup, Placed, InItsLists, Types
  <2>2. /\ groups' \in [ElementsOf(Labels) -> Id \cup {None}]
        /\ group_index' \in [Seeders -> [ElementsOf(Labels) -> Id \cup {None}]]
        /\ hand' \in [Seeders -> Id \cup {None}]
        /\ \A q \in Seeders \ {s} : hand'[q] = hand[q]
    BY <1>6, <2>1, StoredType DEF UpsertGroup, GroupUpsert, Types
  <2>3. /\ at' \in [Seeders -> Nat \ {0}] /\ pc' \in [Seeders -> Stage]
        /\ \A q \in Seeders \ {s} : at'[q] = at[q] /\ pc'[q] = pc[q]
        /\ \/ pc'[s] = "find group" /\ at'[s] \in DOMAIN Labels
           \/ pc'[s] = "find phase" /\ at'[s] \in DOMAIN Stages
    <3>1. Advance(s, Labels, "find group", "find phase")
      BY <1>6 DEF UpsertGroup
    <3>2. "find group" \in Stage /\ "find phase" \in Stage
      BY DEF Stage
    <3>3. Advanced(s, Labels, "find group", "find phase")
      BY <2>1, <3>1, <3>2, AdvanceCases, Positions
    <3> QED BY <3>3, FirstPositions DEF Advanced
  <2>4. Types'
    BY <1>6, <2>2, <2>3 DEF UpsertGroup, Frame, Types
  <2>5. Placed(s)'
    BY <1>6, <2>1, <2>3 DEF UpsertGroup, Frame, Placed, InItsLists
  <2> QED BY <1>6, <2>2, <2>3, <2>4, <2>5, OthersPlaced DEF UpsertGroup, Frame
<1>7. ASSUME NEW s \in Seeders, UpsertPhase(s)
      PROVE  Types' /\ \A q \in Seeders : Placed(q)'
  <2>1. /\ pc[s] = "upsert phase" /\ at[s] \in DOMAIN Stages /\ hand[s] \in Id
        /\ Stages[at[s]] \in ElementsOf(Stages)
    BY <1>7, Elements DEF UpsertPhase, Placed, InItsLists, Types
  <2>2. /\ phases' \in [ElementsOf(Stages) -> Id \cup {None}]
        /\ knockout_index' \in [Seeders -> [ElementsOf(Stages) -> Id \cup {None}]]
        /\ hand' \in [Seeders -> Id \cup {None}]
        /\ \A q \in Seeders \ {s} : hand'[q] = hand[q]
    BY <1>7, <2>1, StoredType DEF UpsertPhase, PhaseUpsert, Types
  <2>3. /\ at' \in [Seeders -> Nat \ {0}] /\ pc' \in [Seeders -> Stage]
        /\ \A q \in Seeders \ {s} : at'[q] = at[q] /\ pc'[q] = pc[q]
        /\ \/ pc'[s] = "find phase" /\ at'[s] \in DOMAIN Stages
           \/ pc'[s] = "list teams" /\ at'[s] = 1
    <3>1. Advance(s, Stages, "find phase", "list teams")
      BY <1>7 DEF UpsertPhase
    <3>2. "find phase" \in Stage /\ "list teams" \in Stage
      BY DEF Stage
    <3>3. Advanced(s, Stages, "find phase", "list teams")
      BY <2>1, <3>1, <3>2, AdvanceCases, Positions
    <3> QED BY <3>3, Positions DEF Advanced
  <2>4. Types'
    BY <1>7, <2>2, <2>3 DEF UpsertPhase, Frame, Types
  <2>5. Placed(s)'
    BY <1>7, <2>1, <2>3 DEF UpsertPhase, Frame, Placed, InItsLists
  <2> QED BY <1>7, <2>2, <2>3, <2>4, <2>5, OthersPlaced DEF UpsertPhase, Frame
<1>8. ASSUME NEW s \in Seeders, ListTeams(s) \/ ReadTeams(s) \/ AssignRefused(s)
      PROVE  Types' /\ \A q \in Seeders : Placed(q)'
  <2>1. UNCHANGED <<tables, run, met, overlapped, faults, tid, group_index, knockout_index, at,
                    hand, country_to_id>>
    BY <1>8 DEF ListTeams, ReadTeams, AssignRefused, Frame, locals
  <2>2. catalog' \in [Seeders -> SUBSET ElementsOf(Codes)]
    <3>1. ListAllTeams \in SUBSET ElementsOf(Codes)
      BY DEF ListAllTeams
    <3>2. catalog' = catalog \/ catalog' = [catalog EXCEPT ![s] = ListAllTeams]
      BY <1>8 DEF ListTeams, ReadTeams, AssignRefused, locals
    <3>3. catalog \in [Seeders -> SUBSET ElementsOf(Codes)]
      BY DEF Types
    <3> QED BY <3>1, <3>2, <3>3
  <2>3. /\ pc' \in [Seeders -> Stage] /\ pc[s] # "off"
        /\ \/ pc'[s] = "upsert team" /\ at[s] = 1
           \/ pc'[s] \in {"ready", "off"}
        /\ \A q \in Seeders \ {s} : pc'[q] = pc[q]
    BY <1>8, GotoPc DEF ListTeams, ReadTeams, AssignRefused, Stage, Placed
  <2>4. Types'
    BY <2>1, <2>2, <2>3 DEF Types, tables
  <2>5. Placed(s)'
    <3>1. run' = run /\ at' = at
      BY <2>1
    <3>2. run[s] \in 1..MaxRuns
      BY <2>1, <2>3 DEF Placed
    <3> QED BY <2>1, <2>3, <3>1, <3>2, FirstPositions DEF Placed, InItsLists
  <2> QED BY <2>1, <2>3, <2>4, <2>5, OthersPlaced
<1>9. ASSUME NEW s \in Seeders, UpsertTeam(s)
      PROVE  Types' /\ \A q \in Seeders : Placed(q)'
  <2>1. /\ pc[s] = "upsert team" /\ at[s] \in DOMAIN Codes /\ Codes[at[s]] \in ElementsOf(Codes)
    BY <1>9, Elements DEF UpsertTeam, Placed, InItsLists
  <2>2. /\ teams' \in [ElementsOf(Codes) -> Id \cup {None}]
        /\ country_to_id' \in [Seeders -> [ElementsOf(Codes) -> Id \cup {None}]]
    <3>1. Fresh(s) \in Id
      BY <2>1, FreshType
    <3> QED BY <1>9, <2>1, <3>1, StoredType DEF UpsertTeam, TeamUpsert, Types
  <2>3. /\ at' \in [Seeders -> Nat \ {0}] /\ pc' \in [Seeders -> Stage]
        /\ \A q \in Seeders \ {s} : at'[q] = at[q] /\ pc'[q] = pc[q]
        /\ \/ pc'[s] = "upsert team" /\ at'[s] \in DOMAIN Codes
           \/ pc'[s] = "assign" /\ at'[s] \in DOMAIN Assignments
    <3>1. Advance(s, Codes, "upsert team", "assign")
      BY <1>9 DEF UpsertTeam
    <3>2. "upsert team" \in Stage /\ "assign" \in Stage
      BY DEF Stage
    <3>3. 1 \in DOMAIN Assignments
      BY AssignmentList
    <3>4. Advanced(s, Codes, "upsert team", "assign")
      BY <2>1, <3>1, <3>2, AdvanceCases, Positions
    <3> QED BY <3>3, <3>4, Positions DEF Advanced
  <2>4. Types'
    BY <1>9, <2>2, <2>3 DEF UpsertTeam, Frame, Types
  <2>5. Placed(s)'
    BY <1>9, <2>1, <2>3 DEF UpsertTeam, Frame, Placed, InItsLists
  <2> QED BY <1>9, <2>3, <2>4, <2>5, OthersPlaced DEF UpsertTeam, Frame
<1>10. ASSUME NEW s \in Seeders, Assign(s)
       PROVE  Types' /\ \A q \in Seeders : Placed(q)'
  <2>1. pc[s] = "assign" /\ at[s] \in DOMAIN Assignments
    BY <1>10 DEF Assign, Placed, InItsLists
  <2>2. assigned' \in [ElementsOf(Codes) -> Id \cup {None}]
    <3>1. Assignments[at[s]].label \in ElementsOf(Labels) \cup {None}
      BY <2>1, AssignmentList
    <3>2. /\ assigned \in [ElementsOf(Codes) -> Id \cup {None}]
          /\ group_index[s] \in [ElementsOf(Labels) -> Id \cup {None}]
      BY DEF Types
    <3>3. CASE Resolves(s, Assignments[at[s]])
      BY <1>10, <3>1, <3>2, <3>3 DEF Assign, Resolves
    <3>4. CASE ~Resolves(s, Assignments[at[s]])
      BY <1>10, <3>2, <3>4 DEF Assign
    <3> QED BY <3>3, <3>4
  <2>3. /\ at' \in [Seeders -> Nat \ {0}] /\ pc' \in [Seeders -> Stage]
        /\ \A q \in Seeders \ {s} : at'[q] = at[q] /\ pc'[q] = pc[q]
        /\ \/ pc'[s] = "assign" /\ at'[s] \in DOMAIN Assignments
           \/ pc'[s] = "read teams"
    <3>1. Advance(s, Assignments, "assign", "read teams")
      BY <1>10 DEF Assign
    <3>2. "assign" \in Stage /\ "read teams" \in Stage
      BY DEF Stage
    <3>3. Advanced(s, Assignments, "assign", "read teams")
      BY <2>1, <3>1, <3>2, AdvanceCases, AssignmentList
    <3> QED BY <3>3, AssignmentList DEF Advanced
  <2>4. UNCHANGED <<tournament, groups, phases, teams, run, met, overlapped, faults, tid,
                    group_index, knockout_index, hand, country_to_id, catalog>>
    BY <1>10 DEF Assign, Frame
  <2>5. Types'
    BY <2>2, <2>3, <2>4 DEF Types
  <2>6. Placed(s)'
    BY <2>1, <2>3, <2>4 DEF Placed, InItsLists
  <2> QED BY <2>3, <2>4, <2>5, <2>6, OthersPlaced
<1>11. ASSUME NEW s \in Seeders, Die(s) PROVE Types' /\ \A q \in Seeders : Placed(q)'
  <2>1. /\ pc' \in [Seeders -> Stage] /\ pc'[s] = "off"
        /\ \A q \in Seeders \ {s} : pc'[q] = pc[q]
    BY <1>11, GotoPc DEF Die, Stage
  <2>2. Types'
    BY <1>11, <2>1, RunsAssumption DEF Die, tables, locals, Types
  <2>3. Placed(s)'
    BY <2>1 DEF Placed, InItsLists
  <2> QED BY <1>11, <2>1, <2>2, <2>3, OthersPlaced DEF Die, locals
<1> QED
  BY <1>1, <1>2, <1>3, <1>4, <1>5, <1>6, <1>7, <1>8, <1>9, <1>10, <1>11 DEF Next, Step

LEMMA AlwaysTyped == Spec => []Typed
BY InitTyped, NextTyped, PTL DEF Spec

\* Rows, ids and positions stay in their sets: no loop leaves its list.
THEOREM TypeCorrectness == Spec => []TypeOK
<1>1. Typed => TypeOK
  BY DEF Typed, TypeOK, Placed
<1> QED BY <1>1, AlwaysTyped, PTL

-----------------------------------------------------------------------------
(* Ids.                                                                    *)

\* No step changes the id of a row.
Grows ==
  /\ tournament # None => tournament' = tournament
  /\ \A g \in ElementsOf(Labels) : groups[g] # None => groups'[g] = groups[g]
  /\ \A k \in ElementsOf(Stages) : phases[k] # None => phases'[k] = phases[k]
  /\ \A c \in ElementsOf(Codes) : teams[c] # None => teams'[c] = teams[c]

LEMMA StepGrows == Typed /\ [Next]_vars => Grows
<1> SUFFICES ASSUME Types, [Next]_vars PROVE Grows
  BY DEF Typed
<1>1. CASE UNCHANGED <<tournament, groups, phases, teams>>
  BY <1>1 DEF Grows
<1>2. ASSUME NEW id, TournamentUpsert(id), UNCHANGED <<groups, phases, teams>> PROVE Grows
  BY <1>2 DEF TournamentUpsert, Stored, Grows
<1>3. ASSUME NEW g, NEW id, GroupUpsert(g, id), UNCHANGED <<tournament, phases, teams>>
      PROVE  Grows
  BY <1>3 DEF GroupUpsert, Stored, Grows, Types
<1>4. ASSUME NEW k, NEW id, PhaseUpsert(k, id), UNCHANGED <<tournament, groups, teams>>
      PROVE  Grows
  BY <1>4 DEF PhaseUpsert, Stored, Grows, Types
<1>5. ASSUME NEW c, NEW id, TeamUpsert(c, id), UNCHANGED <<tournament, groups, phases>>
      PROVE  Grows
  BY <1>5 DEF TeamUpsert, Stored, Grows, Types
<1>6. CASE UNCHANGED vars
  BY <1>1, <1>6 DEF vars
<1>7. ASSUME NEW s \in Seeders, Start(s) \/ Die(s) PROVE Grows
  BY <1>1, <1>7 DEF Start, Die, tables
<1>8. ASSUME NEW s \in Seeders, Step(s) PROVE Grows
  <2>1. CASE FindTournament(s) \/ ReadTournament(s) \/ ListGroups(s) \/ ListPhases(s)
             \/ FindGroup(s) \/ FindPhase(s) \/ ListTeams(s) \/ AssignRefused(s) \/ ReadTeams(s)
    BY <1>1, <2>1 DEF FindTournament, ReadTournament, ListGroups, ListPhases, FindGroup,
       FindPhase, ListTeams, AssignRefused, ReadTeams, tables
  <2>2. CASE UpsertTournament(s)
    BY <1>2, <2>2 DEF UpsertTournament
  <2>3. CASE UpsertGroup(s)
    BY <1>3, <2>3 DEF UpsertGroup
  <2>4. CASE UpsertPhase(s)
    BY <1>4, <2>4 DEF UpsertPhase
  <2>5. CASE UpsertTeam(s)
    BY <1>5, <2>5 DEF UpsertTeam
  <2>6. CASE Assign(s)
    BY <1>1, <2>6 DEF Assign
  <2> QED BY <1>8, <2>1, <2>2, <2>3, <2>4, <2>5, <2>6 DEF Step
<1> QED BY <1>6, <1>7, <1>8 DEF Next

\* A row keeps its id whichever runs overlap, die or start over.
THEOREM RowsKeepTheirIds == Spec => IdsStand
<1>1. Typed /\ [Next]_vars => [Grows]_vars
  BY StepGrows
<1>2. Spec => [][Grows]_vars
  BY <1>1, AlwaysTyped, PTL DEF Spec
<1> QED BY <1>2 DEF IdsStand, Grows

-----------------------------------------------------------------------------
(* The tournament each run goes by.                                        *)

BeforeTournament == {"off", "find tournament", "upsert tournament", "read tournament"}

\* Once a run has sent its row there is one, and the id it reads is that row's.
GoesBy(s) ==
  /\ pc[s] = "read tournament" => tournament # None
  /\ pc[s] \notin BeforeTournament => tid[s] # None /\ tid[s] = tournament

GoesByInv == \A s \in Seeders : GoesBy(s)

LEMMA InitGoesBy == Init => GoesByInv
<1>1. Init => \A s \in Seeders : pc[s] = "off"
  BY DEF Init
<1> QED BY <1>1 DEF GoesByInv, GoesBy, BeforeTournament

LEMMA NextGoesBy == Typed /\ GoesByInv /\ [Next]_vars => GoesByInv'
<1> SUFFICES ASSUME Types, \A q \in Seeders : Placed(q), \A q \in Seeders : GoesBy(q),
                    [Next]_vars, Grows
             PROVE  \A q \in Seeders : GoesBy(q)'
  BY StepGrows DEF Typed, GoesByInv
<1>1. tid \in [Seeders -> Id \cup {None}] /\ pc \in [Seeders -> Stage]
      /\ tournament \in Id \cup {None}
  BY DEF Types
<1>2. ASSUME NEW q \in Seeders, pc'[q] = pc[q], tid'[q] = tid[q] PROVE GoesBy(q)'
  BY <1>2, <1>1 DEF GoesBy, BeforeTournament, Grows
<1>3. CASE UNCHANGED vars
  BY <1>2, <1>3 DEF vars
<1>4. ASSUME NEW s \in Seeders, Start(s) \/ Step(s) \/ Die(s)
      PROVE  \A q \in Seeders : GoesBy(q)'
  <2>1. \A q \in Seeders \ {s} : pc'[q] = pc[q] /\ tid'[q] = tid[q]
    <3>1. CASE Start(s) \/ Die(s)
      BY <3>1, <1>1 DEF Start, Die, Goto, locals
    <3>2. CASE Step(s)
      BY <3>2, <1>1 DEF Step, FindTournament, UpsertTournament, ReadTournament, ListGroups,
         ListPhases, FindGroup, UpsertGroup, FindPhase, UpsertPhase, ListTeams, UpsertTeam,
         Assign, AssignRefused, ReadTeams, Advance, Goto, locals
    <3> QED BY <1>4, <3>1, <3>2
  <2>2. GoesBy(s)'
    <3>1. CASE Start(s) \/ Die(s)
      BY <3>1, <1>1 DEF Start, Die, Goto, GoesBy, BeforeTournament
    <3>2. CASE FindTournament(s) \/ ReadTournament(s)
      BY <3>2, <1>1 DEF FindTournament, ReadTournament, FindByExternalId, Goto, tables, GoesBy,
         BeforeTournament
    <3>3. CASE UpsertTournament(s)
      <4>1. Fresh(s) \in Id
        BY <3>3, FreshType DEF UpsertTournament
      <4>2. tournament' # None
        BY <3>3, <4>1, <1>1, StoredType DEF UpsertTournament, TournamentUpsert
      <4> QED BY <3>3, <4>2, <1>1 DEF UpsertTournament, Goto, GoesBy, BeforeTournament
    <3>4. CASE ListGroups(s) \/ ListPhases(s) \/ FindGroup(s) \/ UpsertGroup(s) \/ FindPhase(s)
               \/ UpsertPhase(s) \/ ListTeams(s) \/ UpsertTeam(s) \/ Assign(s)
               \/ AssignRefused(s) \/ ReadTeams(s)
      <4>1. pc[s] \notin BeforeTournament /\ pc[s] # "read tournament"
        BY <3>4 DEF ListGroups, ListPhases, FindGroup, UpsertGroup, FindPhase, UpsertPhase,
           ListTeams, UpsertTeam, Assign, AssignRefused, ReadTeams, BeforeTournament
      <4>2. tid' = tid
        BY <3>4 DEF ListGroups, ListPhases, FindGroup, UpsertGroup, FindPhase, UpsertPhase,
           ListTeams, UpsertTeam, Assign, AssignRefused, ReadTeams, locals
      <4>3. pc'[s] # "read tournament"
        BY <3>4, <1>1 DEF ListGroups, ListPhases, FindGroup, UpsertGroup, FindPhase,
           UpsertPhase, ListTeams, UpsertTeam, Assign, AssignRefused, ReadTeams, Advance, Goto
      <4> QED BY <4>1, <4>2, <4>3 DEF GoesBy, Grows
    <3> QED BY <1>4, <3>1, <3>2, <3>3, <3>4 DEF Step
  <2> QED BY <1>2, <2>1, <2>2
<1> QED BY <1>3, <1>4 DEF Next

LEMMA AlwaysGoesBy == Spec => []GoesByInv
BY InitGoesBy, NextGoesBy, AlwaysTyped, PTL DEF Spec

\* Every run goes by the id of the tournament's one row.
THEOREM TournamentIsCanonical == Spec => []CanonicalTournament
<1>1. GoesByInv => CanonicalTournament
  BY DEF GoesByInv, GoesBy, BeforeTournament, CanonicalTournament
<1> QED BY <1>1, AlwaysGoesBy, PTL

-----------------------------------------------------------------------------
(* Groups before phases.                                                   *)

GroupsSeeded == \A g \in ElementsOf(Labels) : groups[g] # None

\* The groups a run has been through are stored; it starts on the phases when all are.
Seeding(s) ==
  /\ pc[s] \in {"find group", "upsert group"} =>
       \A i \in DOMAIN Labels : i < at[s] => groups[Labels[i]] # None
  /\ pc[s] \in {"find phase", "upsert phase"} => GroupsSeeded

SeedingInv == PhasesAfterGroups /\ \A s \in Seeders : Seeding(s)

LEMMA InitSeeding == Init => SeedingInv
BY DEF Init, NoPhases, SeedingInv, PhasesAfterGroups, Seeding

LEMMA NextSeeding == Typed /\ SeedingInv /\ [Next]_vars => SeedingInv'
<1> SUFFICES ASSUME Types, \A q \in Seeders : Placed(q), SeedingInv, [Next]_vars, Grows
             PROVE  SeedingInv'
  BY StepGrows DEF Typed
<1>1. /\ pc \in [Seeders -> Stage] /\ at \in [Seeders -> Nat \ {0}]
      /\ groups \in [ElementsOf(Labels) -> Id \cup {None}]
      /\ phases \in [ElementsOf(Stages) -> Id \cup {None}]
      /\ hand \in [Seeders -> Id \cup {None}]
  BY DEF Types
<1>2. /\ GroupsSeeded => GroupsSeeded'
      /\ \A i \in DOMAIN Labels : groups[Labels[i]] # None => groups'[Labels[i]] # None
  BY Elements DEF Grows, GroupsSeeded
<1>3. ASSUME NEW q \in Seeders, pc'[q] = pc[q], at'[q] = at[q] PROVE Seeding(q)'
  BY <1>2, <1>3 DEF SeedingInv, Seeding
<1>4. ASSUME phases' = phases PROVE PhasesAfterGroups'
  BY <1>4, <1>2 DEF SeedingInv, PhasesAfterGroups, GroupsSeeded
<1>5. CASE UNCHANGED vars
  BY <1>3, <1>4, <1>5 DEF vars, SeedingInv
<1>6. ASSUME NEW s \in Seeders, Start(s) \/ Step(s) \/ Die(s) PROVE SeedingInv'
  <2>1. \A q \in Seeders \ {s} : pc'[q] = pc[q] /\ at'[q] = at[q]
    <3>1. CASE Start(s) \/ Die(s)
      BY <3>1, <1>1 DEF Start, Die, Goto, locals
    <3>2. CASE Step(s)
      BY <3>2, <1>1 DEF Step, FindTournament, UpsertTournament, ReadTournament, ListGroups,
         ListPhases, FindGroup, UpsertGroup, FindPhase, UpsertPhase, ListTeams, UpsertTeam,
         Assign, AssignRefused, ReadTeams, Advance, Goto, locals
    <3> QED BY <1>6, <3>1, <3>2
  <2>2. Seeding(s)'
    <3>1. CASE pc'[s] \notin {"find group", "upsert group", "find phase", "upsert phase"}
      BY <3>1 DEF Seeding
    <3>2. CASE FindGroup(s) \/ FindPhase(s)
      <4>1. UNCHANGED <<at, groups>>
        BY <3>2 DEF FindGroup, FindPhase, tables
      <4>2. \/ pc[s] = "find group" /\ pc'[s] = "upsert group"
            \/ pc[s] = "find phase" /\ pc'[s] = "upsert phase"
        BY <3>2, <1>1 DEF FindGroup, FindPhase, Goto
      <4> QED BY <4>1, <4>2 DEF SeedingInv, Seeding, GroupsSeeded
    <3>3. CASE ListPhases(s)
      <4>1. at'[s] = 1 /\ pc'[s] \in {"list teams", "find group"}
        BY <3>3, <1>1 DEF ListPhases, Goto, Placed
      <4>2. \A i \in DOMAIN Labels : ~(i < 1)
        BY LabelPositions
      <4> QED BY <4>1, <4>2 DEF Seeding
    <3>4. CASE UpsertGroup(s)
      <4>1. pc[s] = "upsert group" /\ at[s] \in DOMAIN Labels /\ hand[s] \in Id
        BY <3>4, <1>1 DEF UpsertGroup, Placed, InItsLists
      <4>2. groups'[Labels[at[s]]] # None
        BY <3>4, <4>1, <1>1, StoredType, Elements DEF UpsertGroup, GroupUpsert
      <4>3. \A i \in DOMAIN Labels : i < at[s] => groups'[Labels[i]] # None
        BY <4>1, <1>2 DEF SeedingInv, Seeding
      <4>4. \A i \in DOMAIN Labels : i < at[s] + 1 => groups'[Labels[i]] # None
        <5> SUFFICES ASSUME NEW i \in DOMAIN Labels, i < at[s] + 1
                     PROVE  groups'[Labels[i]] # None
          OBVIOUS
        <5>1. i = at[s] \/ i < at[s]
          BY <1>1, LabelPositions
        <5> QED BY <5>1, <4>2, <4>3
      <4>5. \/ pc'[s] = "find group" /\ at'[s] = at[s] + 1
            \/ pc'[s] = "find phase" /\ at[s] = Len(Labels)
        <5>1. Advance(s, Labels, "find group", "find phase")
          BY <3>4 DEF UpsertGroup
        <5>2. "find group" \in Stage /\ "find phase" \in Stage
          BY DEF Stage
        <5>3. Advanced(s, Labels, "find group", "find phase")
          BY <4>1, <5>1, <5>2, AdvanceCases, Positions
        <5> QED BY <5>3, Positions DEF Advanced
      <4>6. CASE pc'[s] = "find group" /\ at'[s] = at[s] + 1
        BY <4>4, <4>6 DEF Seeding
      <4>7. CASE pc'[s] = "find phase" /\ at[s] = Len(Labels)
        <5>1. \A i \in DOMAIN Labels : groups'[Labels[i]] # None
          <6> SUFFICES ASSUME NEW i \in DOMAIN Labels PROVE groups'[Labels[i]] # None
            OBVIOUS
          <6>1. i < at[s] + 1
            <7>1. at[s] \in Nat /\ at[s] = Len(Labels) /\ i \in Nat /\ i <= Len(Labels)
              BY <1>1, <4>7, LabelPositions
            <7> QED BY <7>1
          <6> QED BY <6>1, <4>4
        <5> QED BY <4>7, <5>1 DEF Seeding, GroupsSeeded, ElementsOf
      <4> QED BY <4>5, <4>6, <4>7
    <3>5. CASE UpsertPhase(s)
      <4>1. pc[s] = "upsert phase" /\ pc'[s] \in {"find phase", "list teams"}
        BY <3>5, <1>1 DEF UpsertPhase, Advance, Goto
      <4> QED BY <4>1, <1>2 DEF SeedingInv, Seeding
    <3>6. CASE Start(s) \/ Die(s) \/ FindTournament(s) \/ UpsertTournament(s)
               \/ ReadTournament(s) \/ ListGroups(s) \/ ListTeams(s) \/ UpsertTeam(s) \/ Assign(s)
               \/ AssignRefused(s) \/ ReadTeams(s)
      <4>1. pc'[s] \notin {"find group", "upsert group", "find phase", "upsert phase"}
        BY <3>6, <1>1 DEF Start, Die, FindTournament, UpsertTournament, ReadTournament,
           ListGroups, ListTeams, UpsertTeam, Assign, AssignRefused, ReadTeams, Advance, Goto
      <4> QED BY <3>1, <4>1
    <3> QED BY <1>6, <3>2, <3>3, <3>4, <3>5, <3>6 DEF Step
  <2>3. PhasesAfterGroups'
    <3>1. CASE UpsertPhase(s)
      <4>1. GroupsSeeded'
        BY <3>1, <1>2 DEF UpsertPhase, SeedingInv, Seeding
      <4> QED BY <4>1 DEF PhasesAfterGroups, GroupsSeeded
    <3>2. CASE ~UpsertPhase(s)
      <4>1. phases' = phases
        BY <1>6, <3>2 DEF Start, Die, Step, FindTournament, UpsertTournament, ReadTournament,
           ListGroups, ListPhases, FindGroup, UpsertGroup, FindPhase, ListTeams, UpsertTeam,
           Assign, AssignRefused, ReadTeams, tables
      <4> QED BY <1>4, <4>1
    <3> QED BY <3>1, <3>2
  <2> QED BY <1>3, <2>1, <2>2, <2>3 DEF SeedingInv
<1> QED BY <1>5, <1>6 DEF Next

LEMMA AlwaysSeeding == Spec => []SeedingInv
BY InitSeeding, NextSeeding, AlwaysTyped, PTL DEF Spec

\* A phase is stored only when every group is.
THEOREM GroupsComeFirst == Spec => []PhasesAfterGroups
BY AlwaysSeeding, PTL DEF SeedingInv

-----------------------------------------------------------------------------
(* What a step of one run leaves to the others.                            *)

SameRun(q) ==
  /\ pc'[q] = pc[q] /\ at'[q] = at[q] /\ hand'[q] = hand[q] /\ tid'[q] = tid[q]
  /\ group_index'[q] = group_index[q] /\ knockout_index'[q] = knockout_index[q]
  /\ country_to_id'[q] = country_to_id[q] /\ catalog'[q] = catalog[q]

LEMMA StepFrame ==
  ASSUME Types, NEW s \in Seeders, Step(s)
  PROVE  /\ Running(s)
         /\ UNCHANGED <<run, met, overlapped, faults>>
         /\ \A q \in Seeders \ {s} : SameRun(q)
<1>1. Running(s)
  BY DEF Step, FindTournament, UpsertTournament, ReadTournament, ListGroups, ListPhases, FindGroup,
     UpsertGroup, FindPhase, UpsertPhase, ListTeams, UpsertTeam, Assign, AssignRefused, ReadTeams,
     Running
<1>2. UNCHANGED <<run, met, overlapped, faults>>
  BY DEF Step, FindTournament, UpsertTournament, ReadTournament, ListGroups, ListPhases, FindGroup,
     UpsertGroup, FindPhase, UpsertPhase, ListTeams, UpsertTeam, Assign, AssignRefused, ReadTeams,
     Frame
<1>3. ASSUME NEW q \in Seeders \ {s} PROVE SameRun(q)
  <2>1. pc'[q] = pc[q] /\ at'[q] = at[q]
    <3>1. pc \in [Seeders -> Stage] /\ at \in [Seeders -> Nat \ {0}]
      BY DEF Types
    <3>2. ASSUME NEW seq, NEW again, NEW after, Advance(s, seq, again, after)
          PROVE  pc'[q] = pc[q] /\ at'[q] = at[q]
      BY <3>1, <3>2 DEF Advance, Goto
    <3>3. ASSUME NEW stage, Goto(s, stage), at' = at
          PROVE  pc'[q] = pc[q] /\ at'[q] = at[q]
      BY <3>1, <3>3 DEF Goto
    <3>4. CASE UpsertGroup(s) \/ UpsertPhase(s) \/ UpsertTeam(s) \/ Assign(s)
      BY <3>2, <3>4 DEF UpsertGroup, UpsertPhase, UpsertTeam, Assign
    <3>5. CASE \/ FindTournament(s) \/ UpsertTournament(s) \/ ReadTournament(s)
               \/ ListGroups(s) \/ ListPhases(s) \/ FindGroup(s) \/ FindPhase(s)
      BY <3>3, <3>5 DEF FindTournament, UpsertTournament, ReadTournament, ListGroups,
         ListPhases, FindGroup, FindPhase, locals
    <3>6. CASE ListTeams(s) \/ AssignRefused(s) \/ ReadTeams(s)
      BY <3>3, <3>6 DEF ListTeams, AssignRefused, ReadTeams, locals
    <3> QED BY <3>4, <3>5, <3>6 DEF Step
  <2>2. /\ hand'[q] = hand[q] /\ tid'[q] = tid[q] /\ country_to_id'[q] = country_to_id[q]
        /\ catalog'[q] = catalog[q]
    BY DEF Types, Step, FindTournament, UpsertTournament, ReadTournament, ListGroups, ListPhases,
       FindGroup, UpsertGroup, FindPhase, UpsertPhase, ListTeams, UpsertTeam, Assign,
       AssignRefused, ReadTeams, locals
  <2>3. group_index'[q] = group_index[q] /\ knockout_index'[q] = knockout_index[q]
    BY DEF Types, Step, FindTournament, UpsertTournament, ReadTournament, ListGroups, ListPhases,
       FindGroup, UpsertGroup, FindPhase, UpsertPhase, ListTeams, UpsertTeam, Assign,
       AssignRefused, ReadTeams, locals
  <2> QED BY <2>1, <2>2, <2>3 DEF SameRun
<1> QED BY <1>1, <1>2, <1>3

LEMMA StartFrame ==
  ASSUME Types, NEW s \in Seeders, Start(s)
  PROVE  /\ pc'[s] = "find tournament" /\ country_to_id'[s] = NoTeams
         /\ met'[s] = (\E other \in Seeders \ {s} : Running(other))
         /\ overlapped' = (overlapped \/ \E other \in Seeders \ {s} : Running(other))
         /\ UNCHANGED <<tables, faults>>
         /\ \A q \in Seeders \ {s} : SameRun(q) /\ met'[q] = (met[q] \/ Running(q))
<1>1. /\ pc'[s] = "find tournament" /\ country_to_id'[s] = NoTeams
      /\ \A q \in Seeders \ {s} : SameRun(q)
  BY DEF Start, Goto, Types, SameRun
<1>2. /\ met'[s] = (\E other \in Seeders \ {s} : Running(other))
      /\ \A q \in Seeders \ {s} : met'[q] = (met[q] \/ Running(q))
  BY Zenon DEF Start
<1>3. /\ overlapped' = (overlapped \/ \E other \in Seeders \ {s} : Running(other))
      /\ UNCHANGED <<tables, faults>>
  BY DEF Start
<1> QED BY <1>1, <1>2, <1>3

LEMMA DieFrame ==
  ASSUME Types, NEW s \in Seeders, Die(s)
  PROVE  /\ pc'[s] = "off" /\ faults' = faults + 1
         /\ UNCHANGED <<tables, run, met, overlapped>>
         /\ \A q \in Seeders \ {s} : SameRun(q)
BY DEF Die, Goto, Types, SameRun, locals

-----------------------------------------------------------------------------
(* A run that nobody overlaps.                                             *)

\* It is the only one under way.
Alone(s) == Running(s) /\ ~met[s] => \A q \in Seeders \ {s} : ~Running(q)

BeforeTeams == {"find tournament", "upsert tournament", "read tournament", "list groups",
                "list phases", "find group", "upsert group", "find phase", "upsert phase",
                "list teams"}
AfterGroups == {"find phase", "upsert phase", "list teams", "upsert team", "assign",
                "read teams", "ready"}
AfterPhases == {"list teams", "upsert team", "assign", "read teams", "ready"}

\* What it has in hand and in its indexes are the ids of the rows.
IndexedGroups(s) ==
  /\ pc[s] = "list phases" => group_index[s] = groups
  /\ pc[s] = "upsert group" => Stored(groups[Labels[at[s]]], hand[s]) = hand[s]
  /\ pc[s] \in {"find group", "upsert group"} =>
       \A i \in DOMAIN Labels : i < at[s] =>
         groups[Labels[i]] # None /\ group_index[s][Labels[i]] = groups[Labels[i]]
  /\ pc[s] \in AfterGroups =>
       \A g \in ElementsOf(Labels) : groups[g] # None /\ group_index[s][g] = groups[g]

IndexedPhases(s) ==
  /\ pc[s] = "upsert phase" => Stored(phases[Stages[at[s]]], hand[s]) = hand[s]
  /\ pc[s] \in {"find phase", "upsert phase"} =>
       \A i \in DOMAIN Stages : i < at[s] =>
         phases[Stages[i]] # None /\ knockout_index[s][Stages[i]] = phases[Stages[i]]
  /\ pc[s] \in AfterPhases =>
       \A k \in ElementsOf(Stages) : phases[k] # None /\ knockout_index[s][k] = phases[k]

Indexed(s) == ~met[s] => IndexedGroups(s) /\ IndexedPhases(s)

\* Nothing has gone wrong so far.
Quiet == faults = 0 /\ ~overlapped

\* The n-th assignment is in the table.
Written(n) ==
  Assignments[n].code \in ElementsOf(Codes) /\ Assignments[n].label # None =>
    /\ assigned[Assignments[n].code] # None
    /\ assigned[Assignments[n].code] = groups[Assignments[n].label]

AllListed == \A c \in ElementsOf(Codes) : teams[c] # None

SeedingTeams == {"upsert team", "assign", "read teams"}

\* Then a run that writes teams goes by the ids of the rows, and what it has been
\* through is there.
TeamsOf(s) ==
  /\ pc[s] \in SeedingTeams => country_to_id[s] = teams
  /\ pc[s] = "upsert team" =>
       /\ \A i \in DOMAIN Codes : i < at[s] => teams[Codes[i]] # None
       /\ \A i \in DOMAIN Codes : i >= at[s] => teams[Codes[i]] = None
  /\ pc[s] \in {"assign", "read teams", "ready"} => AllListed
  /\ pc[s] = "assign" => \A n \in DOMAIN Assignments : n < at[s] => Written(n)
  /\ pc[s] \in {"read teams", "ready"} => AssignedAsPlayed
  /\ pc[s] = "ready" => catalog[s] = ElementsOf(Codes)

\* And no run leaves the teams half written.
QuietInv ==
  Quiet =>
    /\ \A s \in Seeders : ~met[s]
    /\ \A s \in Seeders : TeamsOf(s)
    /\ (\A s \in Seeders : pc[s] \notin SeedingTeams) =>
         teams = NoTeams \/ (AllListed /\ AssignedAsPlayed)

SoloInv ==
  /\ \A s \in Seeders : Alone(s)
  /\ \A s \in Seeders : pc[s] \in BeforeTeams => country_to_id[s] = NoTeams
  /\ \A s \in Seeders : Indexed(s)
  /\ QuietInv

-----------------------------------------------------------------------------

LEMMA InitSolo == Init => SoloInv
<1> SUFFICES ASSUME Init PROVE SoloInv
  OBVIOUS
<1>1. /\ \A s \in Seeders : pc[s] = "off" /\ ~met[s]
      /\ teams = NoTeams
  BY DEF Init
<1>2. \A s \in Seeders : Alone(s)
  BY <1>1 DEF Alone, Running
<1>3. \A s \in Seeders : pc[s] \in BeforeTeams => country_to_id[s] = NoTeams
  BY <1>1 DEF BeforeTeams
<1>4. \A s \in Seeders : Indexed(s)
  BY <1>1 DEF Indexed, IndexedGroups, IndexedPhases, AfterGroups, AfterPhases
<1>5. QuietInv
  BY <1>1 DEF QuietInv, TeamsOf, SeedingTeams
<1> QED BY <1>2, <1>3, <1>4, <1>5 DEF SoloInv

LEMMA NextAlone ==
  ASSUME Types, \A q \in Seeders : Alone(q), [Next]_vars
  PROVE  \A q \in Seeders : Alone(q)'
<1>1. CASE UNCHANGED vars
  BY <1>1 DEF vars, Alone, Running
<1>2. ASSUME NEW s \in Seeders, Start(s) PROVE \A q \in Seeders : Alone(q)'
  <2>1. /\ pc'[s] = "find tournament"
        /\ met'[s] = (\E other \in Seeders \ {s} : Running(other))
        /\ \A q \in Seeders \ {s} : SameRun(q) /\ met'[q] = (met[q] \/ Running(q))
    BY <1>2, StartFrame
  <2>2. Alone(s)'
    BY <2>1 DEF Alone, Running, SameRun
  <2>3. ASSUME NEW q \in Seeders \ {s} PROVE Alone(q)'
    BY <2>1 DEF Alone, Running, SameRun
  <2> QED BY <2>2, <2>3
<1>3. ASSUME NEW s \in Seeders, Step(s) PROVE \A q \in Seeders : Alone(q)'
  BY <1>3, StepFrame DEF Alone, Running, SameRun
<1>4. ASSUME NEW s \in Seeders, Die(s) PROVE \A q \in Seeders : Alone(q)'
  BY <1>4, DieFrame DEF Alone, Running, SameRun
<1> QED BY <1>1, <1>2, <1>3, <1>4 DEF Next

Unread == \A s \in Seeders : pc[s] \in BeforeTeams => country_to_id[s] = NoTeams

LEMMA NextUnread ==
  ASSUME Types, Unread, [Next]_vars
  PROVE  Unread'
<1>1. CASE UNCHANGED vars
  BY <1>1 DEF vars, Unread
<1>2. ASSUME NEW s \in Seeders, Start(s) PROVE Unread'
  BY <1>2, StartFrame DEF Unread, SameRun
<1>3. ASSUME NEW s \in Seeders, Step(s) PROVE Unread'
  <2>1. pc'[s] \in BeforeTeams => pc[s] \in BeforeTeams /\ country_to_id'[s] = country_to_id[s]
    <3>1. pc \in [Seeders -> Stage]
      BY DEF Types
    <3>2. CASE UpsertTeam(s) \/ Assign(s) \/ AssignRefused(s) \/ ReadTeams(s)
      BY <3>1, <3>2 DEF UpsertTeam, Assign, AssignRefused, ReadTeams, Advance, Goto, BeforeTeams
    <3>3. CASE UpsertGroup(s) \/ UpsertPhase(s)
      BY <3>3 DEF UpsertGroup, UpsertPhase, BeforeTeams
    <3>4. CASE \/ FindTournament(s) \/ UpsertTournament(s) \/ ReadTournament(s)
               \/ ListGroups(s) \/ ListPhases(s)
      BY <3>4 DEF FindTournament, UpsertTournament, ReadTournament, ListGroups, ListPhases,
         locals, BeforeTeams
    <3>5. CASE FindGroup(s) \/ FindPhase(s) \/ ListTeams(s)
      BY <3>5 DEF FindGroup, FindPhase, ListTeams, locals, BeforeTeams
    <3> QED BY <1>3, <3>2, <3>3, <3>4, <3>5 DEF Step
  <2> QED BY <1>3, <2>1, StepFrame DEF Unread, SameRun
<1>4. ASSUME NEW s \in Seeders, Die(s) PROVE Unread'
  BY <1>4, DieFrame DEF Unread, SameRun, BeforeTeams
<1> QED BY <1>1, <1>2, <1>3, <1>4 DEF Next

-----------------------------------------------------------------------------

\* The ids of a run that has ended stand.
LEMMA ReadyIndexed ==
  ASSUME NEW q \in Seeders, Grows, Indexed(q), pc[q] = "ready", SameRun(q), met'[q] = met[q]
  PROVE  Indexed(q)'
BY DEF Indexed, IndexedGroups, IndexedPhases, AfterGroups, AfterPhases, Grows, SameRun

LEMMA GroupsIndexed ==
  ASSUME Types, NEW s \in Seeders, Placed(s), GoesBy(s), PhasesAfterGroups, Step(s),
         IndexedGroups(s)
  PROVE  IndexedGroups(s)'
<1>1. /\ pc \in [Seeders -> Stage] /\ at \in [Seeders -> Nat \ {0}]
      /\ groups \in [ElementsOf(Labels) -> Id \cup {None}]
      /\ phases \in [ElementsOf(Stages) -> Id \cup {None}]
      /\ hand \in [Seeders -> Id \cup {None}]
      /\ group_index \in [Seeders -> [ElementsOf(Labels) -> Id \cup {None}]]
  BY DEF Types
<1>2. CASE FindTournament(s) \/ UpsertTournament(s) \/ ReadTournament(s) \/ AssignRefused(s)
  <2>1. pc'[s] \in {"list groups", "upsert tournament", "read tournament", "off"}
    BY <1>1, <1>2 DEF FindTournament, UpsertTournament, ReadTournament, AssignRefused, Goto
  <2> QED BY <2>1 DEF IndexedGroups, AfterGroups
<1>3. CASE ListGroups(s)
  <2>1. pc'[s] = "list phases" /\ group_index'[s] = groups /\ groups' = groups
    BY <1>1, <1>3 DEF ListGroups, Goto, ListGroupsOf, GoesBy, BeforeTournament, tables
  <2> QED BY <2>1 DEF IndexedGroups, AfterGroups
<1>4. CASE ListPhases(s)
  <2>1. group_index[s] = groups /\ groups' = groups /\ at[s] = 1 /\ at' = at
    BY <1>4 DEF ListPhases, IndexedGroups, tables, Placed
  <2>2. CASE pc'[s] = "list teams"
    <3>1. \A k \in ElementsOf(Stages) : phases[k] # None
      BY <1>1, <1>4, <2>2 DEF ListPhases, Goto, ListPhasesOf, GoesBy, BeforeTournament
    <3>2. \A g \in ElementsOf(Labels) : groups[g] # None
      BY <3>1, FirstPositions, Elements DEF PhasesAfterGroups
    <3>3. group_index'[s] = group_index[s]
      BY <1>1, <1>4, <2>2 DEF ListPhases, Goto
    <3> QED BY <2>1, <2>2, <3>2, <3>3 DEF IndexedGroups, AfterGroups
  <2>3. CASE pc'[s] = "find group"
    <3>1. \A i \in DOMAIN Labels : ~(i < 1)
      BY LabelPositions
    <3> QED BY <2>1, <2>3, <3>1 DEF IndexedGroups, AfterGroups
  <2> QED BY <1>1, <1>4, <2>2, <2>3 DEF ListPhases, Goto
<1>5. CASE FindGroup(s)
  <2>1. UNCHANGED <<groups, group_index, at>> /\ pc[s] = "find group" /\ pc'[s] = "upsert group"
    BY <1>1, <1>5 DEF FindGroup, Goto, tables
  <2>2. Stored(groups[Labels[at[s]]], hand'[s]) = hand'[s]
    <3>1. hand'[s] = Stored(groups[Labels[at[s]]], Fresh(s))
      BY <1>1, <1>5, <2>1 DEF FindGroup, FindByName, ListGroupsOf, GoesBy, BeforeTournament
    <3> QED BY <3>1 DEF Stored
  <2> QED BY <2>1, <2>2 DEF IndexedGroups, AfterGroups
<1>6. CASE UpsertGroup(s)
  <2> DEFINE g == Labels[at[s]]
  <2>1. pc[s] = "upsert group" /\ at[s] \in DOMAIN Labels /\ g \in ElementsOf(Labels)
    BY <1>6, Elements DEF UpsertGroup, Placed, InItsLists
  <2>2. hand[s] # None /\ Stored(groups[g], hand[s]) = hand[s]
    BY <2>1 DEF IndexedGroups, Placed, InItsLists
  <2>3. groups'[g] = hand[s] /\ group_index'[s][g] = hand[s]
    BY <1>1, <1>6, <2>1, <2>2 DEF UpsertGroup, GroupUpsert
  <2>4. \A h \in ElementsOf(Labels) \ {g} :
          groups'[h] = groups[h] /\ group_index'[s][h] = group_index[s][h]
    BY <1>1, <1>6, <2>1 DEF UpsertGroup, GroupUpsert
  <2>5. ASSUME NEW i \in DOMAIN Labels, i < at[s] + 1
        PROVE  groups'[Labels[i]] # None /\ group_index'[s][Labels[i]] = groups'[Labels[i]]
    <3>1. i = at[s] \/ i < at[s]
      BY <1>1, <2>5, LabelPositions
    <3>2. CASE Labels[i] = g
      BY <2>2, <2>3, <3>2
    <3>3. CASE i < at[s] /\ Labels[i] # g
      <4>1. groups[Labels[i]] # None /\ group_index[s][Labels[i]] = groups[Labels[i]]
        BY <2>1, <3>3 DEF IndexedGroups
      <4> QED BY <2>4, <3>3, <4>1, Elements
    <3> QED BY <3>1, <3>2, <3>3
  <2>6. \/ pc'[s] = "find group" /\ at'[s] = at[s] + 1
        \/ pc'[s] = "find phase" /\ at[s] = Len(Labels)
    <3>1. Advance(s, Labels, "find group", "find phase")
      BY <1>6 DEF UpsertGroup
    <3>2. "find group" \in Stage /\ "find phase" \in Stage
      BY DEF Stage
    <3>3. Advanced(s, Labels, "find group", "find phase")
      BY <2>1, <3>1, <3>2, AdvanceCases, Positions
    <3> QED BY <3>3, Positions DEF Advanced
  <2>7. CASE pc'[s] = "find group" /\ at'[s] = at[s] + 1
    BY <2>5, <2>7 DEF IndexedGroups, AfterGroups
  <2>8. CASE pc'[s] = "find phase" /\ at[s] = Len(Labels)
    <3>1. ASSUME NEW i \in DOMAIN Labels PROVE i < at[s] + 1
      <4>1. at[s] \in Nat /\ i \in Nat /\ i <= at[s]
        BY <1>1, <2>8, LabelPositions
      <4> QED BY <4>1
    <3>2. \A h \in ElementsOf(Labels) : groups'[h] # None /\ group_index'[s][h] = groups'[h]
      BY <2>5, <3>1 DEF ElementsOf
    <3> QED BY <2>8, <3>2 DEF IndexedGroups, AfterGroups
  <2> QED BY <2>6, <2>7, <2>8
<1>7. CASE FindPhase(s) \/ UpsertPhase(s) \/ ListTeams(s) \/ UpsertTeam(s) \/ Assign(s)
           \/ ReadTeams(s)
  <2>1. UNCHANGED <<groups, group_index>>
    BY <1>7 DEF FindPhase, UpsertPhase, ListTeams, UpsertTeam, Assign, ReadTeams, tables
  <2>2. pc[s] \in AfterGroups /\ pc'[s] \in AfterGroups
    BY <1>1, <1>7 DEF FindPhase, UpsertPhase, ListTeams, UpsertTeam, Assign, ReadTeams, Advance,
       Goto, AfterGroups
  <2> QED BY <2>1, <2>2 DEF IndexedGroups, AfterGroups
<1> QED BY <1>2, <1>3, <1>4, <1>5, <1>6, <1>7 DEF Step

LEMMA PhasesIndexed ==
  ASSUME Types, NEW s \in Seeders, Placed(s), GoesBy(s), Step(s), IndexedPhases(s)
  PROVE  IndexedPhases(s)'
<1>1. /\ pc \in [Seeders -> Stage] /\ at \in [Seeders -> Nat \ {0}]
      /\ phases \in [ElementsOf(Stages) -> Id \cup {None}]
      /\ hand \in [Seeders -> Id \cup {None}]
      /\ knockout_index \in [Seeders -> [ElementsOf(Stages) -> Id \cup {None}]]
  BY DEF Types
<1>2. \A i \in DOMAIN Stages : i \in Nat /\ 1 <= i /\ i <= Len(Stages)
  BY Positions
<1>3. CASE FindTournament(s) \/ UpsertTournament(s) \/ ReadTournament(s) \/ ListGroups(s)
           \/ FindGroup(s) \/ AssignRefused(s)
  <2>1. pc'[s] \in {"list groups", "upsert tournament", "read tournament", "list phases",
                    "upsert group", "off"}
    BY <1>1, <1>3 DEF FindTournament, UpsertTournament, ReadTournament, ListGroups, FindGroup,
       AssignRefused, Goto
  <2> QED BY <2>1 DEF IndexedPhases, AfterPhases
<1>4. CASE UpsertGroup(s)
  <2>1. Advance(s, Labels, "find group", "find phase") /\ at[s] \in DOMAIN Labels
    BY <1>4 DEF UpsertGroup, Placed, InItsLists
  <2>2. "find group" \in Stage /\ "find phase" \in Stage
    BY DEF Stage
  <2>3. \/ pc'[s] = "find group"
        \/ pc'[s] = "find phase" /\ at'[s] = 1
    <3>1. Advanced(s, Labels, "find group", "find phase")
      BY <2>1, <2>2, AdvanceCases, Positions
    <3> QED BY <3>1 DEF Advanced
  <2>4. \A i \in DOMAIN Stages : ~(i < 1)
    BY <1>2
  <2> QED BY <2>3, <2>4 DEF IndexedPhases, AfterPhases
<1>5. CASE ListPhases(s)
  <2>1. CASE pc'[s] = "list teams"
    <3>1. /\ \A k \in ElementsOf(Stages) : phases[k] # None
          /\ knockout_index'[s] = phases /\ phases' = phases
      BY <1>1, <1>5, <2>1 DEF ListPhases, Goto, ListPhasesOf, GoesBy, BeforeTournament, tables
    <3> QED BY <2>1, <3>1 DEF IndexedPhases, AfterPhases
  <2>2. CASE pc'[s] = "find group"
    BY <2>2 DEF IndexedPhases, AfterPhases
  <2> QED BY <1>1, <1>5, <2>1, <2>2 DEF ListPhases, Goto
<1>6. CASE FindPhase(s)
  <2>1. UNCHANGED <<phases, knockout_index, at>> /\ pc[s] = "find phase" /\ pc'[s] = "upsert phase"
    BY <1>1, <1>6 DEF FindPhase, Goto, tables
  <2>2. Stored(phases[Stages[at[s]]], hand'[s]) = hand'[s]
    <3>1. hand'[s] = Stored(phases[Stages[at[s]]], Fresh(s))
      BY <1>1, <1>6, <2>1 DEF FindPhase, FindByStage, ListPhasesOf, GoesBy, BeforeTournament
    <3> QED BY <3>1 DEF Stored
  <2> QED BY <2>1, <2>2 DEF IndexedPhases, AfterPhases
<1>7. CASE UpsertPhase(s)
  <2> DEFINE k == Stages[at[s]]
  <2>1. pc[s] = "upsert phase" /\ at[s] \in DOMAIN Stages /\ k \in ElementsOf(Stages)
    BY <1>7, Elements DEF UpsertPhase, Placed, InItsLists
  <2>2. hand[s] # None /\ Stored(phases[k], hand[s]) = hand[s]
    BY <2>1 DEF IndexedPhases, Placed, InItsLists
  <2>3. phases'[k] = hand[s] /\ knockout_index'[s][k] = hand[s]
    BY <1>1, <1>7, <2>1, <2>2 DEF UpsertPhase, PhaseUpsert
  <2>4. \A h \in ElementsOf(Stages) \ {k} :
          phases'[h] = phases[h] /\ knockout_index'[s][h] = knockout_index[s][h]
    BY <1>1, <1>7, <2>1 DEF UpsertPhase, PhaseUpsert
  <2>5. ASSUME NEW i \in DOMAIN Stages, i < at[s] + 1
        PROVE  phases'[Stages[i]] # None /\ knockout_index'[s][Stages[i]] = phases'[Stages[i]]
    <3>1. i = at[s] \/ i < at[s]
      BY <1>1, <1>2, <2>5
    <3>2. CASE Stages[i] = k
      BY <2>2, <2>3, <3>2
    <3>3. CASE i < at[s] /\ Stages[i] # k
      <4>1. phases[Stages[i]] # None /\ knockout_index[s][Stages[i]] = phases[Stages[i]]
        BY <2>1, <3>3 DEF IndexedPhases
      <4> QED BY <2>4, <3>3, <4>1, Elements
    <3> QED BY <3>1, <3>2, <3>3
  <2>6. \/ pc'[s] = "find phase" /\ at'[s] = at[s] + 1
        \/ pc'[s] = "list teams" /\ at[s] = Len(Stages)
    <3>1. Advance(s, Stages, "find phase", "list teams")
      BY <1>7 DEF UpsertPhase
    <3>2. "find phase" \in Stage /\ "list teams" \in Stage
      BY DEF Stage
    <3>3. Advanced(s, Stages, "find phase", "list teams")
      BY <2>1, <3>1, <3>2, AdvanceCases, Positions
    <3> QED BY <3>3, Positions DEF Advanced
  <2>7. CASE pc'[s] = "find phase" /\ at'[s] = at[s] + 1
    BY <2>5, <2>7 DEF IndexedPhases, AfterPhases
  <2>8. CASE pc'[s] = "list teams" /\ at[s] = Len(Stages)
    <3>1. ASSUME NEW i \in DOMAIN Stages PROVE i < at[s] + 1
      <4>1. at[s] \in Nat /\ i \in Nat /\ i <= at[s]
        BY <1>1, <1>2, <2>8
      <4> QED BY <4>1
    <3>2. \A h \in ElementsOf(Stages) : phases'[h] # None /\ knockout_index'[s][h] = phases'[h]
      BY <2>5, <3>1 DEF ElementsOf
    <3> QED BY <2>8, <3>2 DEF IndexedPhases, AfterPhases
  <2> QED BY <2>6, <2>7, <2>8
<1>8. CASE ListTeams(s) \/ UpsertTeam(s) \/ Assign(s) \/ ReadTeams(s)
  <2>1. UNCHANGED <<phases, knockout_index>>
    BY <1>8 DEF ListTeams, UpsertTeam, Assign, ReadTeams, tables
  <2>2. pc[s] \in AfterPhases /\ pc'[s] \in AfterPhases
    BY <1>1, <1>8 DEF ListTeams, UpsertTeam, Assign, ReadTeams, Advance, Goto, AfterPhases
  <2> QED BY <2>1, <2>2 DEF IndexedPhases, AfterPhases
<1> QED BY <1>3, <1>4, <1>5, <1>6, <1>7, <1>8 DEF Step

LEMMA NextIndexed ==
  ASSUME Types, \A q \in Seeders : Placed(q), \A q \in Seeders : GoesBy(q), PhasesAfterGroups,
         \A q \in Seeders : Alone(q), \A q \in Seeders : Indexed(q), Grows, [Next]_vars
  PROVE  \A q \in Seeders : Indexed(q)'
<1>1. CASE UNCHANGED vars
  BY <1>1 DEF vars, Indexed, IndexedGroups, IndexedPhases
<1>2. ASSUME NEW q \in Seeders, pc'[q] \in {"off", "find tournament"} PROVE Indexed(q)'
  BY <1>2 DEF Indexed, IndexedGroups, IndexedPhases, AfterGroups, AfterPhases
<1>3. ASSUME NEW s \in Seeders, Start(s) PROVE \A q \in Seeders : Indexed(q)'
  <2>1. Indexed(s)'
    BY <1>2, <1>3, StartFrame
  <2>2. ASSUME NEW q \in Seeders \ {s} PROVE Indexed(q)'
    <3>1. SameRun(q) /\ met'[q] = (met[q] \/ Running(q)) /\ met[q] \in BOOLEAN
      BY <1>3, StartFrame DEF Types
    <3>2. CASE pc[q] = "off"
      BY <1>2, <3>1, <3>2 DEF SameRun
    <3>3. CASE pc[q] = "ready"
      BY <3>1, <3>3, ReadyIndexed DEF Running
    <3>4. CASE Running(q)
      BY <3>1, <3>4 DEF Indexed
    <3> QED BY <3>2, <3>3, <3>4 DEF Running
  <2> QED BY <2>1, <2>2
<1>4. ASSUME NEW s \in Seeders, Step(s) PROVE \A q \in Seeders : Indexed(q)'
  <2>1. Indexed(s)'
    BY <1>4, StepFrame, GroupsIndexed, PhasesIndexed DEF Indexed
  <2>2. ASSUME NEW q \in Seeders \ {s} PROVE Indexed(q)'
    <3>1. SameRun(q) /\ met'[q] = met[q] /\ Running(s)
      BY <1>4, StepFrame
    <3>2. CASE pc[q] = "off"
      BY <1>2, <3>1, <3>2 DEF SameRun
    <3>3. CASE pc[q] = "ready"
      BY <3>1, <3>3, ReadyIndexed
    <3>4. CASE Running(q)
      BY <3>1, <3>4 DEF Alone, Indexed
    <3> QED BY <3>2, <3>3, <3>4 DEF Running
  <2> QED BY <2>1, <2>2
<1>5. ASSUME NEW s \in Seeders, Die(s) PROVE \A q \in Seeders : Indexed(q)'
  <2>1. Indexed(s)'
    BY <1>2, <1>5, DieFrame
  <2>2. ASSUME NEW q \in Seeders \ {s} PROVE Indexed(q)'
    <3>1. SameRun(q) /\ UNCHANGED <<groups, phases, met>>
      BY <1>5, DieFrame DEF tables
    <3>2. IndexedGroups(q) => IndexedGroups(q)'
      BY <3>1 DEF IndexedGroups, SameRun
    <3>3. IndexedPhases(q) => IndexedPhases(q)'
      BY <3>1 DEF IndexedPhases, SameRun
    <3> QED BY <3>1, <3>2, <3>3 DEF Indexed
  <2> QED BY <2>1, <2>2
<1> QED BY <1>1, <1>3, <1>4, <1>5 DEF Next

-----------------------------------------------------------------------------
(* Runs without a fault, one after the other.                              *)

\* The clauses of QuietInv.
NoneMet     == \A s \in Seeders : ~met[s]
TeamsInv    == \A s \in Seeders : TeamsOf(s)
WholeOrNone == (\A s \in Seeders : pc[s] \notin SeedingTeams) =>
                 teams = NoTeams \/ (AllListed /\ AssignedAsPlayed)

\* What Quiet gives the proof of one step.
Calm ==
  /\ Types /\ \A q \in Seeders : Placed(q)
  /\ \A q \in Seeders : GoesBy(q)
  /\ \A q \in Seeders : Alone(q)
  /\ Unread
  /\ \A q \in Seeders : Indexed(q)
  /\ NoneMet /\ TeamsInv /\ WholeOrNone

LEMMA AllListedStands == ASSUME Grows, AllListed PROVE AllListed'
BY DEF Grows, AllListed

LEMMA WrittenAll == AssignedAsPlayed <=> \A n \in DOMAIN Assignments : Written(n)
BY DEF AssignedAsPlayed, Written

LEMMA WrittenStands ==
  ASSUME NEW n \in DOMAIN Assignments, Written(n), Grows, assigned' = assigned
  PROVE  Written(n)'
<1>1. Assignments[n].label \in ElementsOf(Labels) \cup {None}
  BY AssignmentList
<1> QED BY <1>1 DEF Written, Grows

\* With the ids of the rows, an assignment is not refused, and one of a known team
\* is written, over nothing that says otherwise.
LEMMA AssignWrites ==
  ASSUME Calm, NEW s \in Seeders, Assign(s)
  PROVE  \A n \in DOMAIN Assignments : n = at[s] \/ Written(n) => Written(n)'
<1> DEFINE a == Assignments[at[s]]
<1>1. /\ pc[s] = "assign" /\ at[s] \in DOMAIN Assignments /\ ~met[s]
      /\ UNCHANGED <<groups, teams>>
  BY DEF Calm, Assign, Placed, InItsLists, NoneMet
<1>2. a.label \in ElementsOf(Labels) \cup {None}
  BY <1>1, AssignmentList
<1>3. /\ \A g \in ElementsOf(Labels) : groups[g] # None /\ group_index[s][g] = groups[g]
      /\ country_to_id[s] = teams /\ AllListed
  BY <1>1 DEF Calm, TeamsInv, TeamsOf, SeedingTeams, Indexed, IndexedGroups, AfterGroups
<1>4. assigned \in [ElementsOf(Codes) -> Id \cup {None}]
  BY DEF Calm, Types
<1>5. CASE Resolves(s, a)
  <2>1. /\ a.code \in ElementsOf(Codes) /\ a.label \in ElementsOf(Labels) /\ a.label # None
        /\ assigned' = [assigned EXCEPT ![a.code] = groups[a.label]]
        /\ groups[a.label] # None
    BY <1>2, <1>3, <1>5 DEF Assign, Resolves
  <2>2. assigned'[a.code] = groups[a.label]
    BY <1>4, <2>1
  <2>4. ASSUME NEW n \in DOMAIN Assignments, n = at[s] \/ Written(n) PROVE Written(n)'
    <3>1. CASE Assignments[n].code = a.code /\ Assignments[n].label # None
      <4>1. Assignments[n].label = a.label
        BY <1>1, <2>1, <3>1, FeedAssumption
      <4> QED BY <1>1, <2>1, <2>2, <3>1, <4>1 DEF Written
    <3>2. CASE Assignments[n].code # a.code \/ Assignments[n].label = None
      BY <1>1, <1>4, <2>1, <2>4, <3>2 DEF Written
    <3> QED BY <3>1, <3>2
  <2> QED BY <2>4
<1>6. CASE ~Resolves(s, a)
  <2>1. ~(a.code \in ElementsOf(Codes) /\ a.label # None)
    BY <1>2, <1>3, <1>6 DEF Resolves, AllListed
  <2>2. assigned' = assigned
    BY <1>6 DEF Assign
  <2>3. ASSUME NEW n \in DOMAIN Assignments, n = at[s] \/ Written(n) PROVE Written(n)'
    BY <1>1, <2>1, <2>2, <2>3 DEF Written
  <2> QED BY <2>3
<1> QED BY <1>5, <1>6

LEMMA NeverRefused ==
  ASSUME Calm, NEW s \in Seeders
  PROVE  ~AssignRefused(s)
<1> SUFFICES ASSUME AssignRefused(s) PROVE FALSE
  OBVIOUS
<1> DEFINE a == Assignments[at[s]]
<1>1. pc[s] = "assign" /\ at[s] \in DOMAIN Assignments /\ ~met[s] /\ Resolves(s, a)
      /\ ~Referenced(s, a)
  BY DEF Calm, AssignRefused, Placed, InItsLists, NoneMet
<1>2. a.label \in ElementsOf(Labels)
  BY <1>1, AssignmentList DEF Resolves
<1>3. group_index[s][a.label] = groups[a.label] /\ country_to_id[s] = teams /\ tid[s] = tournament
  BY <1>1, <1>2 DEF Calm, TeamsInv, TeamsOf, SeedingTeams, Indexed, IndexedGroups, AfterGroups,
     GoesBy, BeforeTournament
<1> QED BY <1>1, <1>3 DEF Referenced

\* A run that writes teams adds one that was not there.
LEMMA UpsertTeamWrites ==
  ASSUME Calm, NEW s \in Seeders, UpsertTeam(s)
  PROVE  TeamsOf(s)' /\ ~AllListed
<1> DEFINE c == Codes[at[s]]
<1>1. /\ teams \in [ElementsOf(Codes) -> Id \cup {None}]
      /\ country_to_id \in [Seeders -> [ElementsOf(Codes) -> Id \cup {None}]]
      /\ at \in [Seeders -> Nat \ {0}]
  BY DEF Calm, Types
<1>2. \A i \in DOMAIN Codes : i \in Nat /\ 1 <= i /\ i <= Len(Codes)
  BY Positions
<1>3. /\ pc[s] = "upsert team" /\ at[s] \in DOMAIN Codes /\ c \in ElementsOf(Codes)
      /\ country_to_id[s] = teams
      /\ \A i \in DOMAIN Codes : i < at[s] => teams[Codes[i]] # None
      /\ \A i \in DOMAIN Codes : i >= at[s] => teams[Codes[i]] = None
  BY Elements DEF Calm, UpsertTeam, Placed, InItsLists, TeamsInv, TeamsOf, SeedingTeams
<1>4. Fresh(s) # None /\ Fresh(s) \in Id
  BY <1>3, FreshType, RunsAssumption DEF Calm
<1>5. teams[c] = None
  <2>1. at[s] \in Nat /\ at[s] >= at[s]
    BY <1>1
  <2> QED BY <1>3, <2>1
<1>6. /\ teams' = [teams EXCEPT ![c] = Fresh(s)]
      /\ country_to_id'[s] = [teams EXCEPT ![c] = Fresh(s)]
  BY <1>1, <1>3, <1>5 DEF UpsertTeam, TeamUpsert, Stored
<1>7. ASSUME NEW i \in DOMAIN Codes
      PROVE  /\ i < at[s] + 1 => teams'[Codes[i]] # None
             /\ i >= at[s] + 1 => teams'[Codes[i]] = None
  <2>1. Codes[i] \in ElementsOf(Codes) /\ i \in Nat /\ at[s] \in Nat
    BY <1>1, <1>2, Elements
  <2>2. CASE i = at[s]
    <3>1. teams'[Codes[i]] = Fresh(s)
      BY <1>1, <1>3, <1>6, <2>2
    <3> QED BY <1>4, <2>1, <2>2, <3>1
  <2>3. CASE i # at[s]
    <3>1. Codes[i] # c
      BY <1>3, <2>3, FeedAssumption
    <3>2. teams'[Codes[i]] = teams[Codes[i]]
      BY <1>1, <1>6, <2>1, <3>1
    <3>3. i < at[s] + 1 => i < at[s]
      BY <2>1, <2>3
    <3>4. i >= at[s] + 1 => i >= at[s]
      BY <2>1
    <3> QED BY <1>3, <3>2, <3>3, <3>4
  <2> QED BY <2>2, <2>3
<1>8. \/ pc'[s] = "upsert team" /\ at'[s] = at[s] + 1
      \/ pc'[s] = "assign" /\ at[s] = Len(Codes) /\ at'[s] = 1
  <2>1. Advance(s, Codes, "upsert team", "assign")
    BY DEF UpsertTeam
  <2>2. "upsert team" \in Stage /\ "assign" \in Stage
    BY DEF Stage
  <2>3. Advanced(s, Codes, "upsert team", "assign")
    BY <1>3, <2>1, <2>2, AdvanceCases, Positions DEF Calm
  <2> QED BY <2>3, Positions DEF Advanced
<1>9. CASE pc'[s] = "upsert team" /\ at'[s] = at[s] + 1
  BY <1>5, <1>3, <1>6, <1>7, <1>9 DEF TeamsOf, SeedingTeams, AllListed
<1>10. CASE pc'[s] = "assign" /\ at[s] = Len(Codes) /\ at'[s] = 1
  <2>1. ASSUME NEW i \in DOMAIN Codes PROVE i < at[s] + 1
    <3>1. at[s] \in Nat /\ i \in Nat /\ i <= at[s]
      BY <1>1, <1>2, <1>10
    <3> QED BY <3>1
  <2>2. AllListed'
    BY <1>7, <2>1 DEF AllListed, ElementsOf
  <2>3. \A n \in DOMAIN Assignments : ~(n < 1)
    BY AssignmentList
  <2> QED BY <1>5, <1>3, <1>6, <1>10, <2>2, <2>3 DEF TeamsOf, SeedingTeams, AllListed
<1> QED BY <1>8, <1>9, <1>10

\* Every other step of a run keeps what the runs before it have written.
LEMMA StepKeepsWritten ==
  ASSUME Calm, NEW s \in Seeders, Step(s), Grows, AssignedAsPlayed
  PROVE  AssignedAsPlayed'
<1>1. CASE Assign(s)
  BY <1>1, AssignWrites, WrittenAll DEF AssignedAsPlayed, Written
<1>2. CASE ~Assign(s)
  <2>1. assigned' = assigned
    BY <1>2 DEF Step, FindTournament, UpsertTournament, ReadTournament, ListGroups, ListPhases,
       FindGroup, UpsertGroup, FindPhase, UpsertPhase, ListTeams, UpsertTeam, AssignRefused,
       ReadTeams, tables
  <2> QED BY <2>1, WrittenAll, WrittenStands DEF AssignedAsPlayed, Written
<1> QED BY <1>1, <1>2

\* No step of a run but UpsertTeam adds a team.
LEMMA StepKeepsTeams ==
  ASSUME NEW s \in Seeders, Step(s), ~UpsertTeam(s)
  PROVE  teams' = teams
BY DEF Step, FindTournament, UpsertTournament, ReadTournament, ListGroups, ListPhases,
   FindGroup, UpsertGroup, FindPhase, UpsertPhase, ListTeams, Assign, AssignRefused,
   ReadTeams, tables

LEMMA StepTeamsOf ==
  ASSUME Calm, NEW s \in Seeders, Step(s), Grows
  PROVE  TeamsOf(s)'
<1>1. /\ pc \in [Seeders -> Stage] /\ at \in [Seeders -> Nat \ {0}]
      /\ teams \in [ElementsOf(Codes) -> Id \cup {None}]
      /\ catalog \in [Seeders -> SUBSET ElementsOf(Codes)]
  BY DEF Calm, Types
<1>2. CASE FindTournament(s) \/ UpsertTournament(s) \/ ReadTournament(s) \/ ListGroups(s)
           \/ ListPhases(s) \/ FindGroup(s) \/ UpsertGroup(s) \/ FindPhase(s) \/ UpsertPhase(s)
  <2>1. pc'[s] \in BeforeTeams
    BY <1>1, <1>2 DEF FindTournament, UpsertTournament, ReadTournament, ListGroups, ListPhases,
       FindGroup, UpsertGroup, FindPhase, UpsertPhase, Advance, Goto, BeforeTeams
  <2> QED BY <2>1 DEF TeamsOf, BeforeTeams, SeedingTeams
<1>3. CASE ListTeams(s)
  <2>1. /\ pc[s] = "list teams" /\ at[s] = 1 /\ UNCHANGED <<at, teams, assigned, groups>>
        /\ country_to_id[s] = NoTeams /\ country_to_id' = country_to_id
    BY <1>3 DEF Calm, ListTeams, Placed, Unread, BeforeTeams, tables
  <2>2. CASE ListAllTeams = {}
    <3>1. \A c \in ElementsOf(Codes) : teams[c] = None
      BY <2>2 DEF ListAllTeams
    <3>2. teams = NoTeams
      BY <1>1, <3>1 DEF NoTeams
    <3>3. \A i \in DOMAIN Codes : ~(i < 1) /\ teams[Codes[i]] = None
      BY <3>1, Positions, Elements
    <3>4. pc'[s] = "upsert team"
      BY <1>1, <1>3, <2>2 DEF ListTeams, Goto
    <3> QED BY <2>1, <3>2, <3>3, <3>4 DEF TeamsOf, SeedingTeams
  <2>3. CASE ListAllTeams # {}
    <3>1. PICK c \in ElementsOf(Codes) : teams[c] # None
      BY <2>3 DEF ListAllTeams
    <3>2. teams # NoTeams
      BY <3>1 DEF NoTeams
    <3>3. \A q \in Seeders : pc[q] \notin SeedingTeams
      BY <2>1 DEF Calm, Alone, NoneMet, Running, SeedingTeams
    <3>4. AllListed /\ AssignedAsPlayed
      BY <3>2, <3>3 DEF Calm, WholeOrNone
    <3>5. catalog'[s] = ListAllTeams /\ pc'[s] = "ready"
      BY <1>1, <1>3, <2>3 DEF ListTeams, Goto
    <3>6. ListAllTeams = ElementsOf(Codes)
      BY <3>4 DEF AllListed, ListAllTeams
    <3>7. AllListed' /\ AssignedAsPlayed'
      BY <2>1, <3>4 DEF AllListed, AssignedAsPlayed
    <3> QED BY <3>5, <3>6, <3>7 DEF TeamsOf, SeedingTeams
  <2> QED BY <2>2, <2>3
<1>4. CASE UpsertTeam(s)
  BY <1>4, UpsertTeamWrites
<1>5. CASE Assign(s)
  <2>1. /\ pc[s] = "assign" /\ at[s] \in DOMAIN Assignments
        /\ UNCHANGED <<teams, country_to_id>>
    BY <1>5 DEF Calm, Assign, Placed, InItsLists
  <2>2. /\ country_to_id[s] = teams /\ AllListed
        /\ \A n \in DOMAIN Assignments : n < at[s] => Written(n)
    BY <2>1 DEF Calm, TeamsInv, TeamsOf, SeedingTeams
  <2>3. \A n \in DOMAIN Assignments : n \in Nat /\ n <= Len(Assignments)
    BY AssignmentList
  <2>4. ASSUME NEW n \in DOMAIN Assignments, n < at[s] + 1 PROVE Written(n)'
    <3>1. n = at[s] \/ n < at[s]
      BY <1>1, <2>3, <2>4
    <3> QED BY <1>5, <2>2, <3>1, AssignWrites
  <2>5. \/ pc'[s] = "assign" /\ at'[s] = at[s] + 1
        \/ pc'[s] = "read teams" /\ at[s] = Len(Assignments)
    <3>1. Advance(s, Assignments, "assign", "read teams")
      BY <1>5 DEF Assign
    <3>2. "assign" \in Stage /\ "read teams" \in Stage
      BY DEF Stage
    <3>3. Advanced(s, Assignments, "assign", "read teams")
      BY <2>1, <3>1, <3>2, AdvanceCases, AssignmentList DEF Calm
    <3> QED BY <3>3, AssignmentList DEF Advanced
  <2>6. AllListed'
    BY <2>1, <2>2 DEF AllListed
  <2>7. CASE pc'[s] = "assign" /\ at'[s] = at[s] + 1
    BY <2>1, <2>2, <2>4, <2>6, <2>7 DEF TeamsOf, SeedingTeams
  <2>8. CASE pc'[s] = "read teams" /\ at[s] = Len(Assignments)
    <3>1. ASSUME NEW n \in DOMAIN Assignments PROVE Written(n)'
      <4>1. at[s] \in Nat /\ n \in Nat /\ n <= at[s]
        BY <1>1, <2>3, <2>8
      <4>2. n < at[s] + 1
        BY <4>1
      <4> QED BY <2>4, <4>2
    <3>2. AssignedAsPlayed'
      BY <3>1 DEF AssignedAsPlayed, Written
    <3> QED BY <2>1, <2>2, <2>6, <2>8, <3>2 DEF TeamsOf, SeedingTeams
  <2> QED BY <2>5, <2>7, <2>8
<1>6. CASE AssignRefused(s)
  BY <1>6, NeverRefused
<1>7. CASE ReadTeams(s)
  <2>1. /\ pc[s] = "read teams" /\ pc'[s] = "ready" /\ catalog'[s] = ListAllTeams
        /\ UNCHANGED <<groups, teams, assigned>>
    BY <1>1, <1>7 DEF ReadTeams, Goto, tables
  <2>2. AllListed /\ AssignedAsPlayed
    BY <2>1 DEF Calm, TeamsInv, TeamsOf
  <2>3. ListAllTeams = ElementsOf(Codes)
    BY <2>2 DEF AllListed, ListAllTeams
  <2>4. AllListed' /\ AssignedAsPlayed'
    BY <2>1, <2>2 DEF AllListed, AssignedAsPlayed
  <2> QED BY <2>1, <2>3, <2>4 DEF TeamsOf, SeedingTeams
<1> QED BY <1>2, <1>3, <1>4, <1>5, <1>6, <1>7 DEF Step

LEMMA StepQuiet ==
  ASSUME Calm, NEW s \in Seeders, Step(s), Grows
  PROVE  NoneMet' /\ TeamsInv' /\ WholeOrNone'
<1>1. Running(s) /\ met' = met /\ \A q \in Seeders \ {s} : SameRun(q)
  BY StepFrame DEF Calm
<1>2. \A q \in Seeders \ {s} : pc[q] \in {"off", "ready"}
  BY <1>1 DEF Calm, Alone, NoneMet, Running
<1>3. NoneMet'
  BY <1>1 DEF Calm, NoneMet
<1>4. ASSUME NEW q \in Seeders \ {s} PROVE TeamsOf(q)'
  <2>1. pc'[q] = pc[q] /\ catalog'[q] = catalog[q]
    BY <1>1 DEF SameRun
  <2>2. CASE pc[q] = "off"
    BY <2>1, <2>2 DEF TeamsOf, SeedingTeams
  <2>3. CASE pc[q] = "ready"
    <3>1. AllListed /\ AssignedAsPlayed /\ catalog[q] = ElementsOf(Codes)
      BY <2>3 DEF Calm, TeamsInv, TeamsOf
    <3>2. AllListed' /\ AssignedAsPlayed'
      BY <3>1, AllListedStands, StepKeepsWritten
    <3> QED BY <2>1, <2>3, <3>1, <3>2 DEF TeamsOf, SeedingTeams
  <2> QED BY <1>2, <2>2, <2>3
<1>5. TeamsOf(s)'
  BY StepTeamsOf
<1>6. WholeOrNone'
  <2>1. CASE pc'[s] \in SeedingTeams
    BY <2>1 DEF WholeOrNone
  <2>2. CASE pc'[s] = "ready"
    BY <1>5, <2>2 DEF TeamsOf, WholeOrNone
  <2>3. CASE pc'[s] \notin SeedingTeams \cup {"ready"}
    <3>1. pc \in [Seeders -> Stage]
      BY DEF Calm, Types
    <3>2. pc[s] \notin SeedingTeams
      BY <2>3, <3>1, NeverRefused DEF Step, FindTournament, UpsertTournament, ReadTournament,
         ListGroups, ListPhases, FindGroup, UpsertGroup, FindPhase, UpsertPhase, ListTeams,
         UpsertTeam, Assign, ReadTeams, Advance, Goto, SeedingTeams
    <3>3. teams = NoTeams \/ (AllListed /\ AssignedAsPlayed)
      BY <1>2, <3>2 DEF Calm, WholeOrNone, SeedingTeams
    <3>4. teams' = teams
      BY <3>2, StepKeepsTeams DEF UpsertTeam, SeedingTeams
    <3> QED BY <3>3, <3>4, AllListedStands, StepKeepsWritten DEF WholeOrNone
  <2> QED BY <2>1, <2>2, <2>3
<1> QED BY <1>3, <1>4, <1>5, <1>6 DEF TeamsInv

LEMMA StartQuiet ==
  ASSUME Calm, NEW s \in Seeders, Start(s), overlapped' = FALSE
  PROVE  NoneMet' /\ TeamsInv' /\ WholeOrNone'
<1>1. /\ pc'[s] = "find tournament" /\ pc[s] = "off"
      /\ met'[s] = (\E other \in Seeders \ {s} : Running(other))
      /\ \A other \in Seeders \ {s} : ~Running(other)
      /\ UNCHANGED <<groups, teams, assigned>>
      /\ \A q \in Seeders \ {s} : SameRun(q) /\ met'[q] = (met[q] \/ Running(q))
  BY StartFrame DEF Calm, Start, tables
<1>2. NoneMet'
  BY <1>1 DEF Calm, NoneMet
<1>3. AllListed' = AllListed /\ AssignedAsPlayed' = AssignedAsPlayed
  BY <1>1 DEF AllListed, AssignedAsPlayed
<1>4. ASSUME NEW q \in Seeders PROVE TeamsOf(q)'
  <2>1. CASE q = s
    BY <1>1, <2>1 DEF TeamsOf, SeedingTeams
  <2>2. CASE q # s /\ pc[q] = "off"
    BY <1>1, <2>2 DEF TeamsOf, SeedingTeams, SameRun
  <2>3. CASE q # s /\ pc[q] = "ready"
    BY <1>1, <1>3, <2>3 DEF Calm, TeamsInv, TeamsOf, SeedingTeams, SameRun
  <2> QED BY <1>1, <2>1, <2>2, <2>3 DEF Running
<1>5. WholeOrNone'
  <2>1. \A q \in Seeders : pc[q] \notin SeedingTeams
    BY <1>1 DEF Running, SeedingTeams
  <2> QED BY <1>1, <1>3, <2>1 DEF Calm, WholeOrNone
<1> QED BY <1>2, <1>4, <1>5 DEF TeamsInv

LEMMA NextSolo ==
  Typed /\ GoesByInv /\ SeedingInv /\ SoloInv /\ [Next]_vars => SoloInv'
<1> SUFFICES ASSUME Types, \A q \in Seeders : Placed(q), \A q \in Seeders : GoesBy(q),
                    PhasesAfterGroups, SoloInv, [Next]_vars, Grows
             PROVE  SoloInv'
  BY StepGrows DEF Typed, GoesByInv, SeedingInv
<1>1. (\A q \in Seeders : Alone(q)) /\ Unread /\ (\A q \in Seeders : Indexed(q)) /\ QuietInv
  BY DEF SoloInv, Unread
<1>2. (\A q \in Seeders : Alone(q)') /\ Unread' /\ (\A q \in Seeders : Indexed(q)')
  BY <1>1, NextAlone, NextUnread, NextIndexed
<1>3. faults \in Nat /\ overlapped \in BOOLEAN
  BY RunsAssumption DEF Types
<1>4. QuietInv <=> (Quiet => NoneMet /\ TeamsInv /\ WholeOrNone)
  BY DEF QuietInv, NoneMet, TeamsInv, WholeOrNone
<1>5. (Quiet => NoneMet /\ TeamsInv /\ WholeOrNone)'
  <2> SUFFICES ASSUME Quiet' PROVE NoneMet' /\ TeamsInv' /\ WholeOrNone'
    OBVIOUS
  <2>1. ASSUME Quiet PROVE Calm
    BY <1>1, <1>4, <2>1 DEF Calm
  <2>2. CASE UNCHANGED vars
    <3>1. Quiet /\ Calm
      BY <2>1, <2>2 DEF vars, Quiet
    <3> QED
      BY <2>2, <3>1 DEF vars, Calm, NoneMet, TeamsInv, TeamsOf, WholeOrNone, AllListed,
         AssignedAsPlayed, Written
  <2>3. ASSUME NEW s \in Seeders, Start(s) PROVE NoneMet' /\ TeamsInv' /\ WholeOrNone'
    <3>1. Quiet /\ overlapped' = FALSE
      BY <1>3, <2>3, StartFrame DEF Quiet, tables
    <3> QED BY <2>1, <2>3, <3>1, StartQuiet
  <2>4. ASSUME NEW s \in Seeders, Step(s) PROVE NoneMet' /\ TeamsInv' /\ WholeOrNone'
    <3>1. Quiet
      BY <2>4, StepFrame DEF Quiet
    <3> QED BY <2>1, <2>4, <3>1, StepQuiet
  <2>5. ASSUME NEW s \in Seeders PROVE ~Die(s)
    <3> SUFFICES ASSUME Die(s) PROVE FALSE
      OBVIOUS
    <3>1. faults' = faults + 1
      BY DieFrame
    <3> QED BY <1>3, <3>1 DEF Quiet
  <2> QED BY <2>2, <2>3, <2>4, <2>5 DEF Next
<1>6. QuietInv'
  BY <1>5 DEF QuietInv, NoneMet, TeamsInv, WholeOrNone
<1> QED BY <1>2, <1>6 DEF SoloInv, Unread

LEMMA AlwaysSolo == Spec => []SoloInv
BY InitSolo, NextSolo, AlwaysTyped, AlwaysGoesBy, AlwaysSeeding, PTL DEF Spec

\* A run that no other one overlaps ends with the ids of the rows, whatever died
\* before it; without faults and overlaps it ends with every team in its group.
THEOREM SoloRunsAreRight == Spec => []SoloRunIsRight
<1>1. SoloInv => SoloRunIsRight
  <2> SUFFICES ASSUME SoloInv, NEW s \in Seeders, pc[s] = "ready", ~met[s]
               PROVE  /\ \A g \in ElementsOf(Labels) :
                           group_index[s][g] # None /\ group_index[s][g] = groups[g]
                      /\ \A k \in ElementsOf(Stages) :
                           knockout_index[s][k] # None /\ knockout_index[s][k] = phases[k]
                      /\ Quiet => catalog[s] = ElementsOf(Codes) /\ AssignedAsPlayed
    BY DEF SoloRunIsRight, Quiet
  <2>1. IndexedGroups(s) /\ IndexedPhases(s)
    BY DEF SoloInv, Indexed
  <2>2. Quiet => TeamsOf(s)
    BY DEF SoloInv, QuietInv
  <2>3. \A g \in ElementsOf(Labels) : group_index[s][g] # None /\ group_index[s][g] = groups[g]
    BY <2>1 DEF IndexedGroups, AfterGroups
  <2>4. \A k \in ElementsOf(Stages) :
          knockout_index[s][k] # None /\ knockout_index[s][k] = phases[k]
    BY <2>1 DEF IndexedPhases, AfterPhases
  <2>5. Quiet => catalog[s] = ElementsOf(Codes) /\ AssignedAsPlayed
    BY <2>2 DEF TeamsOf
  <2> QED BY <2>3, <2>4, <2>5
<1> QED BY <1>1, AlwaysSolo, PTL
-----------------------------------------------------------------------------
(* The seeders implement Catalog.                                          *)

PhasesSeeded == \A k \in ElementsOf(Stages) : phases[k] # None

\* What a run is past is there, whoever wrote it.
Building(s) ==
  /\ pc[s] \in {"find phase", "upsert phase"} =>
       \A i \in DOMAIN Stages : i < at[s] => phases[Stages[i]] # None
  /\ pc[s] \in AfterPhases => PhasesSeeded
  /\ pc[s] = "upsert team" => \A i \in DOMAIN Codes : i < at[s] => teams[Codes[i]] # None
  /\ pc[s] = "assign" => AllListed

BuildingInv == \A s \in Seeders : Building(s)

LEMMA InitBuilding == Init => BuildingInv
BY DEF Init, BuildingInv, Building, AfterPhases

\* Rows that are filled in the order of a list: those before its i-th element, all.
FilledTo(seq, rows, i) == \A j \in DOMAIN seq : j < i => rows[seq[j]] # None
Filled(seq, rows)      == \A x \in ElementsOf(seq) : rows[x] # None

LEMMA NextOfList ==
  ASSUME NEW seq, Len(seq) \in Nat, DOMAIN seq = 1..Len(seq), NEW rows, NEW i \in DOMAIN seq,
         FilledTo(seq, rows, i), rows[seq[i]] # None
  PROVE  FilledTo(seq, rows, i + 1) /\ (i = Len(seq) => Filled(seq, rows))
<1>1. ASSUME NEW j \in DOMAIN seq, j < i + 1 PROVE rows[seq[j]] # None
  <2>1. j = i \/ j < i
    BY <1>1
  <2> QED BY <2>1 DEF FilledTo
<1>2. ASSUME i = Len(seq), NEW x \in ElementsOf(seq) PROVE rows[x] # None
  <2>1. PICK j \in DOMAIN seq : x = seq[j]
    BY DEF ElementsOf
  <2>2. j < i + 1
    BY <1>2
  <2> QED BY <1>1, <2>1, <2>2
<1> QED BY <1>1, <1>2 DEF FilledTo, Filled

\* A run that has not moved is past what it was past.
LEMMA BuildingStands ==
  ASSUME NEW q \in Seeders, Building(q), Grows, pc'[q] = pc[q], at'[q] = at[q]
  PROVE  Building(q)'
<1>1. \A i \in DOMAIN Stages : phases[Stages[i]] # None => phases'[Stages[i]] # None
  BY Elements DEF Grows
<1>2. \A i \in DOMAIN Codes : teams[Codes[i]] # None => teams'[Codes[i]] # None
  BY Elements DEF Grows
<1>3. (PhasesSeeded => PhasesSeeded') /\ (AllListed => AllListed')
  BY DEF Grows, PhasesSeeded, AllListed
<1> QED BY <1>1, <1>2, <1>3 DEF Building

LEMMA UpsertPhaseBuilds ==
  ASSUME Types, NEW s \in Seeders, Placed(s), Building(s), Grows, UpsertPhase(s)
  PROVE  Building(s)'
<1>1. /\ phases \in [ElementsOf(Stages) -> Id \cup {None}] /\ pc[s] = "upsert phase"
      /\ at[s] \in DOMAIN Stages /\ hand[s] \in Id
  BY DEF Types, UpsertPhase, Placed, InItsLists
<1>2. phases'[Stages[at[s]]] # None
  BY <1>1, StoredType, Elements DEF UpsertPhase, PhaseUpsert
<1>3. FilledTo(Stages, phases', at[s])
  <2>1. \A i \in DOMAIN Stages : i < at[s] => phases[Stages[i]] # None
    BY <1>1 DEF Building
  <2> QED BY <2>1, Elements DEF Grows, FilledTo
<1>4. FilledTo(Stages, phases', at[s] + 1) /\ (at[s] = Len(Stages) => PhasesSeeded')
  <2>1. Len(Stages) \in Nat /\ DOMAIN Stages = 1..Len(Stages)
    BY Positions
  <2>2. FilledTo(Stages, phases', at[s] + 1)
        /\ (at[s] = Len(Stages) => Filled(Stages, phases'))
    BY Zenon, <1>1, <1>2, <1>3, <2>1, NextOfList
  <2> QED BY <2>2 DEF Filled, PhasesSeeded
<1>5. Advanced(s, Stages, "find phase", "list teams")
  <2>1. Advance(s, Stages, "find phase", "list teams")
    BY DEF UpsertPhase
  <2>2. "find phase" \in Stage /\ "list teams" \in Stage
    BY DEF Stage
  <2> QED BY <1>1, <2>1, <2>2, AdvanceCases, Positions
<1>6. CASE pc'[s] = "find phase" /\ at'[s] = at[s] + 1
  BY <1>4, <1>6 DEF Building, AfterPhases, FilledTo
<1>7. CASE pc'[s] = "list teams" /\ at[s] = Len(Stages)
  BY <1>4, <1>7 DEF Building
<1> QED BY <1>5, <1>6, <1>7 DEF Advanced

LEMMA UpsertTeamBuilds ==
  ASSUME Types, NEW s \in Seeders, Placed(s), Building(s), Grows, UpsertTeam(s)
  PROVE  Building(s)'
<1>1. /\ teams \in [ElementsOf(Codes) -> Id \cup {None}] /\ pc[s] = "upsert team"
      /\ at[s] \in DOMAIN Codes /\ Fresh(s) \in Id
  BY FreshType DEF Types, UpsertTeam, Placed, InItsLists
<1>2. teams'[Codes[at[s]]] # None
  BY <1>1, StoredType, Elements DEF UpsertTeam, TeamUpsert
<1>3. FilledTo(Codes, teams', at[s])
  <2>1. \A i \in DOMAIN Codes : i < at[s] => teams[Codes[i]] # None
    BY <1>1 DEF Building
  <2> QED BY <2>1, Elements DEF Grows, FilledTo
<1>4. FilledTo(Codes, teams', at[s] + 1) /\ (at[s] = Len(Codes) => AllListed')
  <2>1. Len(Codes) \in Nat /\ DOMAIN Codes = 1..Len(Codes)
    BY Positions
  <2>2. FilledTo(Codes, teams', at[s] + 1)
        /\ (at[s] = Len(Codes) => Filled(Codes, teams'))
    BY Zenon, <1>1, <1>2, <1>3, <2>1, NextOfList
  <2> QED BY <2>2 DEF Filled, AllListed
<1>5. PhasesSeeded'
  <2>1. PhasesSeeded
    BY <1>1 DEF Building, AfterPhases
  <2> QED BY <2>1 DEF PhasesSeeded, Grows
<1>6. Advanced(s, Codes, "upsert team", "assign")
  <2>1. Advance(s, Codes, "upsert team", "assign")
    BY DEF UpsertTeam
  <2>2. "upsert team" \in Stage /\ "assign" \in Stage
    BY DEF Stage
  <2> QED BY <1>1, <2>1, <2>2, AdvanceCases, Positions
<1>7. CASE pc'[s] = "upsert team" /\ at'[s] = at[s] + 1
  BY <1>4, <1>5, <1>7 DEF Building, FilledTo
<1>8. CASE pc'[s] = "assign" /\ at[s] = Len(Codes)
  BY <1>4, <1>5, <1>8 DEF Building
<1> QED BY <1>6, <1>7, <1>8 DEF Advanced

\* A structure that ListPhases takes for complete has all the phases.
LEMMA ListPhasesBuilds ==
  ASSUME Types, NEW s \in Seeders, Placed(s), GoesBy(s), Grows, ListPhases(s)
  PROVE  Building(s)'
<1>1. pc \in [Seeders -> Stage] /\ pc[s] = "list phases" /\ phases' = phases /\ at' = at /\ at[s] = 1
  BY DEF Types, ListPhases, tables, Placed
<1>2. ListPhasesOf(tid[s]) = phases
  BY <1>1 DEF GoesBy, BeforeTournament, ListPhasesOf
<1>3. \/ pc'[s] = "list teams" /\ PhasesSeeded
      \/ pc'[s] = "find group"
  BY <1>1, <1>2 DEF ListPhases, Goto, PhasesSeeded
<1> QED BY <1>1, <1>3 DEF Building, AfterPhases, PhasesSeeded

LEMMA OwnBuilding ==
  ASSUME Types, NEW s \in Seeders, Placed(s), GoesBy(s), Building(s), Grows,
         Start(s) \/ Step(s) \/ Die(s)
  PROVE  Building(s)'
<1>1. pc \in [Seeders -> Stage] /\ at \in [Seeders -> Nat \ {0}]
  BY DEF Types
<1>2. PhasesSeeded => PhasesSeeded'
  BY DEF PhasesSeeded, Grows
<1>3. CASE Start(s) \/ Die(s) \/ FindTournament(s) \/ UpsertTournament(s) \/ ReadTournament(s)
           \/ ListGroups(s) \/ FindGroup(s) \/ AssignRefused(s)
  <2>1. pc'[s] \in {"off", "find tournament", "list groups", "upsert tournament",
                    "read tournament", "list phases", "upsert group"}
    BY <1>1, <1>3 DEF Start, Die, FindTournament, UpsertTournament, ReadTournament, ListGroups,
       FindGroup, AssignRefused, Goto
  <2> QED BY <2>1 DEF Building, AfterPhases
<1>4. CASE ListPhases(s)
  BY <1>4, ListPhasesBuilds
<1>5. CASE UpsertGroup(s)
  <2>1. Advanced(s, Labels, "find group", "find phase")
    <3>1. Advance(s, Labels, "find group", "find phase") /\ at[s] \in DOMAIN Labels
      BY <1>5 DEF UpsertGroup, Placed, InItsLists
    <3>2. "find group" \in Stage /\ "find phase" \in Stage
      BY DEF Stage
    <3> QED BY <3>1, <3>2, AdvanceCases, Positions
  <2>2. pc'[s] = "find group" \/ (pc'[s] = "find phase" /\ at'[s] = 1)
    BY <2>1 DEF Advanced
  <2>3. \A i \in DOMAIN Stages : ~(i < 1)
    BY Positions
  <2> QED BY <2>2, <2>3 DEF Building, AfterPhases
<1>6. CASE FindPhase(s)
  <2>1. at' = at /\ phases' = phases /\ pc[s] = "find phase" /\ pc'[s] = "upsert phase"
    BY <1>1, <1>6 DEF FindPhase, Goto, tables
  <2> QED BY <2>1 DEF Building, AfterPhases
<1>7. CASE UpsertPhase(s)
  BY <1>7, UpsertPhaseBuilds
<1>8. CASE ListTeams(s)
  <2>1. at' = at /\ at[s] = 1 /\ pc[s] = "list teams" /\ pc'[s] \in {"upsert team", "ready"}
    BY <1>1, <1>8 DEF ListTeams, Goto, Placed
  <2>2. \A i \in DOMAIN Codes : ~(i < 1)
    BY Positions
  <2>3. PhasesSeeded'
    BY <1>2, <2>1 DEF Building, AfterPhases
  <2> QED BY <2>1, <2>2, <2>3 DEF Building
<1>9. CASE UpsertTeam(s)
  BY <1>9, UpsertTeamBuilds
<1>10. CASE Assign(s)
  <2>1. pc[s] = "assign" /\ pc'[s] \in {"assign", "read teams"}
    BY <1>1, <1>10 DEF Assign, Advance, Goto
  <2>2. PhasesSeeded' /\ AllListed'
    BY <1>2, <2>1, AllListedStands DEF Building, AfterPhases
  <2> QED BY <2>1, <2>2 DEF Building
<1>11. CASE ReadTeams(s)
  <2>1. pc[s] = "read teams" /\ pc'[s] = "ready"
    BY <1>1, <1>11 DEF ReadTeams, Goto
  <2>2. PhasesSeeded'
    BY <1>2, <2>1 DEF Building, AfterPhases
  <2> QED BY <2>1, <2>2 DEF Building
<1> QED
  BY <1>3, <1>4, <1>5, <1>6, <1>7, <1>8, <1>9, <1>10, <1>11 DEF Step

\* Another run's step moves neither this one nor its loop.
LEMMA OthersStay ==
  ASSUME Types, NEW s \in Seeders, Start(s) \/ Step(s) \/ Die(s), NEW q \in Seeders \ {s}
  PROVE  pc'[q] = pc[q] /\ at'[q] = at[q]
<1>1. pc \in [Seeders -> Stage] /\ at \in [Seeders -> Nat \ {0}]
  BY DEF Types
<1>2. CASE Start(s) \/ Die(s)
  BY <1>1, <1>2 DEF Start, Die, Goto, locals
<1>3. CASE Step(s)
  BY <1>1, <1>3 DEF Step, FindTournament, UpsertTournament, ReadTournament, ListGroups,
     ListPhases, FindGroup, UpsertGroup, FindPhase, UpsertPhase, ListTeams, UpsertTeam,
     Assign, AssignRefused, ReadTeams, Advance, Goto, locals
<1> QED BY <1>2, <1>3

LEMMA NextBuilding == Typed /\ GoesByInv /\ BuildingInv /\ [Next]_vars => BuildingInv'
<1> SUFFICES ASSUME Types, \A q \in Seeders : Placed(q), \A q \in Seeders : GoesBy(q),
                    \A q \in Seeders : Building(q), [Next]_vars, Grows
             PROVE  \A q \in Seeders : Building(q)'
  BY StepGrows DEF Typed, GoesByInv, BuildingInv
<1>1. CASE UNCHANGED vars
  BY <1>1, BuildingStands DEF vars
<1>2. ASSUME NEW s \in Seeders, Start(s) \/ Step(s) \/ Die(s), NEW q \in Seeders
      PROVE  Building(q)'
  <2>1. CASE q = s
    BY <1>2, <2>1, OwnBuilding
  <2>2. CASE q # s
    BY <1>2, <2>2, OthersStay, BuildingStands
  <2> QED BY <2>1, <2>2
<1> QED BY <1>1, <1>2 DEF Next

\* A team that is in a group is in the one the matches put it in.
Drawn(c, n) == Assignments[n].code = c /\ Assignments[n].label # None

InItsGroup(c) ==
  assigned[c] # None =>
    \E n \in DOMAIN Assignments : Drawn(c, n) /\ assigned[c] = groups[Assignments[n].label]

DrawInv == \A c \in ElementsOf(Codes) : InItsGroup(c)

\* The only group there is for a team.
LEMMA OneGroup ==
  ASSUME Types, NEW c \in ElementsOf(Codes), InItsGroup(c), assigned[c] # None,
         NEW n \in DOMAIN Assignments, Drawn(c, n)
  PROVE  assigned[c] = groups[Assignments[n].label]
<1>1. PICK m \in DOMAIN Assignments : Drawn(c, m) /\ assigned[c] = groups[Assignments[m].label]
  BY DEF InItsGroup
<1>2. Assignments[m].label = Assignments[n].label
  BY <1>1, FeedAssumption DEF Drawn
<1> QED BY <1>1, <1>2

\* What an assignment that goes through finds and leaves.
LEMMA AssignFinds ==
  ASSUME Types, NEW s \in Seeders, Placed(s), Assign(s)
  PROVE  \/ UNCHANGED <<tournament, groups, phases, teams, assigned>>
         \/ \E n \in DOMAIN Assignments :
              LET a == Assignments[n]
              IN /\ pc[s] = "assign"
                 /\ a.code \in ElementsOf(Codes) /\ a.label \in ElementsOf(Labels)
                 /\ Drawn(a.code, n) /\ groups[a.label] # None
                 /\ assigned' = [assigned EXCEPT ![a.code] = groups[a.label]]
                 /\ UNCHANGED <<tournament, groups, phases, teams>>
<1> DEFINE a == Assignments[at[s]]
<1>1. /\ pc[s] = "assign" /\ at[s] \in DOMAIN Assignments
      /\ UNCHANGED <<tournament, groups, phases, teams>>
  BY DEF Assign, Placed, InItsLists
<1>2. CASE assigned' = assigned
  BY <1>1, <1>2
<1>3. CASE Resolves(s, a) /\ Referenced(s, a)
           /\ assigned' = [assigned EXCEPT ![a.code] = group_index[s][a.label]]
  <2>1. a.code \in ElementsOf(Codes) /\ a.label # None /\ a.label \in ElementsOf(Labels)
    BY <1>1, <1>3, AssignmentList DEF Resolves
  <2>2. groups[a.label] # None /\ group_index[s][a.label] = groups[a.label]
    BY <1>3 DEF Resolves, Referenced
  <2>3. Drawn(a.code, at[s])
    BY <2>1 DEF Drawn
  <2>4. assigned' = [assigned EXCEPT ![a.code] = groups[a.label]]
    BY <1>3, <2>2
  <2> QED BY <1>1, <2>1, <2>2, <2>3, <2>4
<1> QED BY <1>2, <1>3 DEF Assign

LEMMA DrawStands ==
  ASSUME NEW c \in ElementsOf(Codes), InItsGroup(c), Grows, assigned'[c] = assigned[c]
  PROVE  InItsGroup(c)'
<1> SUFFICES ASSUME assigned[c] # None
             PROVE  \E n \in DOMAIN Assignments :
                      Drawn(c, n) /\ assigned[c] = groups'[Assignments[n].label]
  BY DEF InItsGroup, Drawn
<1>1. PICK n \in DOMAIN Assignments : Drawn(c, n) /\ assigned[c] = groups[Assignments[n].label]
  BY DEF InItsGroup
<1>2. Assignments[n].label \in ElementsOf(Labels)
  BY <1>1, AssignmentList DEF Drawn
<1>3. groups'[Assignments[n].label] = groups[Assignments[n].label]
  BY <1>1, <1>2 DEF Grows
<1> QED BY <1>1, <1>3

LEMMA InitDraw == Init => DrawInv
BY DEF Init, NoTeams, DrawInv, InItsGroup

LEMMA NextDraw == Typed /\ DrawInv /\ [Next]_vars => DrawInv'
<1> SUFFICES ASSUME Types, \A q \in Seeders : Placed(q), DrawInv, [Next]_vars, Grows,
                    NEW c \in ElementsOf(Codes)
             PROVE  InItsGroup(c)'
  BY StepGrows DEF Typed, DrawInv
<1>1. InItsGroup(c)
  BY DEF DrawInv
<1>2. CASE assigned' = assigned
  BY <1>1, <1>2, DrawStands
<1>3. ASSUME NEW s \in Seeders, Assign(s) PROVE InItsGroup(c)'
  <2>1. CASE assigned' = assigned
    BY <1>2, <2>1
  <2>2. CASE assigned' # assigned
    <3>1. PICK n \in DOMAIN Assignments :
            /\ Assignments[n].code \in ElementsOf(Codes)
            /\ Drawn(Assignments[n].code, n)
            /\ assigned' = [assigned EXCEPT ![Assignments[n].code] = groups[Assignments[n].label]]
            /\ groups' = groups
      BY <1>3, <2>2, AssignFinds
    <3>2. assigned \in [ElementsOf(Codes) -> Id \cup {None}]
      BY DEF Types
    <3>3. CASE c = Assignments[n].code
      <4>1. assigned'[c] = groups'[Assignments[n].label]
        BY <3>1, <3>2, <3>3
      <4>2. Drawn(c, n)
        BY <3>1, <3>3
      <4> QED BY <4>1, <4>2 DEF InItsGroup, Drawn
    <3>4. CASE c # Assignments[n].code
      <4>1. assigned'[c] = assigned[c]
        BY <3>1, <3>2, <3>4
      <4> QED BY <1>1, <4>1, DrawStands
    <3> QED BY <3>3, <3>4
  <2> QED BY <2>1, <2>2
<1>4. ASSUME NEW s \in Seeders, Start(s) \/ Step(s) \/ Die(s), ~Assign(s) PROVE assigned' = assigned
  BY <1>4 DEF Start, Die, Step, FindTournament, UpsertTournament, ReadTournament, ListGroups,
     ListPhases, FindGroup, UpsertGroup, FindPhase, UpsertPhase, ListTeams, UpsertTeam,
     AssignRefused, ReadTeams, tables
<1>5. CASE UNCHANGED vars
  BY <1>2, <1>5 DEF vars
<1> QED BY <1>2, <1>3, <1>4, <1>5 DEF Next

\* The inductive invariant of the refinement: types, the tournament each run goes by,
\* groups before phases, what each run is past, and the one group of each team.
CatalogInv == Typed /\ GoesByInv /\ SeedingInv /\ BuildingInv /\ DrawInv

LEMMA AlwaysCatalog == Spec => []CatalogInv
<1>1. Spec => []BuildingInv
  BY InitBuilding, NextBuilding, AlwaysTyped, AlwaysGoesBy, PTL DEF Spec
<1>2. Spec => []DrawInv
  BY InitDraw, NextDraw, AlwaysTyped, PTL DEF Spec
<1> QED BY <1>1, <1>2, AlwaysTyped, AlwaysGoesBy, AlwaysSeeding, PTL DEF CatalogInv

\* A row that is there is not written again; one that is not gets an id.
WrittenOnce(rows, after, x, id) ==
  after = rows \/ (rows[x] = None /\ after = [rows EXCEPT ![x] = id])

LEMMA StoredOnce ==
  ASSUME NEW D, NEW rows \in [D -> Id \cup {None}], NEW x \in D, NEW id \in Id, NEW after,
         after = [rows EXCEPT ![x] = Stored(@, id)]
  PROVE  WrittenOnce(rows, after, x, id)
<1>1. CASE rows[x] = None
  BY <1>1 DEF Stored, WrittenOnce
<1>2. CASE rows[x] # None
  BY <1>2 DEF Stored, WrittenOnce
<1> QED BY <1>1, <1>2

LEMMA UpsertTournamentRefines ==
  ASSUME Types, NEW s \in Seeders, Placed(s), UpsertTournament(s)
  PROVE  Rows!NewTournament \/ UNCHANGED Rows!vars
<1>1. Fresh(s) \in Id /\ tournament' = Stored(tournament, Fresh(s))
      /\ UNCHANGED <<groups, phases, teams, assigned>>
  BY FreshType DEF UpsertTournament, TournamentUpsert
<1>2. CASE tournament = None
  BY <1>1, <1>2 DEF Stored, Rows!NewTournament
<1>3. CASE tournament # None
  BY <1>1, <1>3 DEF Stored, Rows!vars
<1> QED BY <1>2, <1>3

LEMMA UpsertGroupRefines ==
  ASSUME Types, NEW s \in Seeders, Placed(s), GoesBy(s), UpsertGroup(s)
  PROVE  \/ \E g \in ElementsOf(Labels) : Rows!NewGroup(g)
         \/ UNCHANGED Rows!vars
<1> DEFINE g == Labels[at[s]]
<1>1. /\ pc[s] = "upsert group" /\ g \in ElementsOf(Labels) /\ hand[s] \in Id
      /\ groups' = [groups EXCEPT ![g] = Stored(@, hand[s])]
      /\ UNCHANGED <<tournament, phases, teams, assigned>>
  BY Elements DEF UpsertGroup, GroupUpsert, Types, Placed, InItsLists
<1>2. tournament # None
  BY <1>1 DEF GoesBy, BeforeTournament
<1>3. groups \in [ElementsOf(Labels) -> Id \cup {None}]
  BY DEF Types
<1>4. WrittenOnce(groups, groups', g, hand[s])
  BY Zenon, <1>1, <1>3, StoredOnce
<1>5. CASE groups' = groups
  BY <1>1, <1>5 DEF Rows!vars
<1>6. CASE groups[g] = None /\ groups' = [groups EXCEPT ![g] = hand[s]]
  BY <1>1, <1>2, <1>6 DEF Rows!NewGroup
<1> QED BY <1>4, <1>5, <1>6 DEF WrittenOnce

LEMMA UpsertPhaseRefines ==
  ASSUME Types, NEW s \in Seeders, Placed(s), Seeding(s), UpsertPhase(s)
  PROVE  \/ \E k \in ElementsOf(Stages) : Rows!NewPhase(k)
         \/ UNCHANGED Rows!vars
<1> DEFINE k == Stages[at[s]]
<1>1. /\ pc[s] = "upsert phase" /\ k \in ElementsOf(Stages) /\ hand[s] \in Id
      /\ phases' = [phases EXCEPT ![k] = Stored(@, hand[s])]
      /\ UNCHANGED <<tournament, groups, teams, assigned>>
  BY Elements DEF UpsertPhase, PhaseUpsert, Types, Placed, InItsLists
<1>2. Rows!AllGroups
  BY <1>1 DEF Seeding, GroupsSeeded, Rows!AllGroups
<1>3. phases \in [ElementsOf(Stages) -> Id \cup {None}]
  BY DEF Types
<1>4. WrittenOnce(phases, phases', k, hand[s])
  BY Zenon, <1>1, <1>3, StoredOnce
<1>5. CASE phases' = phases
  BY <1>1, <1>5 DEF Rows!vars
<1>6. CASE phases[k] = None /\ phases' = [phases EXCEPT ![k] = hand[s]]
  BY <1>1, <1>2, <1>6 DEF Rows!NewPhase
<1> QED BY <1>4, <1>5, <1>6 DEF WrittenOnce

\* Where all the phases are, all the groups are.
LEMMA WholeStructure ==
  ASSUME PhasesAfterGroups, PhasesSeeded
  PROVE  Rows!AllGroups /\ Rows!AllPhases
<1>1. Stages[1] \in ElementsOf(Stages)
  BY FirstPositions, Elements
<1> QED BY <1>1 DEF PhasesAfterGroups, PhasesSeeded, Rows!AllGroups, Rows!AllPhases

LEMMA UpsertTeamRefines ==
  ASSUME Types, NEW s \in Seeders, Placed(s), Building(s), PhasesAfterGroups, UpsertTeam(s)
  PROVE  \/ \E c \in ElementsOf(Codes) : Rows!NewTeam(c)
         \/ UNCHANGED Rows!vars
<1> DEFINE c == Codes[at[s]]
<1>1. /\ pc[s] = "upsert team" /\ c \in ElementsOf(Codes) /\ Fresh(s) \in Id
      /\ teams' = [teams EXCEPT ![c] = Stored(@, Fresh(s))]
      /\ UNCHANGED <<tournament, groups, phases, assigned>>
  BY Elements, FreshType DEF UpsertTeam, TeamUpsert, Placed, InItsLists
<1>2. Rows!AllGroups /\ Rows!AllPhases
  BY <1>1, WholeStructure DEF Building, AfterPhases
<1>3. teams \in [ElementsOf(Codes) -> Id \cup {None}]
  BY DEF Types
<1>4. WrittenOnce(teams, teams', c, Fresh(s))
  BY Zenon, <1>1, <1>3, StoredOnce
<1>5. CASE teams' = teams
  BY <1>1, <1>5 DEF Rows!vars
<1>6. CASE teams[c] = None /\ teams' = [teams EXCEPT ![c] = Fresh(s)]
  BY <1>1, <1>2, <1>6 DEF Rows!NewTeam
<1> QED BY <1>4, <1>5, <1>6 DEF WrittenOnce

LEMMA AssignRefines ==
  ASSUME Types, NEW s \in Seeders, Placed(s), Building(s), DrawInv, Assign(s)
  PROVE  \/ \E g \in ElementsOf(Labels), c \in ElementsOf(Codes) : Rows!PutTeam(c, g)
         \/ UNCHANGED Rows!vars
<1>1. CASE UNCHANGED <<tournament, groups, phases, teams, assigned>>
  BY <1>1 DEF Rows!vars
<1>2. ASSUME NEW n \in DOMAIN Assignments,
             LET a == Assignments[n]
             IN /\ pc[s] = "assign"
                /\ a.code \in ElementsOf(Codes) /\ a.label \in ElementsOf(Labels)
                /\ Drawn(a.code, n) /\ groups[a.label] # None
                /\ assigned' = [assigned EXCEPT ![a.code] = groups[a.label]]
                /\ UNCHANGED <<tournament, groups, phases, teams>>
      PROVE  \/ \E g \in ElementsOf(Labels), c \in ElementsOf(Codes) : Rows!PutTeam(c, g)
             \/ UNCHANGED Rows!vars
  <2> DEFINE c == Assignments[n].code  g == Assignments[n].label
  <2>1. /\ c \in ElementsOf(Codes) /\ g \in ElementsOf(Labels) /\ Drawn(c, n)
        /\ assigned' = [assigned EXCEPT ![c] = groups[g]]
        /\ UNCHANGED <<tournament, groups, phases, teams>>
    BY <1>2
  <2>2. Rows!AllTeams
    BY <1>2 DEF Building, AllListed, Rows!AllTeams
  <2>3. CASE assigned[c] = None
    <3>1. Rows!PutTeam(c, g)
      BY <2>1, <2>2, <2>3 DEF Rows!PutTeam
    <3> QED BY <2>1, <3>1
  <2>4. CASE assigned[c] # None
    <3>1. assigned[c] = groups[g]
      BY <2>1, <2>4, OneGroup DEF DrawInv
    <3>2. assigned' = assigned
      BY <2>1, <3>1 DEF Types
    <3> QED BY <2>1, <3>2 DEF Rows!vars
  <2> QED BY <2>3, <2>4
<1> QED BY <1>1, <1>2, AssignFinds

LEMMA InitRefines == Init => Rows!Init
BY DEF Init, NoGroups, NoPhases, NoTeams, Rows!Init

LEMMA NextRefines == CatalogInv /\ [Next]_vars => [Rows!Next]_(Rows!vars)
<1> SUFFICES ASSUME CatalogInv, [Next]_vars PROVE Rows!Next \/ UNCHANGED Rows!vars
  OBVIOUS
<1>1. /\ Types /\ PhasesAfterGroups /\ DrawInv
      /\ \A q \in Seeders : Placed(q) /\ GoesBy(q) /\ Seeding(q) /\ Building(q)
  BY DEF CatalogInv, Typed, GoesByInv, SeedingInv, BuildingInv
<1>2. CASE UNCHANGED vars
  BY <1>2 DEF vars, Rows!vars
<1>3. ASSUME NEW s \in Seeders, Start(s) \/ Step(s) \/ Die(s)
      PROVE  Rows!Next \/ UNCHANGED Rows!vars
  <2>1. CASE UpsertTournament(s)
    BY <1>1, <2>1, UpsertTournamentRefines DEF Rows!Next
  <2>2. CASE UpsertGroup(s)
    BY <1>1, <2>2, UpsertGroupRefines DEF Rows!Next
  <2>3. CASE UpsertPhase(s)
    BY <1>1, <2>3, UpsertPhaseRefines DEF Rows!Next
  <2>4. CASE UpsertTeam(s)
    BY <1>1, <2>4, UpsertTeamRefines DEF Rows!Next
  <2>5. CASE Assign(s)
    BY <1>1, <2>5, AssignRefines DEF Rows!Next
  <2>6. CASE Start(s) \/ Die(s) \/ FindTournament(s) \/ ReadTournament(s) \/ ListGroups(s)
             \/ ListPhases(s) \/ FindGroup(s) \/ FindPhase(s) \/ ListTeams(s)
             \/ AssignRefused(s) \/ ReadTeams(s)
    BY <2>6 DEF Start, Die, FindTournament, ReadTournament, ListGroups, ListPhases, FindGroup,
       FindPhase, ListTeams, AssignRefused, ReadTeams, tables, Rows!vars
  <2> QED BY <1>3, <2>1, <2>2, <2>3, <2>4, <2>5, <2>6 DEF Step
<1> QED BY <1>2, <1>3 DEF Next

\* Every step of ensure_tournament, ensure_tournament_structure and of the seeding of
\* teams, by whichever runs side by side, is one Catalog allows.
THEOREM Refinement == Spec => ImplementsCatalog
<1> QED
  BY InitRefines, NextRefines, AlwaysCatalog, PTL DEF Spec, ImplementsCatalog, Rows!Spec
=============================================================================
