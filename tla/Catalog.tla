------------------------------- MODULE Catalog -------------------------------
(***************************************************************************)
(* What the readers of the catalog may rely on while it is being seeded.   *)
(* Each row is written once and keeps its id, a team is put in a group     *)
(* once and stays there, and what comes later says that what comes before  *)
(* is complete: a group that there is a tournament, a phase that there are *)
(* all the groups, a team that there are all the phases as well, a team in *)
(* a group that there are all the teams.  It may stop at any point.        *)
(***************************************************************************)
CONSTANTS
  Groups, Phases, Teams,
  Belongs,      \* the teams and the groups they may be put in
  Ids, None     \* no row

VARIABLES
  tournament,   \* the id of the tournament's row
  groups, phases, teams,   \* and of the rows of each table
  assigned      \* the id of the group each team is in

vars == <<tournament, groups, phases, teams, assigned>>

Init ==
  /\ tournament = None
  /\ groups = [g \in Groups |-> None]
  /\ phases = [k \in Phases |-> None]
  /\ teams = [c \in Teams |-> None]
  /\ assigned = [c \in Teams |-> None]

AllGroups == \A g \in Groups : groups[g] # None
AllPhases == \A k \in Phases : phases[k] # None
AllTeams  == \A c \in Teams : teams[c] # None

NewTournament ==
  /\ tournament = None
  /\ tournament' \in Ids
  /\ UNCHANGED <<groups, phases, teams, assigned>>

NewGroup(g) ==
  /\ tournament # None
  /\ groups[g] = None
  /\ \E id \in Ids : groups' = [groups EXCEPT ![g] = id]
  /\ UNCHANGED <<tournament, phases, teams, assigned>>

NewPhase(k) ==
  /\ AllGroups
  /\ phases[k] = None
  /\ \E id \in Ids : phases' = [phases EXCEPT ![k] = id]
  /\ UNCHANGED <<tournament, groups, teams, assigned>>

NewTeam(c) ==
  /\ AllGroups /\ AllPhases
  /\ teams[c] = None
  /\ \E id \in Ids : teams' = [teams EXCEPT ![c] = id]
  /\ UNCHANGED <<tournament, groups, phases, assigned>>

PutTeam(c, g) ==
  /\ AllTeams
  /\ <<c, g>> \in Belongs
  /\ assigned[c] = None
  /\ assigned' = [assigned EXCEPT ![c] = groups[g]]
  /\ UNCHANGED <<tournament, groups, phases, teams>>

Next ==
  \/ NewTournament
  \/ \E g \in Groups : NewGroup(g) \/ \E c \in Teams : PutTeam(c, g)
  \/ \E k \in Phases : NewPhase(k)
  \/ \E c \in Teams : NewTeam(c)

Spec == Init /\ [][Next]_vars
=============================================================================
