CONSTANTS
  t1 = t1
  t2 = t2
  t3 = t3
  t4 = t4
  x = x
  None = None
  Teams = {t1, t2, t3, t4}
  Ids = {t1, t2, t3, t4, x}
  Requests = {r1, r2}
  Groups = {1, 2}
  Bodies <- MCBodies
  TeamsOf <- MCTeamsOf
  Earlier <- MCEarlier
  Required = 2
  Places = 2
  MaxTime = 1
  MaxMoves = 1
  MaxFaults = 1
SPECIFICATION FairSpec
INVARIANTS
  TypeOK
  WholeSubmissionsOnly
  AcknowledgedReplaces
PROPERTIES
  LockedFromKickoffOn
  EveryRequestEnds
CHECK_DEADLOCK FALSE
