CONSTANTS
  m1 = m1
  m2 = m2
  p1 = p1
  p2 = p2
  None = None
  Matches = {m1, m2}
  Picks = {p1, p2}
  Requests = {r1, r2}
  Bodies <- MCBodies
  MaxTime = 1
  MaxMoves = 1
  MaxFaults = 1
SPECIFICATION FairSpec
INVARIANTS
  TypeOK
  OnlyTimelyBatches
  ChangedIffRewritten
  AcknowledgedStands
PROPERTY
  EveryRequestEnds
CHECK_DEADLOCK FALSE
