CONSTANTS
  A = A
  B = B
  semis = semis
  final = final
  arg = arg
  bra = bra
  xyz = xyz
  None = None
  Seeders = {daemon, cli}
  Daemon = daemon
  Fixtures <- MCFixtures
  Labels <- MCLabels
  Stages <- MCStages
  Codes <- MCCodes
  MaxRuns = 3
  MaxFaults = 1
SPECIFICATION FairSpec
INVARIANTS
  TypeOK
  CanonicalTournament
  SoloRunIsRight
PROPERTIES
  ImplementsCatalog
  DaemonGetsReady
CHECK_DEADLOCK FALSE
