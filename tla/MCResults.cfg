CONSTANTS
  None = None
  IntLimit = 4
  Games <- MCGames
  Picks <- MCPicks
  Rules <- MCRules
  Quirks = {"winner", "fullTime", "regularTime", "extraTime", "halfExtraTime", "stage", "status", "homeTeam", "spelling"}
  Kickoffs = {1, 2, 3}
  MaxTime = 2
  MaxMoves = 2
SPECIFICATION Spec
INVARIANTS
  TypeOK
  RightTeamAdvances
PROPERTIES
  ScoredAsPlayed
  ScoredStands
CHECK_DEADLOCK FALSE
