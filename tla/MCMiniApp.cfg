CONSTANTS
  None = None
  IntLimit = 2
  Matches = {m1, m2}
  isKnockout = TRUE
  Patches <- MCPatches
  Earlier <- MCEarlier
  Kickoffs = {1, 2}
  Starts <- MCStarts
  MaxTime = 1
  MaxAge = 1
  MaxSaves = 2
  MaxEvents = 2
SPECIFICATION Spec
SYMMETRY MCSymmetry
INVARIANTS
  TypeOK
  BatchesAreValid
  SavedIsShown
PROPERTIES
  EditsStand
  
CHECK_DEADLOCK FALSE
