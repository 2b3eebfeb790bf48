CONSTANTS
  MaxVersion = 1
  MaxBackups = 2
  None = None
SPECIFICATION Spec
INVARIANTS
  NothingLost
  EndsWhole
  OldEngineEnds
  UpdatedIsOn
