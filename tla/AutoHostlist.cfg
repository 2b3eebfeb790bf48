CONSTANTS
  Proc = {p1, p2}
  Profile = {tls, http}
  Http = {http}
  Configs <- Lines
  Slot = {s1}
  Host <- Names
  UserList <- Nothing
  Exclude <- Excluded
  Threshold = 2
  FailTime = 1
  MaxTime = 2
  MaxEdits = 1
SPECIFICATION Spec
INVARIANTS
  GoesByItsFile
  FailuresWithinTime
PROPERTIES
  OnlyListed
SYMMETRY Interchangeable
CHECK_DEADLOCK FALSE
