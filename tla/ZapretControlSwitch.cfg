CONSTANTS
  User = {menu}
  Commands = {"stop", "none"}
  Net = {"home"}
  Trials <- TwoTrials
  Direct <- Blocked
  Through <- Bypassed
  Nothing = Nothing
SPECIFICATION Spec
INVARIANTS
  SwitchHolds
  RunsCurrentConfig
