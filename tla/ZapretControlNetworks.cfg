CONSTANTS
  User = {menu}
  Commands = {}
  Net = {"home", "work"}
  Trials <- TwoTrials
  Direct <- Blocked
  Through <- Bypassed
  Nothing = Nothing
SPECIFICATION FairSpec
PROPERTIES
  NetworkIsProfiled
  Revives
