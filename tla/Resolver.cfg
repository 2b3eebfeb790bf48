CONSTANTS
  NThreads = 2
  Conn = {c1, c2}
  ResolveItem = {i1, i2}
  Null = Null
  PipeSize = 1
  MaxFaults = 1
SPECIFICATION FairSpec
INVARIANTS
  ItemsAccounted
PROPERTIES
  ImplementsResolution
CHECK_DEADLOCK FALSE
