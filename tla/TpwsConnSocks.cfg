CONSTANTS
  Conn = {c1, c2}
  NoConn = NoConn
  MaxConn = 1
  MaxEvents = 1
  Quiet = {c2}
  MaxBytes = 1
  Brief = 2
  Socks = TRUE
  Split = FALSE
  OrphanTimeout = TRUE
SPECIFICATION Spec
INVARIANTS
  LegsAccounted
  ReplyBeforeRelay
PROPERTIES
  KeepsResolution
CONSTRAINT QuietBound
