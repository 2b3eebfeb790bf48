CONSTANTS
  Conn = {c1}
  NoConn = NoConn
  MaxConn = 1
  MaxEvents = 2
  Quiet = {}
  MaxBytes = 2
  Brief = 1
  Socks = FALSE
  Split = FALSE
  OrphanTimeout = TRUE
SPECIFICATION FairSpec
INVARIANTS
  RelayIntact
  NeverFatal
  NoLostWakeup
  FinForwarded
PROPERTIES
  EndedIsFreed
  Relayed
CONSTRAINT BriefBound
