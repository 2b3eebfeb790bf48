SPECIFICATION FairSpec
CONSTANTS
  Modulus = 16
  Grace = 4
  HelloLen = 4
  SniAt = 3
  Length = 4
  Window = 4
  Room = 3
  Pieces <- MCPieces
  Threshold = 2
  FailThreshold = 2
  Configs <- MCConfigs
  MaxBreaks = 1
INVARIANTS FailureIsRepeated
PROPERTIES Conserved HelloTreatedWhole HelloIsRead Delivered
