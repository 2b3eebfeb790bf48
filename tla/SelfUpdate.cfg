SPECIFICATION Spec
CONSTANTS
  Version <- MCVersion
  MaxInstalls = 3
  MaxEdits = 1
INVARIANTS
  WholeKept
  LeavesWhole
  NotCutOff
  ListKept
