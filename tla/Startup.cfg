SPECIFICATION Spec
CONSTANTS
  Lines <- MCLines
  MaxSplits <- MCMaxSplits
  MaxBinds = 2
  Blobs <- MCBlobs
  Nets <- MCNets
  MaxChanges = 2
INVARIANTS
  ProfilesAsWritten
  HellosConsistent
  ListensAsAsked
  ServesAsAsked
PROPERTY
  Settles
CHECK_DEADLOCK FALSE
