CONSTANTS
  h1 = h1
  h2 = h2
  Handlers <- MCHandlers
  LoopSaves = TRUE
  Width = 2
  MaxNonce = 4
SPECIFICATION FairSpec
CHECK_DEADLOCK FALSE
INVARIANTS
  TypeOK
  NoncesAreFresh
  FileCarriesStops
PROPERTIES
  KillIsDurable
  PauseIsDurable
  
