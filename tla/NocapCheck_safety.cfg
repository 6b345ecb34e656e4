SPECIFICATION FairSpec
CONSTANTS
  Requests <- EveryRequest
  Installed <- AllChecks
  None = None
CHECK_DEADLOCK FALSE
INVARIANTS
  TypeOK
  FailsTogether
  NoSocketLeft
PROPERTIES
  KeepsPromise
  CheckReturns
