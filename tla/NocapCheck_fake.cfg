SPECIFICATION Spec
CONSTANTS
  Requests <- AskRead
  Installed <- AllChecks
  None = None
CHECK_DEADLOCK FALSE
INVARIANT FakeIsOnline
