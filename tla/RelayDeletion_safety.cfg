SPECIFICATION FairSpec
CONSTANTS
  Relays <- TwoRelays
  Canonical <- OneForm
  Blockable <- OneRelay
  Syncable <- OneRelay
  None = None
  MaxQueue = 1
  r1 = r1
  r2 = r2
CHECK_DEADLOCK FALSE
INVARIANTS
  TypeOK
  BelievedDeleted
PROPERTIES
  NotSentAgain
  ChecksAtomic
  PendingPublished
