SPECIFICATION FairSpec
CONSTANTS
  Relays <- OneRelay
  Canonical <- AsIs
  Blockable <- NoRelay
  Syncable <- NoRelay
  None = None
  MaxQueue = 1
  r1 = r1
  r2 = r2
CHECK_DEADLOCK FALSE
PROPERTIES
  ReignoredPublished
