SPECIFICATION Spec
CONSTANTS
  Relays <- OneRelay
  Malformed <- NoRelay
  Blockable <- NoRelay
  Slots <- OneSlot
  None = None
  MaxBatch = 1
  PoisonAt = 1
  RetryCap = 2
  r1 = r1
  r2 = r2
  r3 = r3
  s1 = s1
  s2 = s2
PROPERTIES
  OutageRecovers
