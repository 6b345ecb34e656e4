SPECIFICATION AnsweringSpec
CONSTANTS
  Relays <- ThreeRelays
  Malformed <- ThirdRelay
  Blockable <- SecondRelay
  Slots <- TwoSlots
  None = None
  MaxBatch = 2
  PoisonAt = 1
  RetryCap = 3
  r1 = r1
  r2 = r2
  r3 = r3
  s1 = s1
  s2 = s2
INVARIANTS
  TypeOK
  OneJobPerRelay
  WarmupDrains
  RetriesBehind
  OnlineHasNoRetries
PROPERTIES
  ChecksAtomic
  EnqueuedReleased
  WarmupEnds
