SPECIFICATION FairSpec
CONSTANTS
  Hashes <- OneHash
  Droppable <- OneHash
  PageCalls <- OnePage
  None = None
  MaxTries = 2
  MaxTerm = 2
  MaxLate = 1
  h1 = h1
  h2 = h2
  p1 = p1
INVARIANTS
  DroppedIsDetached
PROPERTIES
  KeptGetsServed
