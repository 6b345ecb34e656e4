SPECIFICATION Spec
CONSTANTS
  Hashes <- TwoHashes
  Droppable <- OneHash
  PageCalls <- OnePage
  None = None
  MaxTries = 2
  MaxTerm = 2
  MaxLate = 0
  h1 = h1
  h2 = h2
  p1 = p1
INVARIANTS
  TypeOK
  KeptIsServed
  CallersHeard
PROPERTIES
  ServiceLasts
CONSTRAINT Clean
