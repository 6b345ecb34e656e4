SPECIFICATION Spec
CONSTANTS
  Urls <- ThreeUrls
  Garbage <- OneGarbage
  Spam <- OneSpam
  LastVersion = 3
  Rejects <- ThreeRules
  None = None
  g = g
  x = x
  s = s
INVARIANTS
  TypeOK
  RemovedAnnounced
PROPERTIES
  SentinelHonest
  DrainClears
  OnlyFileResends
  TableKept
