SPECIFICATION FairSpec
CONSTANTS
  Jobs <- FourJobs
  CategoryOf <- FourCategories
  MaxRetries = 2
  Concurrency = 2
  j1 = j1
  j2 = j2
  j3 = j3
  j4 = j4
CHECK_DEADLOCK FALSE
INVARIANTS
  TypeOK
  EachJobOnce
  CountersRight
PROPERTIES
  KeepsPromise
  JobsSettle
