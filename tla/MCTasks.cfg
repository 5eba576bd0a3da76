SPECIFICATION FairTaskSpec
CONSTANTS
  a = a
  b = b
  c = c
  Plans <- MCPlans
  Concurrency = 2
  Governed = TRUE
  Burst = 1
  Caching = TRUE
  Aging = 1
  MaxNow = 1
INVARIANTS
  PlanIsRight
  TaskTypeOK
  DependenciesFirst
  
PROPERTIES
  NothingStartsAfterFailure
  
  RunComesToRest
CHECK_DEADLOCK FALSE
