SPECIFICATION FairTaskSpec
CONSTANTS
  a = a
  b = b
  c = c
  Plans <- MCChain
  Concurrency = 2
  Governed = FALSE
  Burst = 1
  Caching = TRUE
  Aging = 1
  MaxNow = 0
PROPERTY RunReturns
CHECK_DEADLOCK FALSE
