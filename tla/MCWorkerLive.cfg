SPECIFICATION FairRunnerSpec
CONSTANTS
  Job = {j1}
  Worker = {w1}
  NoWorker = NoWorker
  NoJob = NoJob
  Command = {c1}
  User = {u1}
  b1 = b1
  b2 = b2
  Batch = {}
  Size <- MCSize
  Width <- MCWidth
  Report <- MCReport
  MaxQueued = 2
  PeekLimit = 2
  LeaseTicks = 0
  MaxOutput = 2
  MaxPolicyVersion = 1
  MaxPrints = 0
  MaxAttempts = 1
  MaxLate = 1
  MaxStarts = 2
PROPERTIES
  StartedJobEnds
  WorkersUseTheQueue
  
