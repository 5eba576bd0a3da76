SPECIFICATION RunnerSpec
CONSTANTS
  Job = {j1}
  Worker = {w1, w2}
  NoWorker = NoWorker
  NoJob = NoJob
  Command = {c1}
  User = {u1}
  b1 = b1
  b2 = b2
  Batch = {}
  Size <- MCSize
  Width <- MCWidth
  Report <- MCReport
  MaxQueued = 2
  PeekLimit = 2
  LeaseTicks = 0
  MaxOutput = 2
  MaxPolicyVersion = 2
  MaxPrints = 0
  MaxAttempts = 1
  MaxLate = 1
  MaxStarts = 1
SYMMETRY Symmetry
INVARIANTS
  
  GoneIsFinal
PROPERTIES
  HeardRevocationIsObeyed
