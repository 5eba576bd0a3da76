SPECIFICATION RunnerSpec
CONSTANTS
  Job = {j1}
  Worker = {w1}
  NoWorker = NoWorker
  NoJob = NoJob
  Command = {c1}
  User = {u1}
  b1 = b1
  b2 = b2
  Batch = {b1, b2}
  Size <- MCSize
  Width <- MCWidth
  Report <- MCReport
  MaxQueued = 2
  PeekLimit = 2
  LeaseTicks = 0
  MaxOutput = 4
  MaxPolicyVersion = 1
  MaxPrints = 2
  MaxAttempts = 2
  MaxLate = 0
  MaxStarts = 1
SYMMETRY Symmetry
INVARIANTS
  ReportedOutcomeIsTrue
  CompleteMeansNothingLost
