SPECIFICATION QueueSpec
CONSTANTS
  Job = {j1, j2}
  Worker = {w1}
  NoWorker = NoWorker
  Command = {c1}
  User = {u1, u2}
  b1 = b1
  b2 = b2
  Batch = {b1, b2}
  Size <- MCSize
  Width <- MCWidth
  Report <- MCReport
  MaxQueued = 2
  PeekLimit = 2
  LeaseTicks = 0
  MaxOutput = 2
  MaxPolicyVersion = 2
SYMMETRY Symmetry
INVARIANTS
  JobsConsistent
  StartedOnlyIfAudited
PROPERTIES
  
  ContractSpec
