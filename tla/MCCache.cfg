SPECIFICATION CacheSpec
CONSTANTS
  Proc = {p1, p2}
  Version = {v1, v2}
  First = v1
  MaxRuns = 3
  MaxEdits = 1
SYMMETRY Symmetry
INVARIANTS
  CacheTypeOK
  HitWasWhole
  TornByFaultsOnly
  
CHECK_DEADLOCK FALSE
