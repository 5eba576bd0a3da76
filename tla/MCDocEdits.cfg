SPECIFICATION DocSpec
CONSTANTS
  Client = {c1, c2}
  EditKind = {"type", "erase"}
  InitialText <- MCText
  MaxAttempts = 2
  MaxDocChars = 3
  MaxRebase = 2
  MaxEdits = 3
  MaxFailures = 1
  MaxResets = 1
SYMMETRY Symmetry
INVARIANTS
  EditsSurviveOnce
  ClientsConsistent
  RequestsFit
CHECK_DEADLOCK FALSE
