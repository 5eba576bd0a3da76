SPECIFICATION FairDocSpec
CONSTANTS
  Client = {c1, c2}
  EditKind = {"type", "erase", "replace"}
  InitialText <- MCEmpty
  MaxAttempts = 3
  MaxDocChars = 9
  MaxRebase = 9
  MaxEdits = 2
  MaxFailures = 2
  MaxResets = 0
PROPERTIES
  EditsAreCommitted
CHECK_DEADLOCK FALSE
