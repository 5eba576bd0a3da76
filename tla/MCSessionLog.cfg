SPECIFICATION SessionSpec
CONSTANTS
  u1 = u1
  u2 = u2
  User = {u1, u2}
  Owner = u1
  Admin = {u2}
  NoUser = NoUser
  j1 = j1
  j2 = j2
  Job = {j1, j2}
  notes = notes
  draft = draft
  Doc = {notes, draft}
  Notes = notes
  MaxEvents = 7
  MaxOverflow = 2
  MaxParticipants = 2
  MaxDocs = 2
  MaxChunks = 2
  MaxCrashes = 1
SYMMETRY Symmetry
INVARIANTS
  SessionConsistent
  SnapshotIsFold
  OutputLoggedOnce
PROPERTIES
  EndedIsFinal
CHECK_DEADLOCK FALSE
