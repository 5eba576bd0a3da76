SPECIFICATION FairStreamSpec
CONSTANTS
  u1 = u1
  u2 = u2
  User = {u1, u2}
  Owner = u1
  Admin = {u2}
  NoUser = NoUser
  j1 = j1
  Job = {j1}
  notes = notes
  Doc = {notes}
  Notes = notes
  MaxEvents = 5
  MaxOverflow = 2
  MaxParticipants = 2
  MaxDocs = 1
  MaxChunks = 1
  MaxCrashes = 1
  Watcher = {u2}
  ReplayLimit = 1
  MaxDrops = 1
INVARIANTS
  StreamsAreExact
  ViewsAreHistory
PROPERTIES
  ViewersCatchUp
  FinishedJobIsLogged
CHECK_DEADLOCK FALSE
