\* A v3.5 session (v3.3 behaves alike) that ends by a reset or a bad frame.
SPECIFICATION FairSpec
CONSTANTS
  Requests = {r1, r2}
  Sockets = {s1, s2}
  NoSocket = NoSocket
  Version = "3.5"
  Drops = {"bad", "garbage"}
INVARIANTS
  NotesAlternate
  LostHasRetry
  WatchedWhileUp
  NoStrandedRequest
  DownStaysDown
  SingleSession
  AuthErrorIsFresh
PROPERTIES
  LinkSpec
