\* A v3.3 device that half-closes the socket it has just accepted.
SPECIFICATION Spec
CONSTANTS
  Requests = {r1, r2}
  Sockets = {s1, s2}
  NoSocket = NoSocket
  Version = "3.3"
  Drops = {"eof"}
INVARIANT
  LostHasRetry
