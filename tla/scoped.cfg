\* A v3.4 device that closes its socket after every answer.
SPECIFICATION Spec
CONSTANTS
  Requests = {r1, r2}
  Sockets = {s1, s2}
  NoSocket = NoSocket
  Version = "3.4"
  Drops = {"eof"}
INVARIANTS
  QuietScoped
