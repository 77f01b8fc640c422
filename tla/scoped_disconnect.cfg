\* A v3.4 client disconnected while a request reconnects lazily.
SPECIFICATION Spec
CONSTANTS
  Requests = {r1, r2}
  Sockets = {s1, s2}
  NoSocket = NoSocket
  Version = "3.4"
  Drops = {"eof"}
INVARIANT
  DownStaysDown
