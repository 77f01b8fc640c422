\* A v3.5 session that is reset while the reconnect loop refreshes.
SPECIFICATION Spec
CONSTANTS
  Requests = {r1, r2}
  Sockets = {s1, s2}
  NoSocket = NoSocket
  Version = "3.5"
  Drops = {"bad"}
INVARIANT
  OneHeartbeat
