\* Every device, key and pin; overlapping connects on v3.4.
SPECIFICATION Spec
CONSTANTS
  Tasks = {t1, t2}
  Sockets = {s1, s2, s3}
  None = None
  Devices = {"3.3", "3.4", "3.5"}
  Pins = {"3.3", "3.4", "3.5", None}
INVARIANTS
  TypeOK
  SocketsAccounted
  KeyFitsSession
  VersionProven
  AuthErrorIsTrueAlone
