\* Two requests connect at the same time to a v3.4 device with the right key.
SPECIFICATION Spec
CONSTANTS
  Tasks = {t1, t2}
  Sockets = {s1, s2}
  None = None
  Devices = {"3.4"}
  Pins = {"3.4"}
INVARIANTS
  AuthErrorIsTrue
