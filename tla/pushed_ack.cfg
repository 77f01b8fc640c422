\* Two concurrent writes to different DPs on a v3.5 session.
SPECIFICATION Spec
CONSTANTS
  Tasks = {a, b}
  DPs = {p, t}
  Values = {"lo", "hi"}
  Versions = {"3.5"}
  MaxSeq = 3
  MaxWire = 2
  MaxEvents = 2
INVARIANT
  EchoAcksItsWrite
