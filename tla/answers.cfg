\* Two tasks on a v3.3 session: answers are told apart by sequence number.
SPECIFICATION Spec
CONSTANTS
  Tasks = {a, b}
  DPs = {p}
  Values = {"lo", "hi"}
  Versions = {"3.3"}
  MaxSeq = 4
  MaxWire = 2
  MaxEvents = 2
INVARIANTS
  TypeOK
  OwnAnswer
  NobodyForgotten
  NoPhantom
