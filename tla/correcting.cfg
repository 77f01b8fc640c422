\* One task: answers may be late, told apart by command only, or pushed.
SPECIFICATION FairSpec
CONSTANTS
  Tasks = {a}
  DPs = {p}
  Values = {"lo", "hi"}
  Versions = {"3.3", "3.4", "3.5"}
  MaxSeq = 3
  MaxWire = 2
  MaxEvents = 1
PROPERTIES
  Settles
