\* Frames of 0, 2 and 16 byte bodies, right or wrong in one way, on each protocol.
SPECIFICATION FairSpec
CONSTANTS
  None = None
  Bodies = {2, 16}
  MaxFrame = 87
  ReadChunk = 30
  MaxBuffer = 139
  Excess = 5
INVARIANTS
  ReadRight
  Drained
  EndsForCause
PROPERTIES
  Progress
