\* Four platforms, a device that clips, restores and reverts.
SPECIFICATION Spec
CONSTANTS
  Temps = {20, 35}
  Spoken = {"none", "boost"}
  MaxCalls = 4
INVARIANTS
  TypeOK
  ModeLands
  PresetCarried
  SetpointKept
