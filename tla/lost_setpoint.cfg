\* The setpoint a mode had, and what a change of mode leaves of it.
SPECIFICATION Spec
CONSTANTS
  Temps = {20, 35}
  Spoken = {"none", "boost"}
  MaxCalls = 4
INVARIANT
  SetpointRestored
