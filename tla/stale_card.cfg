\* A fault that clears while its entry is being set up again.
SPECIFICATION FairSpec
CONSTANTS
  Coded = {"compressor"}
  Flow = "water_flow"
  Debounce = 3
  Interval = 2
PROPERTIES
  CardsClear
