SPECIFICATION Spec
CONSTANTS
  Powers = {0, 1}
  Intervals = {1, 3}
  MinMaxGap = 2
  Day = 4
  Shifts = {1, 3}
  MaxTime = 6
  MaxShifts = 1
  NaN = NaN
  None = None
INVARIANTS MeterNeverFalls RuntimeFits
PROPERTIES HoleNotBilled
