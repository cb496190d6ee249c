SPECIFICATION Spec
CONSTANTS
  HourLen = 2
  DayLen = 6
  DaysPerWeek = 7
  DefaultTime = 3
  Unparsable = Unparsable
  Intervals = {1, 4}
  MaxLate = 7
  Horizon = 60
INVARIANT NextIsFirstSlot
CHECK_DEADLOCK FALSE
