SPECIFICATION Spec
CONSTANTS
  run1 = run1
  run2 = run2
  old = old
  new = new
  Runs = {run1, run2}
  Trackers = {old, new}
  List <- MCList
  MaxRetries = 0
  Late = FALSE
PROPERTIES
  PassedMeansPresent
CHECK_DEADLOCK FALSE
