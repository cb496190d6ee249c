SPECIFICATION FairSpec
CONSTANTS
  run1 = run1
  run2 = run2
  old = old
  new = new
  Runs = {run1, run2}
  Trackers = {old, new}
  List <- MCList
  MaxRetries = 3
  Late = TRUE
INVARIANTS
  TypeOK
  DoneMeansApplied
PROPERTIES
  ContractSpec
  RunsEnd
CHECK_DEADLOCK FALSE
