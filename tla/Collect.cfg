SPECIFICATION FairSpec
CONSTANTS
  Repos = {repo1, repo2}
  Passes = {p1, p2}
  MaxPushes = 2
INVARIANTS
  TypeOK
  CurrentListing
PROPERTIES
  PassEnds
CHECK_DEADLOCK FALSE
