SPECIFICATION Spec
CONSTANTS
  Urls = {list, repo}
  RawUrls = {list}
  DefaultRaw = {}
  WellKnown = {list, repo}
  Manuals = {hand}
  Discoveries = {d1, d2}
  MinInterval = 2
  MaxClock = 3
  MaxEdits = 3
  MaxAborts = 1
  MaxFaults = 1
INVARIANTS
  TypeOK
  UniqueCandidates
  DismissedNotPending
  RefusedStays
  ApprovedStays
PROPERTIES
  RateLimited
CHECK_DEADLOCK FALSE
