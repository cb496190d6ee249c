SPECIFICATION FairSpec
CONSTANTS
  udp = udp
  http = http
  bad = bad
  torn = torn
  odd = odd
  c1 = c1
  c2 = c2
  Urls = {udp, http, bad, torn, odd}
  Scheme <- MCScheme
  Pool <- MCPool
  BadPort = {bad}
  Calls = {c1, c2}
  MaxConcurrency = 2
  MaxThreads = 1
INVARIANTS
  TypeOK
  UpMeansAnswered
  OwnVerdicts
  PermitsKept
  NothingLeft
PROPERTIES
  CallReturns
  EngineStops
CHECK_DEADLOCK FALSE
