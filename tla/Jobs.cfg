SPECIFICATION FairSpec
CONSTANTS
  api = api
  timer = timer
  Follows <- MCFollows
  JobIds = {api, timer}
  Scheduled = {timer}
  Streams = {s1, s2}
  MaxAge = 1
  MaxLines = 1
  MaxClock = 2
INVARIANTS
  TypeOK
  NoLostWakeup
  StreamsComplete
PROPERTIES
  StreamsEnd
  LifecycleSpec
  PrunedWhenOld
CHECK_DEADLOCK FALSE
