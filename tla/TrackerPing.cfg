SPECIFICATION Spec
CONSTANTS
  Trackers = {http, udp}
  UdpTrackers = {udp}
  Runs = {r1, r2}
  Deployments <- MaybeVpn
  PriorFailures = {0, 5}
  SleepSpan = 1
  HibernateSpan = 2
  HistoryDays = 1
  MaxClock = 1
  Overlap = TRUE
  TornSaves = TRUE
SYMMETRY MCSymmetry
INVARIANTS
  TypeOK
  FailuresBacked
  ParkedBounded
  PassClearsCalm
  FailuresExact
PROPERTIES
  InjectedAreUp
  ContractSpec
