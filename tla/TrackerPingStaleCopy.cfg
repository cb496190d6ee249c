SPECIFICATION Spec
CONSTANTS
  Trackers = {http, udp}
  UdpTrackers = {udp}
  Runs = {r1, r2}
  Deployments <- NoVpn
  PriorFailures = {0, 1}
  SleepSpan = 1
  HibernateSpan = 2
  HistoryDays = 2
  MaxClock = 1
  Overlap = TRUE
  TornSaves = FALSE
SYMMETRY MCSymmetry
INVARIANTS
  PassClears
