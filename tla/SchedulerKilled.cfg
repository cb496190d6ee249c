SPECIFICATION FairSpec
CONSTANTS
  Calendars <- AnyTime
  Raising <- MCRaising
  NextRun <- MCNextRun
  Bodies <- MCBodies
  Left <- Overdue
  MaxIds = 1
  MaxClock = 3
  MaxEdits = 0
  MaxRestarts = 0
  MaxFaults = 0
  MaxAborts = 1
PROPERTIES
  EachDueFires
CHECK_DEADLOCK FALSE
