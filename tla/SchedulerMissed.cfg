SPECIFICATION Spec
CONSTANTS
  Calendars <- AnyTime
  Raising <- MCRaising
  NextRun <- MCNextRun
  Bodies <- MCBodies
  Left <- Overdue
  MaxIds = 1
  MaxClock = 1
  MaxEdits = 0
  MaxRestarts = 0
  MaxFaults = 0
  MaxAborts = 0
PROPERTIES
  StaysDue
