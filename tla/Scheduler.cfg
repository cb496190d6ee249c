SPECIFICATION FairSpec
CONSTANTS
  Calendars <- AnyTime
  Raising <- MCRaising
  NextRun <- MCNextRun
  Bodies <- MCBodies
  Left <- MCLeft
  MaxIds = 2
  MaxClock = 3
  MaxEdits = 1
  MaxRestarts = 1
  MaxFaults = 1
  MaxAborts = 1
INVARIANTS
  TypeOK
  EnabledIffNext
  RaisesOnlyIfSent
  AtMostOncePerSlot
  EditsKept
PROPERTIES
  EachDueFiresAlone
CHECK_DEADLOCK FALSE
