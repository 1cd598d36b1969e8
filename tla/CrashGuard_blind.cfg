CONSTANTS
  u1 = u1
  Users <- MCOne
  NPairs = 10
  Unit = 2520
  Window = 20
  MinHistory = 10
  TakesLimit = FALSE
  HasAtr = FALSE
  Crashing = TRUE
  MaxFaults = 0
  MaxCrashes = 0
  MaxQueue = 2
SPECIFICATION FairSpec
PROPERTIES
  CrashIsAnnounced
