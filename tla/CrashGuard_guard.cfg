CONSTANTS
  u1 = u1
  Users <- MCOne
  NPairs = 3
  Unit = 6
  Window = 3
  MinHistory = 3
  TakesLimit = TRUE
  HasAtr = FALSE
  Crashing = FALSE
  MaxFaults = 1
  MaxCrashes = 1
  MaxQueue = 2
SPECIFICATION FairSpec
INVARIANTS
  TypeOK
  NoLoneAlarm
  RedNeedsVolatility
PROPERTIES
  StandingLevelIsHeard
