CONSTANTS
  u1 = u1
  u2 = u2
  r1 = r1
  r2 = r2
  Users <- MCUsers
  Requests <- MCRequests
  RefreshEvery = 4
  MaxFaults = 1
  MaxCrashes = 1
SPECIFICATION FairSpec
INVARIANTS
  TypeOK
  SessionsWereWanted
PROPERTIES
  SessionsFollowTheDatabase
CHECK_DEADLOCK FALSE
