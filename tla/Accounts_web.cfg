CONSTANTS
  Users = {u1, u2}
  Admin = u1
  Slots = {s1, s2}
  Wallets = {w1}
  Subs = {c1, c2}
  Chosen = {"pro"}
  Bought = {"pro"}
  Offered = {"enterprise"}
  Positions = {5000}
  PairCounts = {10}
  NoRow = NoRow
  NoUser = NoUser
  NoWallet = NoWallet
  NoSub = NoSub
  MaxRequests = 3
  MaxEvents = 4
  MaxFaults = 1
SPECIFICATION Spec
SYMMETRY Symmetry
INVARIANTS
  TypeOK
  SpentStaysSpent
  SharedOnlyIfContested
  EndedIsBasic
  PlanWasGranted
PROPERTIES
  LinkSetsOnePassword
  ChecksHoldUnlessOvertaken
\* Nobody has to send another request.
CHECK_DEADLOCK FALSE
