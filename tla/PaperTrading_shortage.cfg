CONSTANTS
  s1 = s1
  s2 = s2
  s3 = s3
  grouped = grouped
  Pairs = {}
  NoGroup = NoGroup
  Symbols <- MCFree
  Groups <- MCGroups
  GroupOf <- MCFreeGroupOf
  MaxCorrelated = 2
  MaxPosition = 20000
  InitialBalance = 10000
  SizePct = 70
  BreakerPct = 10
  DailyPct = 5
  Prices = {4, 20}
  FeeDiv = 1000
  MaxPairs = 3
  MaxDbErrors = 1
  HardCap = 50
  MinNotional = 5
  Published = {"GREEN", "ORANGE", "RED"}
  SpansDays = FALSE
  SpotOnly = TRUE
  Futures = FALSE
  MaxOpens = 3
SPECIFICATION FairSpec
INVARIANTS
  NeverOverdrawn
  EngineWithinTracker
  RowsAddUp
PROPERTIES
  RedFlattens
