CONSTANTS
  s1 = s1
  s2 = s2
  s3 = s3
  grouped = grouped
  Pairs = {p1, p2, p3, p4, p5, p6, p7, p8, p9, p10}
  NoGroup = NoGroup
  Symbols <- Pairs
  Groups <- MCGroups
  GroupOf <- MCPairsGroupOf
  MaxCorrelated = 2
  MaxPosition = 500000
  InitialBalance = 1000000
  SizePct = 10
  BreakerPct = 10
  DailyPct = 5
  Prices = {99910}
  FeeDiv = 1000
  MaxPairs = 999
  MaxDbErrors = 0
  HardCap = 50
  MinNotional = 5
  Published = {}
  SpansDays = FALSE
  SpotOnly = TRUE
  Futures = FALSE
  MaxOpens = 10
SPECIFICATION Spec
PROPERTIES
  SellsWhatIsHeld
