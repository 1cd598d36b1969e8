CONSTANTS
  s1 = s1
  s2 = s2
  s3 = s3
  grouped = grouped
  Pairs = {}
  NoGroup = NoGroup
  Symbols <- MCFree
  Groups <- MCGroups
  GroupOf <- MCTrioGroupOf
  MaxCorrelated = 1
  MaxPosition = 5000
  InitialBalance = 10000
  SizePct = 40
  BreakerPct = 30
  DailyPct = 15
  Prices = {10, 20}
  FeeDiv = 1000
  MaxPairs = 2
  MaxDbErrors = 1
  HardCap = 50
  MinNotional = 5
  Published = {"GREEN", "RED", "PURPLE"}
  SpansDays = TRUE
  SpotOnly = TRUE
  Futures = FALSE
  MaxOpens = 3
SPECIFICATION Spec
SYMMETRY MCPairSymmetry
INVARIANTS
  TypeOK
  BookIsSum
  FilledInFull
  CapsHold
  MoneyConserved
PROPERTIES
  OpensOnSoundEquity
  ImplementsLedger
