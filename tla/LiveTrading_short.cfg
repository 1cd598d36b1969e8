CONSTANTS
  s1 = s1
  s2 = s2
  NoSymbol = NoSymbol
  NoGroup = NoGroup
  Groups = {}
  GroupOf <- MCNoGroups
  MaxCorrelated = 2
  InitialBalance = 10000
  SizePct = 10
  BreakerPct = 10
  DailyPct = 5
  HardCap = 50
  MinNotional = 5
  Leverage = 10
  CarriedSize = 700
  Symbols <- MCTwo
  MaxPosition = 5000
  Futures = TRUE
  Deposit = 20000
  Carried = {s1}
  Published = {"RED"}
  MaxSignals = 2
  MaxFaults = 0
  MaxStops = 0
  MaxCrashes = 0
  MaxPairs = 3
SPECIFICATION Spec
PROPERTIES
  RedOnlyReduces
