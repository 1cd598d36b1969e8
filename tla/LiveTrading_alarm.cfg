CONSTANTS
  s1 = s1
  s2 = s2
  NoSymbol = NoSymbol
  NoGroup = NoGroup
  Groups = {}
  GroupOf <- MCNoGroups
  MaxCorrelated = 2
  InitialBalance = 10000
  SizePct = 10
  BreakerPct = 10
  DailyPct = 5
  HardCap = 50
  MinNotional = 5
  Leverage = 10
  CarriedSize = 700
  Symbols <- MCTwo
  MaxPosition = 5000
  Futures = FALSE
  Deposit = 20000
  Carried = {s1}
  Published = {"GREEN", "ORANGE", "RED", "BLACK"}
  MaxSignals = 2
  MaxFaults = 1
  MaxStops = 0
  MaxCrashes = 1
  MaxPairs = 3
SPECIFICATION Spec
SYMMETRY MCSymmetry
INVARIANTS
  TypeOK
PROPERTIES
  BuysWhenAllowed
