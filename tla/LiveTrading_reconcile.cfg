CONSTANTS
  s1 = s1
  s2 = s2
  NoSymbol = NoSymbol
  NoGroup = NoGroup
  Groups = {}
  GroupOf <- MCNoGroups
  MaxCorrelated = 2
  InitialBalance = 10000
  SizePct = 10
  BreakerPct = 10
  DailyPct = 5
  HardCap = 50
  MinNotional = 5
  Leverage = 10
  CarriedSize = 700
  Symbols <- MCTwo
  MaxPosition = 5000
  Futures = TRUE
  Deposit = 500
  Carried = {s1}
  Published = {"RED"}
  MaxSignals = 1
  MaxFaults = 1
  MaxStops = 1
  MaxCrashes = 0
  MaxPairs = 3
SPECIFICATION FairSpec
PROPERTIES
  BuysWhenAllowed
  Converges
  RedEmptiesTheAccount
