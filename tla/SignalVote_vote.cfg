CONSTANTS
  a = a
  b = b
  p1 = p1
  p2 = p2
  NoPair = NoPair
  NoStrategy = NoStrategy
  Strategies <- MCStrategies
  Weight <- MCWeight
  Pairs <- MCPairs
  Broken <- MCBroken
  Confidences = {40, 90}
  Composites <- MCComposites
  MaxCasts = 1
  MaxFaults = 1
  MaxExpiries = 1
  MaxBlends = 1
SPECIFICATION FairSpec
INVARIANTS
  TypeOK
  VotesCountOnce
  CountersAgree
  SignalsFollowVotes
PROPERTIES
  BetterNeverOutweighed
  NoPairIsStarved
