SPECIFICATION BracketSpec
CONSTANTS
  Formats <- MCFormats
  Scores <- MCScores
  Seeds <- MCSeeds
  MaxPar = 2
  Nothing = Nothing
  Error = Error
INVARIANTS EveryPairMeets BrainsCarryForward BestAdvance PodiumIsEarned
CHECK_DEADLOCK FALSE
