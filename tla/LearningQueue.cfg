CONSTANTS
  Workers = {w1, w2, w3}
  Games = 4
SPECIFICATION Spec
CHECK_DEADLOCK FALSE
INVARIANTS GamesAccounted MergesKept
PROPERTIES RunEnds
