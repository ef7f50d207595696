SPECIFICATION Spec
CONSTANTS
  Runs = {r1, r2}
  None = None
  Waves = 2
  MaxAttempts = 2
  MaxFaults = 2
INVARIANTS MatchesArePrefix ChampionIsBanked
PROPERTIES LockIsFreed OnlyOrphansReclaimed
CHECK_DEADLOCK FALSE
