SPECIFICATION Spec
CONSTANTS
  hk = hk  hf = hf  ak = ak  af = af  ag = ag
  Players <- MCPlayers
  Squad <- MCSquad
  Keeper <- MCKeeper
  Ball = Ball
  None = None
  TotalTicks = 7
  HalfTicks = 3
  Halves = 2
  Periods = 3
  CelebrationTicks = 2
  MaxGoals = 2
CHECK_DEADLOCK FALSE
INVARIANTS HeldBallIsRightful LastTouchTeamTrue GoalKickoffLedger
PROPERTIES GuardedTakerNeverRegains MatchEnds ImplementsLifecycle
