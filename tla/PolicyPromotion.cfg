CONSTANTS
  Runners = {r1, r2}
  Tournaments = {t1}
  Parallel = 1
  MaxVersions = 3
  MaxRestarts = 1
  Fitnesses = {0}
  AllowedRegression = 0
  FlushFirst = FALSE
  FloorAboveGate = TRUE
SPECIFICATION Spec
INVARIANTS AtMostOneActive ParentsFirst
PROPERTIES ImplementsHistory VersionsWritten
