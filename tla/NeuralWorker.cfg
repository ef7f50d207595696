SPECIFICATION Spec
CONSTANTS
  MaxPending = 3
  MaxPerTick = 2
  Cadence = 2
  MaxOffered = 5
CHECK_DEADLOCK FALSE
INVARIANTS BooksAgree SnapshotMatchesSteps
PROPERTIES NothingHangs
