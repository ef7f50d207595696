SPECIFICATION Spec
CONSTANTS
  Games = 3
  QueueCap = 1
  Coalesce = 2
CHECK_DEADLOCK FALSE
INVARIANTS BooksBalance SuccessMeansDurable HeadIsCurrent WrittenInOrder
PROPERTIES CallsReturn ImplementsPersistence
