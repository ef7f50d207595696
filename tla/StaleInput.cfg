SPECIFICATION Spec
CONSTANTS
  Slots = {s1, s2}
  Players = {p1, p2}
  None = None
  MaxSeq = 2
  MaxFrames = 2
  MaxAdmin = 2
INVARIANT StaleInputNotInherited
SYMMETRY Symmetry
CHECK_DEADLOCK FALSE
