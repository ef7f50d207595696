SPECIFICATION Spec
CONSTANTS
  Words = {w1, w2}
  Readers = {r1}
  Slots = 3
  MaxTries = 2
  MaxFrames = 7
CHECK_DEADLOCK FALSE
INVARIANTS TornFree NoStaleFrame
