SPECIFICATION Spec
CONSTANTS
  Runs = {r1, r2, r3}
  None = None
  Waves = 1
  MaxAttempts = 1
  MaxFaults = 0
PROPERTIES BreedingGoesOn
CHECK_DEADLOCK FALSE
