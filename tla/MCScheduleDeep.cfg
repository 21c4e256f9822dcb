SPECIFICATION Spec
CONSTANTS
  MAX_CYCLE = 7
  MAX_DEPTH = 10
INVARIANTS
  ChecksLastStep
CHECK_DEADLOCK FALSE
