SPECIFICATION Spec
CONSTANTS
  NRET = 2
  CHANNEL_IDX = 1
  N = 3
  PCs = {0, 4}
INVARIANTS
  BwdExact
CHECK_DEADLOCK FALSE
