SPECIFICATION Spec
CONSTANTS
  NRET = 2
  N = 3
  Regs = {0, 1}
  KEEP_CAUSALITY = TRUE
  KEEP_WRITE_ORDER = FALSE
  CHANNEL_IDX = 1
INVARIANTS
  NoFalseAlarm
CHECK_DEADLOCK FALSE
