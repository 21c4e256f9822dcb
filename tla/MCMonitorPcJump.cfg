SPECIFICATION Spec
CONSTANTS
  NRET = 2
  N = 3
  PCs = {0, 4}
INVARIANTS
  JumpReported
