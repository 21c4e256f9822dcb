SPECIFICATION Spec
CONSTANTS
  NRET = 2
  N = 0
  CHANNEL_IDX = 0
  Words = {0}
  ValidAddrs = {0}
  Lanes = {0}
  Data = {0, 1}
INVARIANT DmemExact
