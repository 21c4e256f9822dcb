SPECIFICATION InsnSpec
CONSTANTS
  X = 8
  Values = {0, 1, 2, 7, 8, 85, 127, 128, 129, 240, 255}
  XpermValues = {0, 1, 4660, 27876, 58596, 65535}
  Offsets = {0, 1, 2, 4, 6, 127, 128, 252, 255}
  PCs = {0, 4, 6, 252}
  Executed = {"div"}
INVARIANTS
  ResultIsa
