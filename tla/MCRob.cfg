SPECIFICATION Spec
CONSTANTS
  NRET = 2
  N = 12
  DEPTH = 8
  WINDOW = 4
INVARIANTS
  TypeOK
  NeverComplains
PROPERTIES
  Reorders
  ComesOut
