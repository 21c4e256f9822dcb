SPECIFICATION MCSpec
CONSTANTS
  NRET = 2
  CHANNEL_IDX = 1
  N = 3
  PCs = {0, 4}
  Regs = {0, 1}
  LATENCY = 2
  MAX_CYCLES = 6
  Bytes = {0, 1}
  Words = {0, 4}
  ValidAddrs = {4}
  Lanes = {0, 1}
  Data = {0, 1}
  Depth = 3
  Registers = {0, 1, 2, 3}
  mask = {1, 2}
  stack_mask = {2}
  RegData = {0, 1}
  WORDS = 8
  RESET_ADDR = 0
  Irqs = {3, 7}
  Insns <- MCInsns
  IrqInputs <- MCIrqInputs
  Values = {0, 5}
  MAX_ORDER = 3
  None = None
INVARIANTS
  PartsTyped
  VerdictExact
  NeighbourExact
  CausalVerdict
  UniqueExact
  ProgressVerdict
  MemVerdict
  IoExact
  DmemExact
  OneAtATime
PROPERTIES
  Executes
  Restores
CHECK_DEADLOCK FALSE
