SPECIFICATION MCSpec
CONSTANTS
  X = 8
  Values = {0, 1, 7, 8, 85, 127, 128, 240, 255}
  XpermValues = {0, 1, 4660, 27876, 58596, 65535}
  Offsets = {0, 1, 2, 4, 6, 127, 128, 252, 255}
  PCs = {0, 4, 6, 252}
  Executed <- All
  Configs <- AllConfigs
  CsrOrder <- Alphabetical
  NRET = 2
  CHANNEL_IDX = 1
  N = 3
  MAX_CYCLE = 30
  MAX_DEPTH = 32
  MonitorPCs = {0, 4}
  MonitorRegs = {0, 1}
  ROB_N = 6
  DEPTH = 2
INVARIANTS
  OneHot
  Coverage
  Hierarchy
  Reassembles
  ResultExact
  PcExact
  MemExact
  InsnVerdict
  MonitorReports
  Complete
  DepthMeant
  KeywordsCurrent
  DefinesExact
  OnSchedule
  PartsTyped
  MonitorExact
PROPERTIES
  NeverOverwritten
  MonitorSound
CHECK_DEADLOCK FALSE
