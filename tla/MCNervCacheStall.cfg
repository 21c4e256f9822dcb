SPECIFICATION Spec
CONSTANTS
  Code <- MCCode
  Cacheable <- MCCacheable
  IoMem <- MCIoMem
  Lines = {0, 1, 2, 3, 4}
  Faults <- MCFaults
  Boot <- MCBoot
  BEATS = 2
  COUNT = 1
  Data = {0, 1}
  None = None
  EARLY_STALL = TRUE
PROPERTIES
  StallEnds
