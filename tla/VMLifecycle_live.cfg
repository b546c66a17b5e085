SPECIFICATION FairSpec
CONSTANTS
  DiskNames = {d1, d2}
  Starters = {s1, s2}
  Resetters = {}
  MaxVMIndex = 0
  NoProc = NoProc
  NoVM = NoVM
CHECK_DEADLOCK FALSE
PROPERTIES
  IndexFreed
