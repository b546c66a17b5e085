SPECIFICATION Spec
CONSTANTS
  DiskNames = {d1, d2}
  Starters = {s1, s2}
  Resetters = {r1}
  MaxVMIndex = 1
  NoProc = NoProc
  NoVM = NoVM
SYMMETRY Symmetry
VIEW View
CHECK_DEADLOCK FALSE
INVARIANTS
  TypeOK
  LiveIndicesDistinct
  ReservationHeld
  RunningVMsDistinct
  AddressKept
  RecordedVMHasDisk
PROPERTIES
  ImplementsRegistry
