SPECIFICATION Spec
CONSTANTS
  Invocations = {p1, p2}
  OldQemu = old
  Loadable = {a, b}
  Refused = {plus}
  NoName = noname
  Nobody = nobody
  NoVM = novm
  MaxVMIndex = 1
SYMMETRY Symmetry
VIEW View
CHECK_DEADLOCK FALSE
INVARIANTS
  TypeOK
  RunningVMLoads
  LiveVMsDistinct
PROPERTIES
  OnlyOwnRecordChanges
  NewerFileKept
  ImplementsRegistry
