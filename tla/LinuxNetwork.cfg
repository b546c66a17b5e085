SPECIFICATION Spec
CONSTANTS
  Names = {a, b}
  Modes = {"shared"}
  Starts = {s1, s2}
  Removers = {r1}
  MaxVMIndex = 1
  ForeignNICs = {}
  Blind = FALSE
  NoVM = NoVM
SYMMETRY Symmetry
CHECK_DEADLOCK FALSE
INVARIANTS
  TypeOK
  PreparationReverts
PROPERTIES
  SiblingsKept
