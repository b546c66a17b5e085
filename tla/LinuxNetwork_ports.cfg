SPECIFICATION Spec
CONSTANTS
  Names = {a, b}
  Modes = {"shared", "bridged", "user"}
  Starts = {s1, s2}
  Removers = {}
  MaxVMIndex = 1
  ForeignNICs = {nic}
  Blind = TRUE
  NoVM = NoVM
SYMMETRY Symmetry
CHECK_DEADLOCK FALSE
INVARIANTS
  NoForeignNIC
