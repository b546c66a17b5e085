SPECIFICATION Spec
CONSTANTS
  Invocations = {p1, p2}
  OldQemu = old
  Loadable = {a}
  Refused = {plus}
  NoName = noname
  Nobody = nobody
  NoVM = novm
  MaxVMIndex = 1
CHECK_DEADLOCK FALSE
INVARIANT
  WrittenNamesLoad
