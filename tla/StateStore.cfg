SPECIFICATION Spec
CONSTANTS
  Updaters = {u1, u2}
  Savers = {p1}
  Cleaners = {c1}
  MaxTries = 1
SYMMETRY Symmetry
CHECK_DEADLOCK FALSE
INVARIANTS
  TypeOK
  Exclusive
  NoUpdateLost
  WholeFile
  FailureLeavesNothing
