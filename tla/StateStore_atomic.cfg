SPECIFICATION FairSpec
CONSTANTS
  Updaters = {u1, u2, u3}
  Savers = {}
  Cleaners = {}
  MaxTries = 1
CHECK_DEADLOCK FALSE
PROPERTIES
  ImplementsAtomicStore
  LockWaitEnds
