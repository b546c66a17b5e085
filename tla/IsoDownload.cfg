SPECIFICATION Spec
CONSTANTS
  core = core
  standard = standard
  one = one
  two = two
  Invocations = {p1, p2}
  Names = {core}
  Others = {standard}
  Contents = {one, two}
  Partial = partial
  Absent = absent
  Unusable = unusable
  NoName = noname
  Bodies <- MCBodies
VIEW View
CHECK_DEADLOCK FALSE
INVARIANTS
  TypeOK
  OnlyVerifiedKept
  TempsRemoved
PROPERTIES
  VerifiedISOKept
  DownloadEnds
