SPECIFICATION Spec
CONSTANTS
  r1 = r1
  r2 = r2
  r3 = r3
  s1 = s1
  s2 = s2
  NoReq = NoReq
SYMMETRY Symmetry
INVARIANTS TypeOK CommandsOwn BatchExact
PROPERTY DiskTrue
CHECK_DEADLOCK FALSE
