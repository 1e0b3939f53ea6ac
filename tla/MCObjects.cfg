SPECIFICATION Spec
CONSTANTS
  i0 = i0
  i1 = i1
  i2 = i2
  n0 = n0
  n1 = n1
  n2 = n2
  root = root
  d1 = d1
  d2 = d2
  f1 = f1
  f2 = f2
  sda = sda
  sdb = sdb
  None = None
SYMMETRY Symmetry
INVARIANTS TypeOK ObjectsKept
CHECK_DEADLOCK FALSE
