SPECIFICATION MCSpec
CONSTANTS
  Files = {1, 2, 3}
  RawFiles = {1, 2}
  Errors = {5, 28}
  CtrMod = 4
  MaxSets = 3
  m1 = m1
  f1 = f1
  f2 = f2
  f3 = f3
  b1 = b1
  b2 = b2
  c1 = c1
  None = None
SYMMETRY Symmetry
INVARIANTS AllTypes SeenInOrder NewsDiffers PagesKept
PROPERTY ReportedOnce
CHECK_DEADLOCK FALSE
