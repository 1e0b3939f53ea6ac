SPECIFICATION Spec
CONSTANTS
  b1 = b1
  b2 = b2
  h1 = h1
  h2 = h2
  h3 = h3
  None = None
SYMMETRY Symmetry
INVARIANTS TypeOK BuffersKept SyncHonest BarrierDurable FilesTrue LayoutTold
CHECK_DEADLOCK FALSE
