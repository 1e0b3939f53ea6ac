SPECIFICATION MCSpec
CONSTANTS
  i1 = i1
  i2 = i2
  i3 = i3
  d1 = d1
  d2 = d2
  h1 = h1
  h2 = h2
  c1 = c1
  c2 = c2
  None = None
  Urbs = {u1, u2}
  Control = {u2}
  Hcd = c1
  MaxMaps = 6
INVARIANTS AllTypes UnmapsOwn
PROPERTIES StorageTrue PortReadsTrue
CHECK_DEADLOCK FALSE
