SPECIFICATION Spec
CONSTANTS
  h1 = h1
  h2 = h2
  d1 = d1
  d2 = d2
  n1 = n1
  n2 = n2
  s1 = s1
  s2 = s2
  b1 = b1
  b2 = b2
  k1 = k1
  k2 = k2
  None = None
INVARIANTS TypeOK SataTrue EventsTrue
PROPERTY NetTrue
CHECK_DEADLOCK FALSE
