SPECIFICATION Spec
CONSTANTS
  None = None
  r1 = r1
  r2 = r2
  NoReq = NoReq
  b1 = b1
  b2 = b2
  h1 = h1
  h2 = h2
  i0 = i0
  i1 = i1
  n0 = n0
  n1 = n1
  root = root
  d1 = d1
  d2 = d2
PROPERTY CallReturns
CHECK_DEADLOCK FALSE
