SPECIFICATION Spec
CONSTANTS
  w1 = w1
  w2 = w2
  NoQueue = NoQueue
  t1 = t1
  t2 = t2
  Main = Main
  a = a
  x = x
  e1 = e1
  e2 = e2
  dA = dA
  c1 = c1
  None = None
PROPERTY NothingWaitsForever
CHECK_DEADLOCK FALSE
