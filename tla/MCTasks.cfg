SPECIFICATION MCSpec
CONSTANTS
  w1 = w1
  w2 = w2
  q1 = q1
  NoQueue = NoQueue
  t1 = t1
  t2 = t2
  t3 = t3
  Main = Main
  Threads = {t1, t2}
  CbObjects = {a, b}
  FreeObjects = {x}
  CallbacksYield = FALSE
  MaxNest = 1
INVARIANTS AllTypes WorkSafe ThreadsSafe LocksSafe
PROPERTY RcuSafe
CHECK_DEADLOCK FALSE
