SPECIFICATION Spec
CONSTANTS
  Requests = {r1, r2}
  NoReq = NoReq
  NrTags = 3
  CacheMax = 0
  NAux = 0
  BatchMax = 1
  Depth = 2
  Held = 1
  Timeouts = {"single"}
INVARIANT OwnCompletion
CHECK_DEADLOCK FALSE
