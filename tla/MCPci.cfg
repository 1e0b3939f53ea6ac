SPECIFICATION MCSpec
CONSTANTS
  e1 = e1
  e2 = e2
  dA = dA
  dB = dB
  d1 = d1
  r1 = r1
  r2 = r2
  p1 = p1
  p2 = p2
  None = None
  Ids = {e1, e2}
  DevIds = {dA, dB}
  UsbDevIds = {dB}
  DeviceOf <- OwnDevice
  MaxSignals = 2
  MaxDepth = 2
  NoDevice = NoDevice
SYMMETRY Symmetry
INVARIANTS AllTypes IrqsServed VectorsUsable DevicesTrue
CHECK_DEADLOCK FALSE
