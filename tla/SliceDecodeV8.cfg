CONSTANTS
  t1 = t1
  t2 = t2
  t3 = t3
  NoThread = NoThread
  Unsupported = Unsupported
  Thread <- TwoThreads
  NSlices = 4
  Owner <- FourOverTwo
  ChecksLog = FALSE
  HasCancel = FALSE
  ChecksCodec = FALSE
SPECIFICATION Spec
INVARIANTS
  FailuresPropagate
