CONSTANTS
  t1 = t1
  t2 = t2
  t3 = t3
  NoThread = NoThread
  Unsupported = Unsupported
  Thread <- ThreeThreads
  NSlices = 4
  Owner <- FourOverThree
  ChecksLog = TRUE
  HasCancel = TRUE
  ChecksCodec = TRUE
SPECIFICATION FairSpec
INVARIANTS
  TypeOK
  EveryFailureLoggedOnce
PROPERTIES
  Implements
  Terminates
