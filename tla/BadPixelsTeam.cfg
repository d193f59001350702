CONSTANTS
  r1 = r1
  r2 = r2
  Width = 20
  Height = 5
  Cpp = 1
  Step = 2
  Cores = 3
  Recorder <- Recorders
  Candidate <- Scattered
  Picture <- Decoded
  MaxSample = 65535
SPECIFICATION Spec
SYMMETRY Symmetric
INVARIANTS
  TypeOK
  NoPositionLost
  ResultIsSequential
