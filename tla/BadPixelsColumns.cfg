CONSTANTS
  r1 = r1
  r2 = r2
  Width = 40
  Height = 3
  Cpp = 1
  Step = 1
  Cores = 3
  Recorder <- Recorders
  Candidate <- LastColumns
  Picture <- Decoded
  MaxSample = 65535
SPECIFICATION Spec
INVARIANTS
  AllInterpolated
