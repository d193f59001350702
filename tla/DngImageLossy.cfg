CONSTANTS
  Width = 9
  Height = 1
  Cpps <- OneOrThree
  CfaSizes <- NoPattern
  MaxOpcodes <- NoOpcodes
  Sse2 = TRUE
SPECIFICATION Spec
INVARIANTS
  LossyIsScaled
