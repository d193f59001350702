CONSTANTS
  Width = 2
  Height = 2
  Cpps <- OneComponent
  CfaSizes <- Patterns
  MaxOpcodes <- TwoThenOne
  Sse2 = FALSE
SPECIFICATION Spec
INVARIANTS
  TypeOK
  CfaFollowsCrop
  OpcodesMeetTheirCrop
  BadPixelsInside
  BlackAreasFit
  LevelsDescribeSamples
