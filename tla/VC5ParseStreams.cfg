CONSTANTS
  NumChannels = 2
  Levels = 2
SPECIFICATION Spec
INVARIANTS
  TypeOK
  MaskMatchesBands
  DoneMeansAllBands
  ReconHasItsWavelet
  AllSentMeansDone
