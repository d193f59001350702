SPECIFICATION Spec
CONSTANTS
  Depth = 2
  SubIFDCount = 2
  RecursiveSubIFDCount = 4
  FileSize = 62
  Places = {8, 20, 26, 32, 60}
  Sizes = {0, 4, 8, 14, 18, 36}
  MaxEntries = 2
  MaxSubs = 2
  MaxBlocks = 1
  Ids <- MCIds
  Modes <- MCModes
  Documents <- SomeDocuments
  Model = "M"
  Tools = {"rstest", "identify"}
CHECK_DEADLOCK FALSE
INVARIANTS TypeOK LimitsKept RangesApart CfaIsRight MappedOnce LevelsScaledOnce
PROPERTY Terminates
