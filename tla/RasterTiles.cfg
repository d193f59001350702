SPECIFICATION Spec
CONSTANTS
  Jobs <- PackedTiles
  Accepts <- CodecAccepts
  Scratch <- CodecScratch
  Work <- CodecWork
  Trusted <- AnyData
  PacketsPerBlock = 2
  SegmentSize = 8
  BlockSize = 12
  WidthMultiple = 6
INVARIANT TargetsFresh
