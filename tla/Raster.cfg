SPECIFICATION Spec
CONSTANTS
  Jobs <- AllJobs
  Accepts <- CodecAccepts
  Scratch <- CodecScratch
  Work <- CodecWork
  Trusted <- CodecTrusted
  PacketsPerBlock = 2
  SegmentSize = 8
  BlockSize = 12
  WidthMultiple = 6
INVARIANTS TypeOK TargetsFresh InputsReady Complete
