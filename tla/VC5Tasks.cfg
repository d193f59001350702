CONSTANTS
  NumChannels = 1
  Levels = 2
  Thread = {t1, t2}
  MaxBad = 2
  Unsupported = Unsupported
SPECIFICATION SomeBadSpec
INVARIANTS
  TypeOK
  PrecursorsReady
  LiveBands
  TeamAgrees
PROPERTIES
  Implements
  Terminates
