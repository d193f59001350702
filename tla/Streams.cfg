SPECIFICATION Spec
CONSTANTS
  MaxCodeLength = 4
  MaxDiffLength = 4
  LookupDepth = 3
  MaxNumCodeValues = 4
  ByteBits = 2
  FieldMessages <- SomeFields
  SymbolMessages <- SomeSymbols
  NoCode = NoCode
  Trailers <- SomeTrailers
  Unknown = Unknown
  Overwritten = Overwritten
INVARIANTS TypeOK DecodersAgree RoundTrip MarkerFound GivesUp
