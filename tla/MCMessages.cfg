SPECIFICATION Spec
CONSTANTS
  RADIX = 2
  Shorts <- MCShorts
  Ints <- MCInts
  Sizes <- MCSizes
  Strings <- MCStrings
  Old = Old
INVARIANTS
  FieldsExact
  SizesSuffice
  ChunkInPlace
  CodecHeaderExact
\* A message makes one journey.
CHECK_DEADLOCK FALSE
