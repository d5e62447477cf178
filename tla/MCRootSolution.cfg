CONSTANTS
  Blocks <- MCBlocks
  BocSize <- MCBocSize
  PackedSize <- MCPackedSize
  GzFits = {}
  Inputs <- MCInputs
SPECIFICATION Spec
INVARIANTS
  TypeOK
PROPERTIES
  FailedRunKeepsOutput
  CompletedMeansWritten
  RestoresIffOneChunk
