CONSTANTS
  Blocks <- MCBlocks
  BocSize <- MCBocSize
  PackedSize <- MCPackedSize
  GzFits = {}
  Inputs <- MCInputs
SPECIFICATION Spec
PROPERTIES
  SplitBlocksRestored
