CONSTANTS
  Blocks <- MCBlocks
  BocSize <- MCBocSize
  PackedSize <- MCPackedSize
  GzFits <- MCGzFits
  Programs = {"gzip", "example", "reference"}
  Inputs <- MCInputs
  MaxRuns = 2
SPECIFICATION Spec
INVARIANTS
  TypeOK
  Interchange
  OnlyTheBlockWithin
  CompressesBlocksOnly
PROPERTIES
  RunsEnd
