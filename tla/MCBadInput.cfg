CONSTANTS
  Blocks <- MCBlocks
  BocSize <- MCBocSize
  PackedSize <- MCPackedSize
  GzFits <- MCGzFits
  Programs = {"gzip"}
  Inputs <- MCInputs
  MaxRuns = 2
SPECIFICATION Spec
INVARIANTS
  GzipNeverAborts
