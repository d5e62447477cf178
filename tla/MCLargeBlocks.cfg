CONSTANTS
  Blocks <- MCBlocks
  BocSize <- MCBocSize
  PackedSize <- MCPackedSize
  GzFits <- MCGzFits
  Programs = {"gzip"}
  TestFiles <- MCTestFiles
  Listings <- MCWideListing
SPECIFICATION Spec
INVARIANTS
  AdmittedBlocksPass
