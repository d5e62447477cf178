CONSTANTS
  Blocks <- MCBlocks
  BocSize <- MCBocSize
  PackedSize <- MCPackedSize
  GzFits <- MCGzFits
  Programs = {"gzip", "example", "reference"}
  TestFiles <- MCTestFiles
  Listings <- MCListings
SPECIFICATION Spec
INVARIANTS
  PassIffFits
  NeverAnotherBlock
  CodeTellsOutput
PROPERTIES
  ImplementsRunTests
  ImplementsContest
