-------------------------- MODULE MCSolutionTests ---------------------------
(***************************************************************************)
(* Blocks on both sides of every limit, in KiB.                            *)
(***************************************************************************)
EXTENDS SolutionTests

\* Sizes in the modes that occur, 0, 2 and 31; the others are not asked for.
Sized(m0, m2, m31) == [m \in Modes |-> IF m = 0 THEN m0 ELSE IF m = 2 THEN m2 ELSE m31]

MCBocSize == [
  small |-> Sized(98, 99, 116),         \* like most files in tests/
  edge  |-> Sized(1023, 1024, 1200),    \* exactly one chunk of tester/solution.cpp
  wide  |-> Sized(1024, 1025, 1201),    \* one more than that
  dense |-> Sized(90, 91, 100),         \* gzip makes it larger
  full  |-> Sized(1900, 1901, 2048),    \* the largest the script admits
  raw   |-> Sized(2040, 2041, 2047)     \* LZ4 makes it larger
]

MCBlocks == DOMAIN MCBocSize

MCPackedSize == [b \in MCBlocks |->
  CASE b = "raw" -> 2049 [] b = "full" -> 2048 [] OTHER -> MCBocSize[b][2] \div 2]

MCGzFits == MCBlocks \ {"dense"}

MCTestFiles ==
  {Canonical(b) : b \in MCBlocks} \cup {Text(Boc("small", 2)), Text(Noise), BadText}

MCListings ==
  {<<t, Canonical("small")>> : t \in MCTestFiles}
  \cup {<<Canonical("small"), t>> : t \in MCTestFiles}
  \cup {<<Canonical("wide"), Canonical("edge"), Canonical("full")>>}

\* The block that is 1 KiB over the chunk of tester/solution.cpp.
MCWideListing == {<<Canonical("wide")>>}
=============================================================================
