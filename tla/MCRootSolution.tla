--------------------------- MODULE MCRootSolution ---------------------------
(***************************************************************************)
(* Blocks of one, two and three chunks; the 229917 bytes of                *)
(* tests/1-001.txt in mode 0 are just under 225 KiB.                       *)
(***************************************************************************)
EXTENDS RootSolution

Sized(m0, m31) == [m \in Modes |-> IF m = 0 THEN m0 ELSE m31]

MCBocSize == [
  chunk |-> Sized(128, 150),     \* exactly one chunk
  over  |-> Sized(129, 151),     \* two, the second of the least size
  test  |-> Sized(225, 261),     \* like tests/1-001.txt
  three |-> Sized(300, 350) ]

MCBlocks == DOMAIN MCBocSize
MCPackedSize == [b \in MCBlocks |-> 60]

MCInputs ==
  {Command("compress", Text(Boc(b, 31))) : b \in MCBlocks}
  \cup {Command("compress", BadText), Command("help", BadText),
        Command("decompress", Text(Noise)),
        \* LZ4 of another solution, in a mode of its own
        Command("decompress", Text(Lz4(Boc("over", 31), <<<<0, 151>>>>))),
        \* and one in pieces, with the checksum of mode 2
        Command("decompress", Text(Lz4(Boc("over", 2), <<<<0, 128>>, <<128, 151>>>>)))}
=============================================================================
