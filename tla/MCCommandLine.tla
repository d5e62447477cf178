--------------------------- MODULE MCCommandLine ----------------------------
(***************************************************************************)
(* Three blocks around the limits of the decompressors, one text that is   *)
(* not base64 and one that is, but no block.                               *)
(***************************************************************************)
EXTENDS CommandLine

Sized(m0, m2, m31) == [m \in Modes |-> IF m = 0 THEN m0 ELSE IF m = 2 THEN m2 ELSE m31]

MCBocSize == [
  edge |-> Sized(1023, 1024, 1200),
  wide |-> Sized(1030, 1034, 1201),
  vast |-> Sized(2048, 2049, 2300) ]

MCBlocks == DOMAIN MCBocSize
MCPackedSize == [b \in MCBlocks |-> 500]
MCGzFits == {"edge", "wide"}

MCInputs ==
  {Text(Boc(b, 31)) : b \in MCBlocks} \cup {Text(Boc("edge", 0)), Text(Noise), BadText}
=============================================================================
