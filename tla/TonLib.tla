------------------------------- MODULE TonLib -------------------------------
(***************************************************************************)
(* The byte strings that the solutions handle and the calls they make into *)
(* the prebuilt TON crypto library.  The repository holds only headers of  *)
(* that library, so the operators below say what its callers rely on.      *)
(*                                                                         *)
(* A byte string is a record naming what it was made from; the bytes       *)
(* themselves are never spelled out.  Sizes are in KiB: every limit in the *)
(* sources is a multiple of 1024 bytes.                                    *)
(***************************************************************************)
EXTENDS Integers, Sequences

CONSTANTS
  Blocks,      \* root cells of TON blocks
  BocSize,     \* BocSize[b][m]: size of the serialization of b in mode m
  PackedSize,  \* PackedSize[b]: size of the finished compressed form of b
  GzFits       \* the blocks whose LZ4 data gzip does not make any larger

Modes == 0 .. 31

ASSUME LibAssumption ==
  /\ BocSize \in [Blocks -> [Modes -> Nat \ {0}]]
  /\ PackedSize \in [Blocks -> Nat \ {0}]
  /\ GzFits \subseteq Blocks
  \* a mode only ever adds an index, a checksum, hashes and cache bits
  /\ \A b \in Blocks : \A m \in Modes : BocSize[b][0] <= BocSize[b][m]

---------------------------------------------------------------------------
(* Byte strings.                                                           *)

Empty == [kind |-> "empty"]                          \* a null BufferSlice
Cell(b) == [kind |-> "cell", root |-> b]             \* a Ref<vm::Cell>, not bytes
Boc(b, m) == [kind |-> "boc", root |-> b, mode |-> m]
\* The LZ4 blocks of the pieces <<from, to>> of s, one after the other.
Lz4(s, frames) == [kind |-> "lz4", of |-> s, frames |-> frames]
Gz(s) == [kind |-> "gz", of |-> s]
\* What a decoder made of several LZ4 blocks: it starts like s and goes wrong.
Mangled(s) == [kind |-> "mangled", of |-> s]
\* What a decoder made of bytes that no encoder wrote.
Noise == [kind |-> "noise"]

SizeOf(s) ==
  CASE s.kind = "boc" -> BocSize[s.root][s.mode]
    [] s.kind = "lz4" -> PackedSize[s.of.root]
    [] s.kind = "gz"  -> PackedSize[s.of.of.root]
    [] s.kind = "empty" -> 0
    [] OTHER -> 1

---------------------------------------------------------------------------
(* td::Result: a value or an error.                                        *)

Ok(v) == [ok |-> TRUE, val |-> v]
Err == [ok |-> FALSE]

---------------------------------------------------------------------------
(* vm::std_boc_serialize, vm::std_boc_deserialize.  Mode bit 1 appends a   *)
(* CRC-32C of everything before it.                                        *)

\* Fault: the bit of WithTopHash.
HasCrc_TopHash(m) == (m \div 4) % 2 = 1

HasCrc(m) == (m \div 2) % 2 = 1

StdBocSerialize(cell, mode) == Boc(cell.root, mode)

\* Fault: the checksum is not compared.
StdBocDeserialize_NoCrc(s) ==
  CASE s.kind = "boc" -> {Ok(Cell(s.root))}
    [] s.kind = "mangled" -> {Err} \cup {Ok(Cell(b)) : b \in Blocks \ {s.of.root}}
    [] OTHER -> {Err}

\* Mangled bytes still carry the right header; nothing but the checksum is
\* sure to tell them from a bag of other cells.
StdBocDeserialize(s) ==
  CASE s.kind = "boc" -> {Ok(Cell(s.root))}
    [] s.kind = "mangled" ->
         IF HasCrc(s.of.mode) THEN {Err} ELSE {Err} \cup {Ok(Cell(b)) : b \in Blocks \ {s.of.root}}
    [] OTHER -> {Err}

---------------------------------------------------------------------------
(* td::lz4_compress makes one raw LZ4 block, which has no end mark: the    *)
(* decoder takes all its input as one block.                               *)

WholeFrame(s, frames) == Len(frames) = 1 /\ frames[1] = <<0, SizeOf(s)>>

Lz4Decompress(s, max) ==
  CASE s.kind = "lz4" ->
         IF WholeFrame(s.of, s.frames)
         THEN IF SizeOf(s.of) <= max THEN {Ok(s.of)} ELSE {Err}
         ELSE {Err, Ok(Mangled(s.of))}
    [] s.kind = "empty" -> {Err}
    [] OTHER -> {Err, Ok(Noise)}

---------------------------------------------------------------------------
(* td::gzencode with a ratio of 1.0 answers an empty slice when the result *)
(* would be larger than its input; td::gzdecode does so on any error.      *)

GzEncode(s) == IF s.of.root \in GzFits THEN Gz(s) ELSE Empty

GzDecode(s) == IF s.kind = "gz" THEN s.of ELSE Empty

---------------------------------------------------------------------------
(* Base64 text, as one token of standard input or of a file.               *)

EmptyText == [text |-> "none"]
BadText   == [text |-> "bad"]                        \* not base64
Text(s)   == [text |-> "base64", of |-> s]

Base64Encode(s) == IF s = Empty THEN EmptyText ELSE Text(s)

\* td::base64_decode of common/util.h: a slice, empty when the text is bad.
BufferFromBase64(t) == IF t.text = "base64" THEN t.of ELSE Empty

\* td::base64_decode of td/utils/base64.h: a Result.
Base64Decode(t) ==
  CASE t.text = "base64" -> Ok(t.of)
    [] t.text = "none"   -> Ok(Empty)
    [] OTHER             -> Err

=============================================================================
